CONSTANTS
    root = root
    ann = ann
    bob = bob
    bob2 = bob2
    rootMail = rootMail
    annMail = annMail
    bobMail = bobMail
    r1 = r1
    Users = {ann}
    Admins = {}
    Requests = {r1}
    Emails = {annMail}
    EmailOf <- EmailOfUser
    Fallback = annMail
    Channels = {"log"}
    MaxCrashes = 0
    MaxErrors = 1
SPECIFICATION FairSpec
PROPERTY EveryCreationIsAccounted
