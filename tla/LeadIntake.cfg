CONSTANTS
    root = root
    ann = ann
    bob = bob
    bob2 = bob2
    rootMail = rootMail
    annMail = annMail
    bobMail = bobMail
    r1 = r1
    Users = {root, ann, bob, bob2}
    Admins = {root}
    Requests = {r1}
    Emails = {rootMail, annMail, bobMail}
    EmailOf <- EmailOfUser
    Fallback = annMail
    Channels = {"smtp", "log"}
    MaxCrashes = 1
    MaxErrors = 1
SPECIFICATION FairSpec
INVARIANTS LeadHasResume RefusedLeavesNothing ToldOfLeads
PROPERTIES DeactivatedIsNotTold EveryoneIsTried CreationIsAccounted EverySubmissionEnds
