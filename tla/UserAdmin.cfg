CONSTANTS
    root = root
    dean = dean
    eva1 = eva1
    eva2 = eva2
    mail1 = mail1
    mail2 = mail2
    mail3 = mail3
    r1 = r1
    r2 = r2
    Users = {root, dean, eva1, eva2}
    Admins <- MCAdmins
    Emails = {mail1, mail2, mail3}
    EmailOf <- MCEmailOf
    Requests = {r1, r2}
    None = None
    MaxCrashes = 1
    MaxDbErrors = 1
SPECIFICATION FairSpec
INVARIANTS UniqueEmails AnswersHold
PROPERTIES ImplementsAccounts NoLoneLockout AnsweredIsAccounted EveryRequestEnds
