CONSTANTS
    root = root
    next = next
    dean = dean
    eva = eva
    mail1 = mail1
    mail2 = mail2
    p1 = p1
    p2 = p2
    v1 = v1
    v2 = v2
    Users = {root, next, dean, eva}
    Admins <- MCAdmins
    Emails = {mail1, mail2}
    EmailOf <- MCEmailOf
    Settings <- MCSettings
    Procs = {p1, p2}
    Visits = {v1, v2}
    None = None
    Lifetime = 1
    MaxCrashes = 1
    MaxDbErrors = 1
SPECIFICATION Spec
SYMMETRY Symmetry
INVARIANTS ServingIsSeeded SomeStartSucceeds
PROPERTIES ActsAsLoggedIn OnlySeedingReopens
