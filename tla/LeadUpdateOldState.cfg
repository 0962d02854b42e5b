CONSTANTS
    alice = alice
    root = root
    r1 = r1
    r2 = r2
    r3 = r3
    l1 = l1
    l2 = l2
    Users <- MCUsers
    Admins <- MCAdmins
    Requests = {r1, r2}
    Leads = {l1}
    None = None
    MaxCrashes = 0
    MaxDbErrors = 0
SPECIFICATION Spec
INVARIANT AuditHasOldState
