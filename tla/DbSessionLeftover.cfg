CONSTANTS
    alice = alice
    root = root
    c1 = c1
    c2 = c2
    s1 = s1
    s2 = s2
    s3 = s3
    Users <- MCUsers
    Admins <- MCAdmins
    Conns = {c1}
    Sessions = {s1}
    None = None
SPECIFICATION Spec
INVARIANT AnonymousIsBlank
