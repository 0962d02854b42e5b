CONSTANTS
    ann = ann
    root = root
    f1 = f1
    f2 = f2
    Users = {ann, root}
    Admins = {root}
    MaxRows = 3
    Limit = 1
    Slots = {f1, f2}
    Views <- MCViews
    Filters = {"ALL", "PENDING", "lead"}
    None = None
SPECIFICATION FairSpec
INVARIANTS ScanMissesFew ReachedOutIsTrue SettledShowsChoice
PROPERTY LoadingEnds
