SPECIFICATION Spec
CONSTANTS
    c1 = c1
    c2 = c2
    c3 = c3
    Uids = {u1, u2}
    Keys = {k1, k2}
    Configs = {c1, c2, c3}
    PolicyOf <- PoliciesOfThree
    DryRun = {c1}
    Watched = FALSE
    Statuses = FALSE
    PendingPerUid = 2
    Ops = {"restore", "config_set", "auto_on", "auto_off", "key_add", "key_remove"}
    MaxRequests = 3
    MaxLedger = 1
    MaxCrashes = 1
    MaxFailures = 1
SYMMETRY Symmetry
INVARIANT ActsOnIssuedState PolicyCovered
PROPERTY ConfigIsSigned AuthorityStays OnlyOwnDisplaced
