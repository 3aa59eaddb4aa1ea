SPECIFICATION FairSpec
CONSTANTS
    c1 = c1
    c2 = c2
    c3 = c3
    Uids = {u1}
    Keys = {k1}
    Configs = {c1, c2}
    PolicyOf <- PoliciesOfTwo
    DryRun = {}
    Watched = TRUE
    Statuses = TRUE
    PendingPerUid = 1
    Ops = {"config_set", "tamper_set", "auto_on", "stop"}
    MaxRequests = 3
    MaxLedger = 0
    MaxCrashes = 0
    MaxFailures = 0
INVARIANT StatusOnWasOn
PROPERTY TamperCutIsReal StopCompletes
