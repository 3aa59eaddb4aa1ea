SPECIFICATION Spec
CONSTANTS
    d1 = d1
    d2 = d2
    e1 = e1
    e2 = e2
    k1 = k1
    k2 = k2
    k3 = k3
    p1 = p1
    Dests = {d1, d2}
    Entries = {e1, e2}
    Covers <- CoversBoth
    Keys = {k1, k2, k3}
    Data = {p1}
    Sizes = {1, 2}
    Threshold = 2
    BundleWindow = 1
    MinBatchInterval = 2
    ResponseTtl = 1
    GrantTtl = 2
    TaintWindow = 1
    RecoveryWait = 3
    NoticeEvery = 2
    MaxListed = 2
    MaxRequests = 2
    Environments <- SomeEnvironments
INVARIANT EngineInv SpendsWithinSigned
PROPERTY RecoveryIsQuiet EnforcerFollows
