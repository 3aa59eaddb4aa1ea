SPECIFICATION FairSpec
CONSTANTS
    Assets = {a1}
    Procs = {p1, p2}
    Ifaces = {e1}
    NM = NM
    FW = FW
    Tools = {"nmcli", "ip", "nft"}
    Ops = {"full", "egress", "restore", "emergency"}
    Serialized = FALSE
    QuietCuts = TRUE
    MaxLedger = 1
    MaxCrashes = 1
    MaxFailures = 1
    MaxTears = 0
PROPERTY OperationsEnd
INVARIANT RecoverableUntilResolved
