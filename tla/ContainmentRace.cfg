SPECIFICATION Spec
CONSTANTS
    Assets = {a1}
    Procs = {p1, p2}
    Ifaces = {e1}
    NM = NM
    FW = FW
    Tools = {"nmcli", "ip", "nft"}
    Ops = {"full", "restore"}
    Serialized = FALSE
    QuietCuts = TRUE
    MaxLedger = 3
    MaxCrashes = 0
    MaxFailures = 0
    MaxTears = 0
INVARIANT Recoverable
