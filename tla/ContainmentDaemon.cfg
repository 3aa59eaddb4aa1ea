SPECIFICATION Spec
CONSTANTS
    Assets = {a1, a2}
    Procs = {p1, p2}
    Ifaces = {e1, e2}
    NM = NM
    FW = FW
    Tools = {"nmcli", "ip", "iptables"}
    Ops = {"full", "egress", "restore", "emergency"}
    Serialized = TRUE
    QuietCuts = FALSE
    MaxLedger = 2
    MaxCrashes = 1
    MaxFailures = 1
    MaxTears = 1
SYMMETRY Symmetry
INVARIANT Recoverable RestoredMeansRestored WalkAgrees DaemonInv AppliedIsRecorded AppliedIsInForce
