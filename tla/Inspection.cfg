SPECIFICATION FairSpec
CONSTANTS
    d1 = d1
    h1 = h1
    h2 = h2
    p1 = p1
    n1 = n1
    n2 = n2
    n3 = n3
    torch = torch
    os = os
    None = None
    Other = Other
    Names = {n1, n2, n3}
    MaxHeld = 2
    MaxMembers = 2
    Strings = {torch, os}
    Allowed <- MCAllowed
    Dangerous <- MCDangerous
    Remembered = 2
    MaxOps = 4
    Decoys = {d1}
    Hosts = {h1, h2}
    Paths = {p1}
    Settings <- MCSettings
    MaxRequests = 1
    Inputs <- MCInputs
INVARIANT ScannerInv CompleteMeansRead PromotedRunsNothing SmallerPasses BehaviourIsTold
PROPERTY InspectionEnds
CHECK_DEADLOCK FALSE
