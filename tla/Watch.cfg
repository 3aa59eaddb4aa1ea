SPECIFICATION Spec
CONSTANTS
    a1 = a1
    a2 = a2
    p1 = p1
    p2 = p2
    Assets = {a1, a2}
    Paths = {p1, p2}
    QueueMax = 2
    MaxNodes = 5
    Environments <- SomeEnvironments
INVARIANT WatchInv ReportsAreTrue
PROPERTY ReportsCome
CHECK_DEADLOCK FALSE
