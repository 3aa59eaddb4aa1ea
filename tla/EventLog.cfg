SPECIFICATION Spec
CONSTANTS
    Writers = {w1, w2}
    MaxLines = 2
    MaxRecords = 4
    Environments <- SomeEnvironments
INVARIANT LogInv VerdictIsTrue
PROPERTY KeepsPromise AppendsEnd
CHECK_DEADLOCK FALSE
