SPECIFICATION ScanSpec
CONSTANTS
    Jobs <- SomeJobs
    Window = 1
    Chunk = 5
    Step = 3
    HeaderSize = 1
    EntrySize = 1
INVARIANT ScansAreRight
PROPERTY ScansEnd
CHECK_DEADLOCK FALSE
