\* Three requests for two places, one thread and a disk that two of them fill.
SPECIFICATION LiveSpec
CONSTANTS
    Requests = {r1, r2, r3}
    MaxInflight = 2
    MaxWorkers = 1
    MinFree = 3
    SpoolMax = 1
    Capacity = 6
    Declared <- Lengths
    MaxBody = 2
    MaxChunks = 1
INVARIANTS TypeOK AccountsBalance WorkerKeepsBody OneCall StopsSoon FloorNearlyKept
PROPERTIES AllEnd
CHECK_DEADLOCK FALSE
