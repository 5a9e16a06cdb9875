SPECIFICATION TableSpec
CONSTANTS
    Keys = {1, 2, 3, 4, 5}
    MinElements = 8
    ProbeMultiplier = 5
    ProbeIncrementer = 7
    IndexReads = 3
    CacheRecords = 1
    MaxRecords = 5
    MaxPosted = 1
    Quiet = TRUE
INVARIANT IndexComplete
CHECK_DEADLOCK FALSE
