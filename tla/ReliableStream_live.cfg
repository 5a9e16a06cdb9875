SPECIFICATION FairSpec
CONSTANTS
    Thresh1 = 3
    Thresh2 = 4
    LongMod = 16
    RollupMod = 16
    Unordered = FALSE
    FragMsgs = {}
    Continues = {}
    MaxFrags = 1
    FirstId = 6
    Window = 2
    Loops = 2
    Capacity = 2
    MaxWrites = 2
    MaxLag = 1
    MaxAckLag = 7
    AllocFails = FALSE
    MaxInFlight = 2
    MaxAcks = 1
PROPERTIES EverythingArrives
CHECK_DEADLOCK FALSE
