SPECIFICATION Spec
CONSTANTS
    Thresh1 = 2
    Thresh2 = 3
    LongMod = 16
    RollupMod = 16
    Unordered = TRUE
    FragMsgs = {3, 4}
    Continues = {4}
    MaxFrags = 2
    FirstId = 6
    Window = 3
    Loops = 2
    Capacity = 1
    MaxWrites = 4
    MaxLag = 0
    MaxAckLag = 7
    AllocFails = FALSE
    MaxInFlight = 1
    MaxAcks = 1
INVARIANTS DeliveredOnce AckIdDecoded
PROPERTIES ImplementsChannel
CHECK_DEADLOCK FALSE
