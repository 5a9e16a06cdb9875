SPECIFICATION DatagramSpec
CONSTANTS
    Subjects = {"framing", "replay", "delivery"}
    Threads = {t1, t2}
    MaxRange = 2
    FirstIv = 5
    MaxIv = 12
    WordBits = 2
    Words = 3
    IvMod = 16
    ShiftByWidth = {FALSE}
    Streams = {0, 1}
    Sizes = {3, 24}
    UnreliableSizes = {16}
    CompressedSizes = {23}
    AckBytes = {1, 3}
    MaxPayload = 24
    FragThreshold = 10
    FragHeader = 4
    BloMask = 7
    ResentSizes = {8, 9, 10, 11, 12, 13, 14, 15, 16, 17, 18, 19, 20, 21, 22, 23, 24}
    MaxMsgs = 1
    FragStreams = {0, 1}
    Depth = 2
    Lengths = {1, 2}
    MaxMessages = 2
    Reuse = FALSE
    Zipped = {TRUE, FALSE}
    Aborts = TRUE
    Fails = TRUE
INVARIANTS  AcceptedOnce IvUsedOnce   
CHECK_DEADLOCK FALSE
