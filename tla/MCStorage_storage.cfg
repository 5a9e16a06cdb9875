SPECIFICATION StorageSpec
CONSTANTS
    Subjects = {"cache", "table", "pool", "reader", "sort", "singletons",
                "settings", "ragdoll", "range", "huffman", "numbers",
                "shake", "flow", "sync", "path", "lists"}
    CacheSlots = 4
    Buckets = 1
    CacheOffsets = {0, 1, 2, 3, 4, 5}
    Keys = {1, 9, 8}
    MinElements = 8
    ProbeMultiplier = 5
    ProbeIncrementer = 7
    IndexReads = 3
    CacheRecords = 2
    MaxRecords = 3
    MaxPosted = 1
    Quiet = TRUE
    Buffers = {1, 2, 3}
    Users = {u1, u2, u3}
    BatchSizes = {1, 2}
    Pools = {"fixed", "reuse", "send"}
    MinBytes = 3
    MaxBytes = 8
    MinAllocators = 2
    MaxAllocators = 4
    IndexWord = 5
    HalfSize = 2
    FileSizes = {0, 1, 2, 3, 4, 5, 6, 7, 8, 9}
    Requests = {1, 2, 3}
    FrontFlag = {FALSE}
    MaxSorted = 6
    SortValues = {1, 2, 3}
    Singles = {1, 2, 3}
    LastPriority = 4
    SetKeys = {0, 2, 4}
    SetThreads = {s1, s2}
    SetValues = {1, 2}
    Prealloc = 2
    GrowThresh = 2
    GrowRate = 2
    MaxItems = 4
    Files <- MCFiles
    Overrides <- MCOverrides
    SettingKeys <- MCSettingKeys
    Values = {0, 2}
    Wordy = {}
    Short = {}
    MaxChanges = 3
    ByteBits = 3
    Letters = {1, 2, 3}
    TallyLimit = 8
    Tallied <- MCTallied
    MaxTallies = 1
    LogTotal <- MCLogTotal
    BitChances = {1, 3000}
    FieldTotals = {3, 8}
    Limits = {2, 30}
    MaxFields = 2
    MaxText = 2
    HuffLetters = {1, 2, 3, 4}
    Probabilities = {1, 2, 4}
    CodeSymbols = {2, 3}
    LimbBits = 3
    SpecialC = 5
    EdgeLimbs = {0, 1, 7}
    KaratsubaLimbs = 4
    MinWindowBits = 2
    MaxRootRounds = 8
    FieldPrime = 43
    CurveD = 4
    WindowBits = 3
    ScalarBits = 8
    PrivateKeys = {6, 37, 255}
    RsaPrimes = {5, 7, 11, 13}
    FirstE = 5
    HashValues = 4
    Salts = {0, 1}
    LowLimit = 4
    HighLimit = 8
    Second = 2
    Prompt = TRUE
    BurstShare = 2
    RTT_FUZZ = 1
    InitialRtt = 1
    RttWeight = 2
    MinIncrement = 3
    Flushers = {1}
    SendSizes = {0, 3}
    MaxTrip = 1
    MaxDebt = 0
    MaxGoodput = 0
    MaxNow = 5
    ClockSize = 128
    StampSize = 16
    Tolerance = 4
    TS_MAX_SAMPLES = 4
    TS_MIN_SAMPLES = 1
    BestShare = 2
    ClockOffsets = {108}
    Clocks = {0, 60, 127}
    Trips = {0, 3, 8}
    Ages = {0, 5, 11, 13, 14}
    MINIMUM_MTU = 30
    MEDIUM_MTU = 36
    MAXIMUM_MTU = 42
    UdpIp = 6
    S2COverhead = 4
    UserId = 2
    HeaderBytes = 2
    ProbeMin = 5
    ProbeAttempts = 2
    Paths = {30, 35, 36, 37, 41, 42, 50}
    Sizes = {1, 18, 20, 24, 25, 26, 30, 32}
    Pads = {0, 1, 3, 44}
    Inflated = {0}
    Nodes = {1, 2, 3}
    ListKinds = {"forward", "double", "single", "queue", "sent", "batch"}
INVARIANTS    AlgorithmsRight  PathRight
CHECK_DEADLOCK FALSE
