SPECIFICATION FairSpec
CONSTANTS
    Subjects = {"objects", "rwlock", "queue", "dns", "udp", "log"}
    Threads = {t1, t2}
    Objects = {o1}
    Reaper = reaper_thread
    Initial = initial
    HangThreshold = 2
    Loggers = {g1, g2}
    MaxListSize = 2
    MaxLogged = 3
    Lockers = {l1, l2}
    Callbacks = {a, b}
    MaxBuffers = 2
    Lookups = {q1, q2}
    Hosts = {h1, h2}
    NoHost = none
    Ids = {1, 2}
    MaxSimul = 2
    MaxCache = 2
    DnsTimeout = 2
    CacheLife = 1
    Posters = {"io", "w1"}
    IoThread = "io"
    Simultaneous = 2
    PostLimit = 1
    PoolSize = 4
    MaxSends = 1
    Members = {c1}
    NoMember = none
    TableSize = 8
    Multiplier = 5
    Incrementer = 7
    MultInverse = 5
    Hashes = {0}
    MaxSubsets = 2
    BinCount = 4
    Epochs = 23
    EpochWord = 32
    FirstEpoch = 14
    LastTime = 22
    CookieAddrs = {"a", "b"}
    RqWord = 16
    RqFirst = 9
    RqLast = 14
    RqReach = 5
    OutOfOrderLimit = 4
    OutOfOrderLoops = 3
    RqNull = null
    RqGarbage = garbage
    AcrossWrap = FALSE
    Word = 16
    CurveQ = 5
    MinS = 9
    Messages = {3}
    Randoms = {0, 1, 2, 3, 8, 13}
    RekeyAt = 1
    MaxChallenges = 4
    Responders = {w1, w2}
    Prompt = TRUE
    BlockCount = 6
    DenseCount = 3
    BlockPrime = 7
    MixPrime = 5
    HeavyRows = 2
    HeavyMaxCols = 4
    ExtraRows = 2
    RefListMax = 4
    Seeds = {2, 4, 6, 9, 10, 11, 12, 13, 14, 15, 16}
    UnderWindows <- MCUnder
    AboveWindows <- MCAbove
    Prng <- MCPrng
    LastId = 7
    MaxRepeats = 1
    MaxAfter = 0
PROPERTIES PartsProgress
CHECK_DEADLOCK FALSE
