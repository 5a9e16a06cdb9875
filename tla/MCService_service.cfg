SPECIFICATION Spec
CONSTANTS
    Subjects = {"timers", "session"}
    Threads = {t1, worker_thread}
    Objects = {o1, o2}
    Reaper = reaper_thread
    Initial = initial
    HangThreshold = 1
    Worker = worker_thread
    NoObject = none
    Overlap = FALSE
    MaxHello = 2
    MaxQuiet = 1
    ShutdownTicks = 2
    Slots = {0, 1}
    MaxKeys = 2
INVARIANTS  TimersSafe
PROPERTIES ServiceEnds
CHECK_DEADLOCK FALSE
