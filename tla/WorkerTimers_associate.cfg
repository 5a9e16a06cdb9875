CONSTANTS
  Threads = {t1, t2, worker_thread}
  Objects = {o1}
  Reaper = reaper_thread
  Initial = initial
  Worker = worker_thread
  NoObject = none
  Overlap = TRUE
  HangThreshold = 2
SPECIFICATION TimerSpec
INVARIANT NotFreedWhileHeld
CHECK_DEADLOCK FALSE
