CONSTANTS
  Conns = {c1, c2, c3}
  Addrs = {a1, a2}
  FloodThreshold = 0
  MaxPopulation = 2
  MapPrealloc = 1
  NoConn = none
  Prompt = TRUE
SPECIFICATION MapSpec
INVARIANTS TableExact ServerOutlivesConnexions ServerGoesAway
CHECK_DEADLOCK FALSE
SYMMETRY ConnSymmetry
