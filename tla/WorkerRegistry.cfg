SPECIFICATION FairSpec
CONSTANTS
  Worker = {w1, w2}
  Viewer = {v, u}
  Stalling = {w2}
  Interval = 2
  Latency = 1
  TTL = 9
  ReapAfter = 10
  MaxSkew = 1
  MaxErrors = 1
INVARIANTS TypeOK ServingShown
PROPERTY GoneLeaves
CHECK_DEADLOCK FALSE
