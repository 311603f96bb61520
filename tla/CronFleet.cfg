SPECIFICATION Spec
CONSTANTS
  w1 = w1  w2 = w2  c1 = c1  c2 = c2
  Worker = {w1, w2}
  Cron = {c1, c2}
  Occurs <- TwoCrons
  Ahead <- Skew
  TTL = 3
  MaxAhead = 1
  MaxLag = 1
  MaxTime = 5
  MaxErrors = 1
INVARIANTS TypeOK AtMostOnce NoneMissed
CHECK_DEADLOCK FALSE
