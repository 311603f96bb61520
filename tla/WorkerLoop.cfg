SPECIFICATION FairSpec
CONSTANTS
  Job = {j1, j2, j3}
  CronTask = {k1}
  Concurrency = 2
  MaxErrors = 2
INVARIANTS TypeOK SlotsConserved DrainedBeforeLeaving
PROPERTIES NeverResurrected StopIsHonoured QueueIsServed
CHECK_DEADLOCK FALSE
