SPECIFICATION FairSpec
CONSTANTS
  a = a  b = b  c = c
  Job = {a, c}
  DependsOn <- Chain
  Rank <- Order
  Slot = {s1, s2}
  Client = {c1}
  MaxRetries <- NoRetries
  DeadLettered = {}
  Unknown = {}
  Queues <- Home
  Ops = {"enqueue"}
  AtomicBatch = TRUE
  MaxBatch = 1
  MaxCrashes = 1
PROPERTY DependenciesRelease
CHECK_DEADLOCK FALSE
