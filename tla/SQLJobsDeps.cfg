SPECIFICATION FairSpec
CONSTANTS
  a = a  b = b  c = c
  Job = {a, b, c}
  DependsOn <- Chain
  Rank <- Order
  Slot = {s1, s2}
  Client = {c1}
  MaxRetries <- Retries
  DeadLettered = {b}
  Unknown = {}
  Queues <- Home
  Ops = {"enqueue", "cancel"}
  AtomicBatch = TRUE
  MaxBatch = 2
  MaxCrashes = 0
PROPERTIES DependencyOrder DependenciesRelease EverySubmittedJobSettles
CHECK_DEADLOCK FALSE
