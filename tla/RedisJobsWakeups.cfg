SPECIFICATION FairSpec
CONSTANTS
  a = a  b = b  None = None
  Job = {a, b}
  Slot = {s1, s2}
  Client = {c1}
  DependsOn <- Chain
  MaxRetries <- Retries
  DeadLettered = {}
  Priority <- Plain
  Queues <- Home
  Ops = {"enqueue", "delay", "retry", "purge", "stats", "expire"}
  Cancels = {b}
  MaxCalls = 2
  MaxCrashes = 0
  Kept = {a}
  Unknown = {b}
INVARIANTS NoLostWakeup
CHECK_DEADLOCK FALSE
PROPERTY EverySubmittedJobSettles
