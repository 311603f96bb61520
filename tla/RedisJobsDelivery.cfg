SPECIFICATION Spec
CONSTANTS
  a = a  b = b  None = None
  Job = {a, b}
  Slot = {s1, s2}
  Client = {c1}
  DependsOn <- Independent
  MaxRetries <- Retries
  DeadLettered = {a}
  Priority <- Urgent
  Queues <- HomeAndDLQ
  Ops = {"enqueue", "delay", "retry", "replay", "purge", "stats", "expire"}
  Cancels = {}
  MaxCalls = 3
  MaxCrashes = 2
  Kept = {a, b}
  Unknown = {}
INVARIANTS TypeOK SingleDelivery StatsExact NotBeforeRunAt NotStranded
PROPERTY ImplementsLifecycle
CHECK_DEADLOCK FALSE
