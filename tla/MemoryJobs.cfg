SPECIFICATION Spec
CONSTANTS
  a = a  b = b  c = c  d = d  None = None
  Job = {a, b, c, d}
  DependsOn <- Chain
  Rank <- Order
  Slot = {s1, s2}
  MaxRetries <- Retries
  DeadLettered = {b}
  Unknown = {d}
  Queues <- HomeAndDLQ
  Retried = {"failed"}
  MaxBatch = 2
SYMMETRY Symmetry
INVARIANTS TypeOK ExclusiveClaim ReadyMatches NoStaleWait
PROPERTIES TerminalStable ImplementsLifecycle
CHECK_DEADLOCK FALSE
