SPECIFICATION Spec
CONSTANTS
  a = a  b = b  c = c
  Job = {a, b, c}
  DependsOn <- Chain
  Rank <- Order
  Slot = {s1, s2}
  Client = {c1, c2}
  MaxRetries <- Retries
  DeadLettered = {b}
  Unknown = {c}
  Queues <- Home
  Ops = {"enqueue", "cancel", "retry", "replay", "purge"}
  AtomicBatch = FALSE
  MaxBatch = 2
  MaxCrashes = 1
SYMMETRY Symmetry
INVARIANTS TypeOK ExclusiveClaim NoOrphan NoLostWakeup ClaimInv
PROPERTIES TerminalStable ImplementsLifecycle
CHECK_DEADLOCK FALSE
