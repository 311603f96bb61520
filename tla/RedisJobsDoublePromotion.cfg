SPECIFICATION Spec
CONSTANTS
  a = a  b = b  None = None
  Job = {a, b}
  Slot = {s1, s2}
  Client = {c1}
  DependsOn <- Chain
  MaxRetries <- NoRetries
  DeadLettered = {}
  Priority <- Plain
  Queues <- Home
  Ops = {"enqueue"}
  Cancels = {}
  MaxCalls = 2
  MaxCrashes = 0
  Kept = {}
  Unknown = {}
INVARIANT NeverRunTwiceAtOnce
CHECK_DEADLOCK FALSE
