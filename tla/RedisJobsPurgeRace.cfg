SPECIFICATION Spec
CONSTANTS
  a = a  b = b  None = None
  Job = {a, b}
  Slot = {s1, s2}
  Client = {c1, c2}
  DependsOn <- Independent
  MaxRetries <- NoRetries
  DeadLettered = {}
  Priority <- Plain
  Queues <- Home
  Ops = {"enqueue", "retry", "purge"}
  Cancels = {}
  MaxCalls = 2
  MaxCrashes = 0
  Kept = {}
  Unknown = {}
PROPERTY PurgeSparesQueued
CHECK_DEADLOCK FALSE
