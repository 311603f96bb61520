SPECIFICATION FairSpec
CONSTANTS
  a = a  b = b  c = c  d = d  None = None
  Job = {a, b, c, d}
  Slot = {s1, s2}
  MaxRetries <- Retry
  DeadLettered = {b}
  Unknown = {c}
  Dependent = {a}
  RetryDelay <- Delay
  Backoff = {a}
  BackoffMax <- Limit
  FloatExp = 1
  MaxFaults = 1
INVARIANTS TypeOK MetricsAddUp HooksTellTheTruth
PROPERTY EveryEndIsTold
CHECK_DEADLOCK FALSE
