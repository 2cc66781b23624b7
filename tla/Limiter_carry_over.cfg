SPECIFICATION Spec
CONSTANTS
  Keys = {k1}
  Limit = 2
  Window = 3
  Burst = 2
  Capacity = 2
  Cells = 3
  MinRetry = 1
  MinIdle = 1
  HoldTTL = 3
  RetryHint = 1
  Budget = 2
  RestoreTTL = 99
  StrategiesInUse = {"fixed_window", "sliding_window_log", "token_bucket", "leaky_bucket", "concurrency"}
  MaxEngines = 2
  MaxTime = 4
  MaxLag = 1
  MaxUnits = 4
  MaxLate = 1
  MaxRewind = 1
INVARIANT AdmitsItsQuota
CHECK_DEADLOCK FALSE
