SPECIFICATION Spec
CONSTANTS
  Keys = {k1, k2, k3}
  Limit = 2
  Window = 3
  Burst = 2
  Capacity = 2
  Cells = 3
  MinRetry = 1
  MinIdle = 1
  HoldTTL = 3
  RetryHint = 1
  Budget = 2
  RestoreTTL = 99
  StrategiesInUse = {"fixed_window", "sliding_window_log", "sliding_window_counter", "token_bucket", "leaky_bucket", "concurrency"}
  MaxEngines = 1
  MaxTime = 5
  MaxLag = 1
  MaxUnits = 4
  MaxLate = 1
  MaxRewind = 1
SYMMETRY Interchangeable
INVARIANTS Bounded SlotsExact HonestDecision ExpiryHarmless
PROPERTIES WorkingSetKept
CHECK_DEADLOCK FALSE
