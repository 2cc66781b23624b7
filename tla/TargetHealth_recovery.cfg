SPECIFICATION FairSpec
CONSTANTS
  Attempts = {a1, a2}
  Weight = 1
  HealthyThreshold = 2
  UnhealthyThreshold = 2
  PassiveFailures = 2
  PassiveWindow = 2
  EjectionTime = 1
  BreakerFailures = 1
  BreakerWindow = 2
  Cooldown = 1
  HalfOpenProbes = 2
  MidStreamAborts = FALSE
  FailUntil = 2
  MaxLag = 0
  MaxTime = 4
PROPERTIES
  Recovers
CHECK_DEADLOCK FALSE
