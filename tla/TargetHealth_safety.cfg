SPECIFICATION Spec
CONSTANTS
  Attempts = {a1, a2, a3}
  Weight = 1
  HealthyThreshold = 2
  UnhealthyThreshold = 2
  PassiveFailures = 2
  PassiveWindow = 2
  EjectionTime = 1
  BreakerFailures = 2
  BreakerWindow = 2
  Cooldown = 1
  HalfOpenProbes = 2
  MidStreamAborts = TRUE
  FailUntil = 4
  MaxLag = 1
  MaxTime = 4
SYMMETRY Interchangeable
INVARIANTS
  Consistent
  InflightExact
  NoMissedTrip
  NeverWedged
PROPERTIES
  ProbeAlone
  HeldOut
  KeepsContract
CHECK_DEADLOCK FALSE
