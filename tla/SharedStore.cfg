SPECIFICATION Spec
CONSTANTS
  g1 = g1
  g2 = g2
  a1 = a1
  a2 = a2
  b1 = b1
  Gateways = {g1, g2}
  Calls = {a1, a2, b1}
  Home <- MCHome
  Keys = {k}
  Capacity = 2
  TTL = 4
  Patience = 1
  MaxLag = 1
  MaxHold = 1
  MaxTime = 6
  Nobody = Nobody
SYMMETRY Interchangeable
INVARIANTS
  CountExact
PROPERTIES
  KeepsContract
CHECK_DEADLOCK FALSE
