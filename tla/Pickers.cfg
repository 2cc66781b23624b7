SPECIFICATION FairSpec
CONSTANTS
  Callers = {c1, m}
  Mirrors = {m}
  N = 3
  Balances = {"round_robin", "least_connections", "ring_hash"}
  Weights <- MCWeights
  Keys <- MCKeys
  Placement <- MCPlacement
  VnodeFactor = 1
  MaxTurns = 2
  MaxPicks = 5
  MaxCredit = 4
  MaxInflight = 2
INVARIANTS
  Proportional
PROPERTIES
  NoneLeft
  BestAdmitted
  PickEnds
CHECK_DEADLOCK FALSE
