SPECIFICATION Spec
CONSTANTS
  Requests = {r1, r2}
  plain = plain
  storeA = storeA
  storeB = storeB
  unbuilt = unbuilt
  broken = broken
  A = A
  B = B
  NoPath = NoPath
  Missing = Missing
  Configs <- MCConfigs
  Loadable <- MCLoadable
  Buildable <- MCBuildable
  StorePath <- MCStorePath
  LateReloads = FALSE
  MaxEdits = 1
  MaxAsked = 1
SYMMETRY Interchangeable
INVARIANTS
  NoStranding
  NoOrphanWork
  StoreServes
  ExitAfterGrace
PROPERTIES
  NoneJoinsDrain
  KeepsServingContract
CHECK_DEADLOCK FALSE
