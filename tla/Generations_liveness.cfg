SPECIFICATION FairSpec
CONSTANTS
  Requests = {r1}
  plain = plain
  storeA = storeA
  storeB = storeB
  unbuilt = unbuilt
  broken = broken
  A = A
  B = B
  NoPath = NoPath
  Missing = Missing
  Configs <- FewConfigs
  Loadable <- FewConfigs
  Buildable <- FewBuildable
  StorePath <- MCStorePath
  LateReloads = FALSE
  MaxEdits = 2
  MaxAsked = 1
PROPERTIES
  Settles
  WindsDown
CHECK_DEADLOCK FALSE
