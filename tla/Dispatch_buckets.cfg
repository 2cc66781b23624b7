SPECIFICATION Spec
CONSTANTS
  NameLen = 3
  Cells = 12
  Documents <- SomeDocuments
  Worlds <- SomeWorlds
  Requests <- SomeRequests
CHECK_DEADLOCK FALSE
INVARIANT BucketsApart
