SPECIFICATION FairSpec
CONSTANTS
  Routes <- SomeRoutes
  Requests <- SomeRequests
  Informational = TRUE
INVARIANTS
  UnitsReturned
  OneAuthor
  ReportedOnce
  Accounted
PROPERTIES
  SentRightly
  Ends
