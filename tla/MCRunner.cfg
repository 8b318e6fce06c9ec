SPECIFICATION PartSpec
CONSTANTS
  NFiles = 2
  N = 3
  FileOf <- TwoFiles
  Jobs = 2
  Calls = {x, y}
  Shutdowns = {y}
  MaxPending = 2
  SupportsCancel = TRUE
  f1 = f1  f2 = f2
  a1 = a1  a2 = a2
  TestFiles <- FilesInOrder
  Planned <- PlannedTests
  Applications <- TwoApplications
  Paths <- Scaffold
  DirOf <- Homes
  s1 = s1
  Scopes = {s1}
  Cooperative = {s1}
  MaxActive = 1
  CleanupTimeout = 2
  Causes = {UserCancelled}
  Timeout = Timeout
  Deadlines = {1, 2}
  Horizon = 2
  NoCause = NoCause
INVARIANTS
  GreenRanEverything
  SourceOrdered
  AcceptedRuns
  ScopeInTime
  BridgeHonest
  CommandHonest
PROPERTIES
  Refines
  InitAllOrNothing
  RunsEnd
CHECK_DEADLOCK FALSE
