SPECIFICATION PartSpec
CONSTANTS
  a = a  b = b  x = x  z = z
  Runs <- TwoRuns
  Roots <- TwoRoots
  RunOf <- RunOfTwo
  Capacity = 3
  QueueCapacity = 1
  ReplayCapacity = 6
  MaxEvents = 5
  Scopes = {s1, s2}
  Cooperative = {s2}
  MaxActive = 1
  CleanupTimeout = 0
  Causes = {UserCancelled}
  Timeout = Timeout
  Deadlines = {}
  Horizon = 0
  NoCause = NoCause
INVARIANTS
  GapAccounted
  TerminalFactHonest
  NoWorkAfterGap
  StreamExact
  ScopeHolds
PROPERTY GapEndsStream
CHECK_DEADLOCK FALSE
