SPECIFICATION PartSpec
CONSTANTS
  MaxAttempts = 3
  Backoffs <- OneBackoff
  Calls = {a, b}
  Closers = {s}
  MaxStarts = 2
  Leader = leader
  Descendants = {d1, d2}
  CleanupAttempts = 2
  Tests = 2
  Steps = 2
  MaxRequests = 4
  Docs = {doc1, doc2}
  Revisions = {r1, r2}
  BrokenRevisions = {}
  MaxEdits = 2
  MaxRuns = 2
  MaxReloads = 1
  s1 = s1
  Contexts = {s1, s2}
  MaxActive = 1
  CleanupTimeout = 1
  Causes = {UserCancelled}
  Timeout = Timeout
  Deadlines = {1}
  Horizon = 1
  NoCause = NoCause
INVARIANTS
  OneApplication
  NoProcessLeft
  StepStops
  DiagnosticsCurrent
  WaitHonest
  AttemptsJustifyVerdict
  
  RetryInPlace
PROPERTIES
  HostsEnd
CHECK_DEADLOCK FALSE
