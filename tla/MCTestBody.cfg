CONSTANTS
  test = test
  resource = resource
  block = block
  timeout = timeout
  timed = timed
  provider = provider
  browser = browser
  Nodes <- Tree
  Root = test
  Kind <- KindOf
  Children <- ChildrenOf
  Below <- BelowOf
SPECIFICATION FairSpec
INVARIANTS NothingLeftBehind OutcomeJustified FirstFailureDecides
PROPERTY EveryTestEnds
CHECK_DEADLOCK FALSE
