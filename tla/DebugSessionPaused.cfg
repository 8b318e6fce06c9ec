SPECIFICATION Spec
CONSTANTS
  Tests = 2
  Steps = 2
  MaxRequests = 5
INVARIANT PausedUntilContinue
CHECK_DEADLOCK FALSE
