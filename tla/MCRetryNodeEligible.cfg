SPECIFICATION Spec
CONSTANTS
  MaxAttempts = 3
  Backoffs <- SomeBackoffs
INVARIANT EligibleIsRetried
CHECK_DEADLOCK FALSE
