SPECIFICATION Spec
CONSTANTS
  Calls = {a, b}
  Shutdowns = {b}
  MaxPending = 2
  SupportsCancel = TRUE
INVARIANT NoFrameAfterPartial
CHECK_DEADLOCK FALSE
