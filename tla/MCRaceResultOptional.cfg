SPECIFICATION Spec
CONSTANTS
  Types <- OptionalTypes
  Values <- RaceValues
  MaxBranches = 3
INVARIANT WinnerBinds
CHECK_DEADLOCK FALSE
