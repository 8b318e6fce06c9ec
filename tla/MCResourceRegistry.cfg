SPECIFICATION Spec
CONSTANTS
  Resources = {r1, r2}
  Owners = {o1, o2}
  MaxId = 4
SYMMETRY Symmetry
INVARIANTS
  AccessSafety
PROPERTIES
  CancelledNotHandedOut
  ImplementsLifecycle
CHECK_DEADLOCK FALSE
