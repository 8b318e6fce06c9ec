SPECIFICATION FairSpec
CONSTANTS
  Root = n0
  Tokens = {n0, n1, n2}
  Causes = {k1}
  Callers = {t1, t2}
  Waiters = {w1}
  MaxTime = 1
  None = None
INVARIANTS
  ChildAccounted
PROPERTY NoLostWakeup
CHECK_DEADLOCK FALSE
