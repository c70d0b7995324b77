SPECIFICATION Spec
CONSTANTS
  Versions = {1, 2}
  Generated = {1}
  Routable = {1}
  Callers = {c1, c2}
  MaxWaiters = 1
  MaxCancels = 1
  MaxPanics = 0
INVARIANTS
  AtMostOneProbe
CHECK_DEADLOCK FALSE
