SPECIFICATION FairSpec
CONSTANTS
  Versions = {1, 2, 3, 4, 5}
  Generated = {2, 3, 4}
  Routable = {2, 4}
  Callers = {c1, c2, c3}
  MaxWaiters = 1
  MaxCancels = 2
  MaxPanics = 1
INVARIANTS
  SingleLeader
  RegistrationsAreLive
  NoLostWakeup
  ReportSound
  ProbesAreAccounted
PROPERTIES
  OnceSpec
  EveryCallEnds
CHECK_DEADLOCK FALSE
