SPECIFICATION FairSpec
CONSTANTS
  Helpers = {"ready", "unsealed"}
  Policies = {"none", "verified", "mismatched"}
  Deadlines = {"strict", "budget"}
  Timeout = 5
  Interval = 2
  RequestTimeout = 2
  Slack = 1
  MaxChanges = 2
  MaxCalls = 2
INVARIANTS
  KeepsToItsTime
  OnlyLastingErrorsEndAWait
  ReadyIsNoticed
PROPERTY
  EveryWaitEnds
