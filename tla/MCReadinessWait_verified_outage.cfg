SPECIFICATION Spec
CONSTANTS
  Helpers = {"unsealed"}
  Policies = {"verified"}
  Deadlines = {"budget"}
  Timeout = 4
  Interval = 2
  RequestTimeout = 2
  Slack = 1
  MaxChanges = 2
  MaxCalls = 1
INVARIANTS
  TransientFailuresRetried
