SPECIFICATION Spec
CONSTANTS
  x1 = x1
  x2 = x2
  k1 = k1
  k2 = k2
  A = A
  B = B
  Contexts = {x1, x2}
  Calls = {k1, k2}
  Clusters = {A, B}
  Versions = {1, 2}
  Generated = {1, 2}
  Routable = {1, 2}
  Reviewed = {2}
  UsedPolicies = {"AwaitFail", "AwaitForwardActiveNode"}
  MaxCommits = 2
  MaxMoves = 2
INVARIANTS
  IndexProvenance
  NeverReplayed
  ReadYourWrites
  VerifiedServer
CHECK_DEADLOCK FALSE
SYMMETRY Symmetry
