SPECIFICATION Spec
CONSTANTS
  Handles = {h1, h2}
  MaxCopies = 1
SYMMETRY Symmetry
CHECK_DEADLOCK FALSE
INVARIANTS
  SentOnce
  StateIsHonest
  CredentialsKeptUntilReceived
  NoAmbientToken
PROPERTY
  OneAttemptSpec
