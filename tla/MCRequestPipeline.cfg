SPECIFICATION Spec
CONSTANTS
  MaxAttempts = 4
  InitialDelay = 10
  MaxDelay = 35
  JitterPercent = 20
  MaxResponse = 2
  MaxRequest = 2
  RequestSizes = {2, 3}
  BodySizes = {0, 2, 3}
  ChunkSizes = {1, 2}
INVARIANTS
  CarriesItsParts
  AnswerIsComplete
  UploadIsExact
  RetriesAreJustified
  BackoffBounds
