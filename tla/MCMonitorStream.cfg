SPECIFICATION FairSpec
CONSTANTS
  MaxFrame = 2
  MaxTransport = 4
  Budget = 2
  MaxText = 6
  MaxChunk = 5
INVARIANTS
  FramesAreLines
  LimitIsExact
  NeverSleepsOnData
PROPERTIES
  ArrivalsAreTaken
