SPECIFICATION FairSpec
CONSTANTS
  Requests = 1
  MaxChunks = 1
PROPERTIES
  FinishedCallEnds
  EveryChunkIsRead
CHECK_DEADLOCK FALSE
