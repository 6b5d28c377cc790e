SPECIFICATION FairSpec
CONSTANTS
  Requests = 1
  MaxChunks = 0
PROPERTY DeadlineEndsCall
CHECK_DEADLOCK FALSE
