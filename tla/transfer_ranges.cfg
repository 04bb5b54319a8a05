SPECIFICATION FairSpec
CONSTANTS
  ChunkSize = 2
  Concurrency = 2
  MaxAttempts = 2
  Sizes = {0, 1, 2, 3, 4, 5, 6}
  Pieces = {1, 2}
INVARIANTS DoneIsWhole ReportedIsHeld
PROPERTIES FailsOnlyWhenSpent Ends
CHECK_DEADLOCK FALSE
