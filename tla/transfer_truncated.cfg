SPECIFICATION Spec
CONSTANTS
  ChunkSize = 2
  Concurrency = 2
  MaxAttempts = 2
  Sizes = {3}
  Pieces = {1, 2}
INVARIANTS SuccessIsWhole
CHECK_DEADLOCK FALSE
