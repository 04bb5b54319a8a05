SPECIFICATION Spec
CONSTANTS
  Jobs <- AllJobs
  Deadline = 2
  Cap = 4
  Lag = 1
INVARIANTS SuccessMeetsAll NothingDropped RefusedCostsNothing LastWordCounts
PROPERTY AlwaysReports
