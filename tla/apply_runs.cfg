CONSTANTS
  f1 = f1
  f2 = f2
  f3 = f3
  NoFile = none
  Files <- AllFiles
  Profiles <- Everything
  MaxConcurrent = 2
  MaxRuns = 3
  MaxFaults = 2
SPECIFICATION FairSpec
INVARIANTS VerdictTrue NoStrayWriter SuccessIsDone FinishedIsKept DryForetells
PROPERTIES EveryRunEnds
CHECK_DEADLOCK FALSE
