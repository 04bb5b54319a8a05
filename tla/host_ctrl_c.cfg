SPECIFICATION FairSpec
CONSTANTS
  Interval = 3
  MaxLate = 7
PROPERTIES CtrlCStops
CHECK_DEADLOCK FALSE
