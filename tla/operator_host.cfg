SPECIFICATION OperatorSpec
CONSTANTS
  Interval = 3
  MaxLate = 7
  Newest = 4
  Unreadable = {3}
  PerPage = 2
  MaxPages = 3
  Commands = {1, 2, 3}
  Ports = {8000}
  Sessions = {1, 2}
  Jobs <- OperatorJobs
INVARIANTS OkIsEarned ListingTrue StopTakesSsh RunsItsOwn ZeroMeansAll
PROPERTIES  OperatorLives
