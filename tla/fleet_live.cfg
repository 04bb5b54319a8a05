SPECIFICATION FairSpec
CONSTANTS
  new = new
  legacy = legacy
  foreign = foreign
  p1 = p1
  p2 = p2
  s1 = s1
  s2 = s2
  Machines = {new}
  Legacy = {}
  Foreign = {}
  Providers = {p1}
  ProviderOf <- OnePlatform
  Sweepers = {s1}
  Asks <- AskAll
  DryRuns = {FALSE}
  Ttls = {2}
  Second = 2
  ByHand = {new}
  UnreadableRows = FALSE
  LedgerFaults = TRUE
  Horizon = 2
  MaxApplies = 2
  MaxFaults = 2
PROPERTIES DebtIsHeld LeasesSpec LeaseEnforced RecordConverges
