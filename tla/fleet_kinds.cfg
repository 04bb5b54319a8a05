SPECIFICATION Spec
CONSTANTS
  new = new
  legacy = legacy
  foreign = foreign
  p1 = p1
  p2 = p2
  s1 = s1
  s2 = s2
  Machines = {new, legacy, foreign}
  Legacy = {legacy}
  Foreign = {foreign}
  Providers = {p1, p2}
  ProviderOf <- TwoPlatforms
  Sweepers = {s1}
  Asks <- AskAny
  DryRuns = {TRUE, FALSE}
  Ttls = {1}
  Second = 2
  ByHand = {foreign}
  UnreadableRows = FALSE
  LedgerFaults = TRUE
  Horizon = 1
  MaxApplies = 0
  MaxFaults = 1
INVARIANTS CleanSweepEnforces
