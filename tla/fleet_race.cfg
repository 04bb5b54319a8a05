SPECIFICATION Spec
CONSTANTS
  new = new
  legacy = legacy
  foreign = foreign
  p1 = p1
  p2 = p2
  s1 = s1
  s2 = s2
  Machines = {new}
  Legacy = {}
  Foreign = {}
  Providers = {p1}
  ProviderOf <- OnePlatform
  Sweepers = {s1, s2}
  Asks <- AskAny
  DryRuns = {FALSE}
  Ttls = {2}
  Second = 2
  ByHand = {new}
  UnreadableRows = FALSE
  LedgerFaults = FALSE
  Horizon = 2
  MaxApplies = 1
  MaxFaults = 1
SYMMETRY SweeperSymmetry
INVARIANTS RetiredIsGone NeverSweptEarly CountedOnce SweepIInv
