\* Two processes, three strategies, rounds 1 and 2 open for bets, two evaluations at once, one fault.
SPECIFICATION Spec
CONSTANTS
  Null = Null
  w1 = w1
  w2 = w2
  BufferSeconds = 3
  FeeBps = 300
  FractionScale = 100
  DaySeconds = 60
  Workers <- TwoWorkers
  Specs <- MCSpecs
  Flags <- MCFlags
  Env <- MCEnv
  Addresses <- MCAddresses
  MinBet = 1
  Pool <- MCPool
  ManualModes = {"PAPER"}
  Signals <- MCSignals
  Patches <- MCPatches
  Well <- MCWell
  Heads <- MCHeads
  BullRounds = {1}
  MaxEpoch = 3
  MaxBusy = 2
  MaxFaults = 1
SYMMETRY Symmetric
INVARIANTS EveryBetExplained LiveExposureHolds PaperOvershootBounded
CHECK_DEADLOCK FALSE
