\* Ten strategies side by side, four pasts of eight to ten rounds, every course up to the twelfth.
SPECIFICATION Spec
CONSTANTS
  Null = Null
  BufferSeconds = 3
  FeeBps = 300
  FractionScale = 100
  DaySeconds = 60
  Specs <- MCSpecs
  GlobalLimits <- MCLimits
  StartingBankroll <- MCBankroll
  GasPerBet <- MCGasPerBet
  GasPerClaim <- MCGasPerClaim
  Env <- MCEnv
  Addresses <- MCAddresses
  MinBet = 1
  Interval = 10
  Shapes <- MCShapes
  Warmups <- MCWarmups
  MaxRounds = 12
  Base <- MCBase
  Grid <- MCGrid
  TrainRounds = 10
  TestRounds = 1
  StepRounds = 1
  Anchored = FALSE
  Objective = "roi"
  TrainPercent = 70
  StudyStake = 5
  DecisionOffset = 3
  EarlyPools <- MCEarlyPools
  LowBits = 4
  PValues = {0, 1, 2, 3, 5}
  MaxTests = 3
INVARIANTS GlobalLimitsHold DailyLossBounded JudgedAlike ReportAgrees PaidLikeTheContract CooldownKept Impartial OutOfSample RulesAreTradable ScoredAsReplayed EdgesAreCorrected
PROPERTY NoLookAhead
CHECK_DEADLOCK FALSE
