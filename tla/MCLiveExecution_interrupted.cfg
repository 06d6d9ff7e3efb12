\* Two rounds, one process that never crashes, no outside bets.
SPECIFICATION Spec
CONSTANTS
  MaxEpoch = 2
  w1 = w1
  Workers <- OneWorker
  ExternalEpochs = {}
  MaxFaults = 0
INVARIANT FailedNeverBets
