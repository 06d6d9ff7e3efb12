\* Two rounds, one process, one crash or failed read, the owner may bet elsewhere in the first round.
SPECIFICATION FairSpec
CONSTANTS
  MaxEpoch = 2
  w1 = w1
  Workers <- OneWorker
  ExternalEpochs = {1}
  MaxFaults = 1
INVARIANTS HashBeforeBroadcast OneTransactionPerRound ConfirmedHasBet
  WrittenOffNeverBets CursorCoversBets
PROPERTIES ImplementsLifecycle EventuallyResolved
