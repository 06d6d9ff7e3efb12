\* Two tasks at a time, one crash or failed sync, an archive that is wrong.
SPECIFICATION Spec
CONSTANTS
  MaxEpoch = 3
  Window = 0
  VerifySweep = 1
  Ends = {"BULL"}
  Archive <- OneRound
  MaxBusy = 2
  MaxFaults = 1
INVARIANT FinalIsTrue
PROPERTY FinalStays
