\* One task at a time, with fairness: holes are filled and imported rows replaced.
SPECIFICATION FairSpec
CONSTANTS
  MaxEpoch = 3
  Window = 0
  VerifySweep = 1
  Ends = {"BULL"}
  Archive <- OneRound
  MaxBusy = 1
  MaxFaults = 1
PROPERTY EventuallyComplete
