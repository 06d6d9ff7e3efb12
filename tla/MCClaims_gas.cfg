\* One winning round, no fault.
SPECIFICATION Spec
CONSTANTS
  Epochs = {1}
  Outside = {}
  MaxClaims = 2
  MaxFaults = 0
INVARIANT GasChargedOnce
