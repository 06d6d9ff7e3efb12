\* Every operation, two calls at a time beside recovery, crashes anywhere.
SPECIFICATION Spec
CONSTANTS
  c1 = c1
  c2 = c2
  Recovery = Recovery
  Callers <- TwoCallers
  OpsOf <- EveryOp
  MaxFailures = 2
  FailureCap = 2
  AutoResume = FALSE
INVARIANTS LiveNeedsConfirmation BreakerDisarms
PROPERTY StopHoldsOnceQuiet
