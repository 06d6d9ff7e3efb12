\* The operator stops the bot while an execution outcome is recorded.
SPECIFICATION Spec
CONSTANTS
  c1 = c1
  c2 = c2
  Recovery = Recovery
  Callers <- TwoCallers
  OpsOf <- StopAndOutcome
  MaxFailures = 1
  FailureCap = 1
  AutoResume = FALSE
PROPERTY EmergencyStopHolds
