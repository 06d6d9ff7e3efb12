\* Two winning rounds, one of which may be claimed elsewhere, one fault.
SPECIFICATION FairSpec
CONSTANTS
  Epochs = {1, 2}
  Outside = {1}
  MaxClaims = 5
  MaxFaults = 1
INVARIANTS ClaimedIsPaid ClaimingIsTracked ConfirmedIsCharged
PROPERTY EventuallyClaimed
