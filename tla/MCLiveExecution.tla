-------------------------- MODULE MCLiveExecution --------------------------
(* Finite instances of LiveExecution for TLC: one process.  What holds of any number of *)
(* overlapping ones is proved in LiveExecution_proofs.                                  *)
EXTENDS LiveExecution

CONSTANT w1

OneWorker == {w1}
=============================================================================
