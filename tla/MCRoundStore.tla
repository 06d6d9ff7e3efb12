---------------------------- MODULE MCRoundStore ----------------------------
(* Finite instances of RoundStore for TLC: the archive says BEAR of round 1, which may     *)
(* have ended otherwise.                                                                   *)
EXTENDS RoundStore

OneRound == [e \in {1} |-> "BEAR"]
=============================================================================
