---------------------------- MODULE MCPoolEvents ----------------------------
(* Finite instances of PoolEvents for TLC: two collectors at once. *)
EXTENDS PoolEvents

CONSTANTS c1, c2

TwoCollectors == {c1, c2}
=============================================================================
