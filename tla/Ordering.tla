------------------------------ MODULE Ordering ------------------------------
(***************************************************************************)
(* Sets in order, and the part of a sequence that a set of its indices     *)
(* names: what Array.prototype.sort and filter do for the modules that are *)
(* proved about.  The community modules have both as SortSeq and SelectSeq,*)
(* of which the proof system knows nothing.                                *)
(***************************************************************************)
EXTENDS Integers, Sequences, FiniteSets

\* How many elements of S are not above x.
Rank(S, x) == Cardinality({y \in S : y <= x})

\* The elements of a finite set of integers, smallest first.
Ascending(S) == [k \in 1 .. Cardinality(S) |-> CHOOSE x \in S : Rank(S, x) = k]

\* How many elements of S are not after x in the order R, a set of pairs.
RankBy(S, R, x) == Cardinality({y \in S : <<y, x>> \in R})

\* The elements of a finite set, in the order R.
InOrder(S, R) == [k \in 1 .. Cardinality(S) |-> CHOOSE x \in S : RankBy(S, R, x) = k]

\* The elements of s at the indices I, in their order.
Picked(s, I) == LET order == Ascending(I) IN [k \in DOMAIN order |-> s[order[k]]]
=============================================================================
