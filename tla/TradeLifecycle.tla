--------------------------- MODULE TradeLifecycle ---------------------------
(***************************************************************************)
(* What the trade ledger promises about one wallet's live bets: every row  *)
(* moves along the table TRANSITIONS of packages/core/src/trade.ts, a row  *)
(* is confirmed only while the wallet has a bet in that round on the       *)
(* contract, and it is settled only once that round is final.  How the     *)
(* program finds out is left to the modules that implement this one.       *)
(***************************************************************************)
CONSTANT Epochs      \* the rounds under consideration

VARIABLES
  status,            \* status[e]: the wallet's trade row for round e, "NONE" without one
  bets,              \* the rounds in which the contract ledger holds a bet of the wallet
  final              \* the rounds whose result is final

vars == <<status, bets, final>>

Statuses ==
  {"NONE", "PENDING", "SUBMITTING", "SUBMITTED", "CONFIRMED", "SETTLED", "FAILED"}

\* The states from which a trade can still fail.
PreConfirm == {"PENDING", "SUBMITTING", "SUBMITTED"}

Init ==
  /\ status = [e \in Epochs |-> "NONE"]
  /\ bets = {}
  /\ final = {}

Move(e, from, to) ==
  /\ status[e] \in from
  /\ status' = [status EXCEPT ![e] = to]
  /\ UNCHANGED <<bets, final>>

Create(e) == Move(e, {"NONE"}, "PENDING")
Sign(e)   == Move(e, {"PENDING"}, "SUBMITTING")
Accept(e) == Move(e, {"SUBMITTING"}, "SUBMITTED")
Fail(e)   == Move(e, PreConfirm, "FAILED")

\* A row is confirmed, or imported as confirmed, only for a bet the contract holds.
Confirm(e) == e \in bets /\ Move(e, PreConfirm \cup {"NONE"}, "CONFIRMED")

Settle(e) == e \in final /\ Move(e, {"CONFIRMED"}, "SETTLED")

\* The contract takes a bet only in a round that is not final, and never gives one up.
Bet(e) ==
  /\ e \notin bets \cup final
  /\ bets' = bets \cup {e}
  /\ UNCHANGED <<status, final>>

Finalise(e) ==
  /\ e \notin final
  /\ final' = final \cup {e}
  /\ UNCHANGED <<status, bets>>

Next ==
  \E e \in Epochs :
    \/ Create(e) \/ Sign(e) \/ Accept(e) \/ Fail(e)
    \/ Confirm(e) \/ Settle(e)
    \/ Bet(e) \/ Finalise(e)

Spec == Init /\ [][Next]_vars
=============================================================================
