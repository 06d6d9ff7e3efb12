------------------------ MODULE LiveExecution_proofs ------------------------
(***************************************************************************)
(* What LiveExecution guarantees for every number of rounds, every set of  *)
(* overlapping processes, every pattern of outside bets and every number   *)
(* of faults.                                                              *)
(***************************************************************************)
EXTENDS LiveExecution, TLAPS

\* Rows are updated within the type, whichever update it is.
LEMMA RowUpdateType ==
  ASSUME status \in [Epochs -> Statuses], why \in [Epochs -> Reasons],
         NEW e \in Epochs, NEW class \in Reasons,
         FailRow(e, class) \/ ConfirmRow(e) \/ ApplyReceipt(e) \/ ResolveFromLedger(e)
  PROVE  status' \in [Epochs -> Statuses] /\ why' \in [Epochs -> Reasons]
<1>1. \A c \in Reasons : FailRow(e, c) =>
        status' \in [Epochs -> Statuses] /\ why' \in [Epochs -> Reasons]
  BY DEF FailRow, Statuses, Reasons
<1>2. ConfirmRow(e) =>
        status' \in [Epochs -> Statuses] /\ why' \in [Epochs -> Reasons]
  BY DEF ConfirmRow, Statuses
<1>3. ApplyReceipt(e) =>
        \/ ConfirmRow(e) \/ FailRow(e, "CONTRACT_REVERT") \/ UNCHANGED <<status, why>>
  BY DEF ApplyReceipt
<1>4. ResolveFromLedger(e) =>
        \/ ConfirmRow(e) \/ FailRow(e, "DROPPED") \/ UNCHANGED <<status, why>>
  BY DEF ResolveFromLedger
<1>5. {"CONTRACT_REVERT", "DROPPED"} \subseteq Reasons
  BY DEF Reasons
<1>. QED  BY <1>1, <1>2, <1>3, <1>4, <1>5

LEMMA GotoType ==
  ASSUME pc \in [Workers -> [Epochs -> Steps]],
         NEW w \in Workers, NEW e \in Epochs, NEW step \in Steps, Goto(w, e, step)
  PROVE  pc' \in [Workers -> [Epochs -> Steps]]
BY DEF Goto

LEMMA InitType == Init => TypeOK
  BY MaxEpochAssumption, MaxFaultsAssumption
  DEF Init, TypeOK, Epochs, LastTick, Statuses, Reasons, Steps, SnapKinds, Phases

LEMMA RecNextType ==
  ASSUME TypeOK, NEW w \in Workers, NEW e \in Epochs, RecNext(w, e)
  PROVE  /\ recAt' \in [Workers -> 0 .. MaxEpoch]
         /\ recMiss' \in [Workers -> BOOLEAN]
         /\ recSnap' \in [Workers -> [Epochs -> SnapKinds]]
         /\ phase' \in [Workers -> Phases]
<1>1. NextRow(e) \in 0 .. MaxEpoch
  BY MaxEpochAssumption DEF NextRow, Epochs
<1>2. NothingRead \in [Epochs -> SnapKinds]
  BY DEF NothingRead, SnapKinds
<1>. QED  BY <1>1, <1>2 DEF TypeOK, RecNext, Phases

\* Every step keeps the types.
LEMMA NextType == TypeOK /\ [Next]_vars => TypeOK'
<1>. SUFFICES ASSUME TypeOK, [Next]_vars PROVE TypeOK'
  OBVIOUS
<1>. USE MaxEpochAssumption, MaxFaultsAssumption
<1>1. CASE Tick
  BY <1>1 DEF TypeOK, Tick, LastTick, dbVars, recVars, wsVars
<1>2. ASSUME NEW e \in Epochs, Chain(e) PROVE TypeOK'
  BY <1>2 DEF TypeOK, Chain, Mine, ExternalBet, dbVars, recVars, wsVars
<1>3. ASSUME NEW w \in Workers, NEW e \in Epochs, Place(w, e) PROVE TypeOK'
  BY <1>3 DEF TypeOK, Place, Goto, chainVars, recVars, wsVars, Statuses, Steps
<1>4. ASSUME NEW w \in Workers, NEW e \in Epochs, Submission(w, e) PROVE TypeOK'
  <2>1. CASE Checked(w, e)
    BY <2>1 DEF TypeOK, Checked, Goto, chainVars, dbVars, recVars, wsVars, Steps
  <2>2. CASE Reject(w, e)
    BY <2>2, RowUpdateType DEF TypeOK, Reject, Goto, chainVars, recVars, wsVars, Steps, Reasons
  <2>3. CASE PersistSigned(w, e)
    <3>1. pc' \in [Workers -> [Epochs -> Steps]]
      BY <2>3, GotoType DEF PersistSigned, TypeOK, Steps
    <3>2. status' \in [Epochs -> Statuses] /\ signed' \in SUBSET Epochs
      BY <2>3 DEF PersistSigned, SignedWith, TypeOK, Statuses
    <3>. QED  BY <2>3, <3>1, <3>2 DEF TypeOK, PersistSigned, chainVars, recVars, wsVars
  <2>4. CASE BroadcastAccepted(w, e) \/ BroadcastUnknown(w, e)
    <3>1. pc' \in [Workers -> [Epochs -> Steps]]
      BY <2>4, GotoType DEF BroadcastAccepted, BroadcastUnknown, TypeOK, Steps
    <3>2. /\ tx' \in [Epochs -> {"none", "mempool", "success", "reverted"}]
          /\ sent' \in [Epochs -> Nat]
      <4>1. Send(e) \/ UNCHANGED <<tx, sent>>
        BY <2>4 DEF BroadcastAccepted, BroadcastUnknown
      <4>2. CASE Send(e)
        BY <4>2 DEF Send, TypeOK
      <4>3. CASE UNCHANGED <<tx, sent>>
        BY <4>3 DEF TypeOK
      <4>. QED  BY <4>1, <4>2, <4>3
    <3>3. UNCHANGED <<clock, ledger, dbVars, phase, recVars, wsVars, faults>>
      BY <2>4 DEF BroadcastAccepted, BroadcastUnknown
    <3>. QED  BY <3>1, <3>2, <3>3 DEF TypeOK, dbVars, recVars, wsVars
  <2>5. CASE BroadcastRefused(w, e)
    BY <2>5, RowUpdateType
    DEF TypeOK, BroadcastRefused, Goto, chainVars, recVars, wsVars, Steps, Reasons
  <2>6. CASE RecordAccepted(w, e)
    <3>1. pc' \in [Workers -> [Epochs -> Steps]]
      BY <2>6, GotoType DEF RecordAccepted, TypeOK, Steps
    <3>. QED  BY <2>6, <3>1 DEF TypeOK, RecordAccepted, chainVars, recVars, wsVars, Statuses
  <2>7. CASE AwaitReceipt(w, e)
    <3>1. status' \in [Epochs -> Statuses] /\ why' \in [Epochs -> Reasons]
      BY <2>7, RowUpdateType DEF AwaitReceipt, TypeOK, Reasons
    <3>. QED  BY <2>7, <3>1 DEF TypeOK, AwaitReceipt, Goto, chainVars, recVars, wsVars, Steps
  <2>. QED  BY <1>4, <2>1, <2>2, <2>3, <2>4, <2>5, <2>6, <2>7 DEF Submission
<1>5. ASSUME NEW w \in Workers, NEW e \in Epochs, Settle(w, e) \/ SettleFinalised(w, e)
      PROVE  TypeOK'
  BY <1>5 DEF TypeOK, Settle, SettleFinalised, SettleRow, chainVars, recVars, wsVars, Statuses
<1>6. ASSUME NEW w \in Workers, Reconcile(w) PROVE TypeOK'
  <2>1. CASE RecNothing(w)
    BY <2>1 DEF TypeOK, RecNothing, chainVars, dbVars, recVars, wsVars, Phases
  <2>2. ASSUME NEW e \in Epochs, RecStart(w, e) PROVE TypeOK'
    BY <2>2 DEF TypeOK, RecStart, SnapOf, SnapKinds, chainVars, dbVars, wsVars, Epochs
  <2>3. ASSUME NEW e \in Epochs, RecSkip(w, e) PROVE TypeOK'
    BY <2>3, RecNextType DEF TypeOK, RecSkip, chainVars, dbVars, wsVars
  <2>4. ASSUME NEW e \in Epochs, RecUnsigned(w, e) PROVE TypeOK'
    <3>1. status' \in [Epochs -> Statuses] /\ why' \in [Epochs -> Reasons]
      BY <2>4, RowUpdateType DEF RecUnsigned, TypeOK, Reasons
    <3>. QED  BY <2>4, <3>1, RecNextType DEF TypeOK, RecUnsigned, chainVars, wsVars
  <2>5. ASSUME NEW e \in Epochs, RecReceipt(w, e) PROVE TypeOK'
    <3>1. status' \in [Epochs -> Statuses] /\ why' \in [Epochs -> Reasons]
      BY <2>5, RowUpdateType DEF RecReceipt, TypeOK, Reasons
    <3>. QED  BY <2>5, <3>1, RecNextType DEF TypeOK, RecReceipt, chainVars, wsVars
  <2>6. ASSUME NEW e \in Epochs, RecLedger(w, e) PROVE TypeOK'
    <3>1. status' \in [Epochs -> Statuses] /\ why' \in [Epochs -> Reasons]
      BY <2>6, RowUpdateType DEF RecLedger, TypeOK, Reasons
    <3>. QED  BY <2>6, <3>1, RecNextType DEF TypeOK, RecLedger, chainVars, wsVars
  <2>. QED  BY <1>6, <2>1, <2>2, <2>3, <2>4, <2>5, <2>6 DEF Reconcile
<1>7. ASSUME NEW w \in Workers, WalletSync(w) PROVE TypeOK'
  <2>1. CASE WsStart(w)
    BY <2>1 DEF TypeOK, WsStart, PageOf, Placed, chainVars, dbVars, recVars
  <2>2. CASE WsNothing(w)
    BY <2>2 DEF TypeOK, WsNothing, chainVars, dbVars, recVars, wsVars, Phases
  <2>3. CASE WsEnd(w)
    BY <2>3 DEF TypeOK, WsEnd, WsFinish, CursorAfter, chainVars, recVars, Phases
  <2>4. ASSUME NEW e \in Epochs, WsRound(w, e) PROVE TypeOK'
    <3>1. status' \in [Epochs -> Statuses] /\ why' \in [Epochs -> Reasons]
      BY <2>4 DEF WsRound, ConfirmRow, TypeOK, Statuses, Reasons
    <3>. QED  BY <2>4, <3>1 DEF TypeOK, WsRound, chainVars, recVars, Epochs
  <2>5. ASSUME NEW e \in Epochs, WsAbort(w, e) PROVE TypeOK'
    BY <2>5 DEF TypeOK, WsAbort, chainVars, dbVars, recVars, Phases
  <2>. QED  BY <1>7, <2>1, <2>2, <2>3, <2>4, <2>5 DEF WalletSync
<1>8. ASSUME NEW w \in Workers, Boot(w) \/ Recovered(w) PROVE TypeOK'
  BY <1>8 DEF TypeOK, Boot, Recovered, chainVars, dbVars, recVars, wsVars, Phases
<1>9. ASSUME NEW w \in Workers, Crash(w) PROVE TypeOK'
  BY <1>9 DEF TypeOK, Crash, NothingRead, chainVars, dbVars, Phases, Steps, SnapKinds
<1>10. ASSUME NEW w \in Workers, RecAbort(w) PROVE TypeOK'
  BY <1>10 DEF TypeOK, RecAbort, NothingRead, chainVars, dbVars, wsVars, SnapKinds
<1>11. ASSUME NEW w \in Workers, WsCutShort(w) PROVE TypeOK'
  BY <1>11 DEF TypeOK, WsCutShort, WsFinish, CursorAfter, chainVars, recVars, Phases
<1>12. CASE UNCHANGED vars
  BY <1>12 DEF TypeOK, vars, chainVars, dbVars, recVars, wsVars
<1>. QED
  BY <1>1, <1>2, <1>3, <1>4, <1>5, <1>6, <1>7, <1>8, <1>9, <1>10, <1>11, <1>12
  DEF Next, Finished

\* Every variable keeps its type, whatever the processes, the chain and the faults do.
THEOREM TypeCorrect == Spec => []TypeOK
  BY InitType, NextType, PTL DEF Spec
-----------------------------------------------------------------------------
\* The inductive invariant behind the safety properties.

\* A transaction whose receipt says success made a bet.
ReceiptsBet == \A e \in Epochs : tx[e] = "success" => ledger[e] # "none"

\* Pages of the wallet sync hold rounds with a bet only.
PagesPlaced == \A w \in Workers : wsPage[w] \subseteq Placed

\* Steps before the transaction reaches the network.
Early == {"checks", "persist", "broadcast"}

\* One submission at a time owns a round, and it has a row from its first step on.
OneSubmitter ==
  \A e \in Epochs, w \in Workers :
    InFlight(w, e) =>
      status[e] # "NONE" /\ \A v \in Workers : InFlight(v, e) => v = w

\* What was sent for a round: nothing before its broadcast, and once a hash is recorded.
SentOnce ==
  \A e \in Epochs :
    /\ sent[e] <= 1
    /\ sent[e] > 0 => status[e] # "NONE" /\ e \in signed
    /\ \A w \in Workers : pc[w][e] \in Early => sent[e] = 0
    /\ \A w \in Workers : pc[w][e] = "broadcast" => e \in signed

\* The bot's bet is the one its transaction made.
BotBets ==
  \A e \in Epochs :
    /\ sent[e] = 0 => tx[e] = "none"
    /\ ledger[e] = "bot" => tx[e] = "success"

\* A written-off trade is out of reach of its transaction: the round has expired, or the
\* transaction is reverted, or was never sent and nobody is about to send it.
WrittenOff ==
  \A e \in Epochs :
    status[e] = "FAILED" /\ why[e] # "INTERRUPTED" =>
      /\ ledger[e] # "bot"
      /\ \/ Expired(e)
         \/ /\ tx[e] \in {"none", "reverted"}
            /\ \A w \in Workers : pc[w][e] \notin Early

Inv ==
  /\ TypeOK /\ ReceiptsBet /\ PagesPlaced
  /\ OneSubmitter /\ SentOnce /\ BotBets /\ WrittenOff

\* The wallet sync between its start and its end: bets are made in round order, so what
\* is not behind it is on its page or newer than the page.
SyncOrder ==
  /\ \A e \in Placed : clock >= 2 * e - 2
  /\ cursor = 0 \/ cursor \in Placed
  /\ \A w \in Workers :
       /\ wsPos[w] = 0 \/ wsPos[w] \in Placed
       /\ \A e \in wsPage[w] : wsPos[w] < e
       /\ wsOn[w] =>
            \A e \in Placed :
              \/ status[e] # "NONE"
              \/ e \in wsPage[w]
              \/ wsPos[w] < e /\ \A d \in wsPage[w] : d < e

SyncInv == Inv /\ SyncOrder /\ CursorCoversBets
-----------------------------------------------------------------------------
\* The steps of all processes, told apart by what they do to rows and chain.

\* Submissions end, go on to sign, or stay where they are.
NoneAdvances ==
  \A w \in Workers, e \in Epochs :
    \/ pc'[w][e] = pc[w][e]
    \/ pc'[w][e] = "idle"
    \/ pc[w][e] = "checks" /\ pc'[w][e] = "persist"

Quiet == UNCHANGED <<chainVars, status, signed, why>> /\ NoneAdvances

\* A row is confirmed by a bet the contract holds, failed, or settled.
ConfirmedBy(e) ==
  /\ ledger[e] # "none"
  /\ Unresolved(e) \/ status[e] = "NONE"
  /\ status' = [status EXCEPT ![e] = "CONFIRMED"]
  /\ (why' = why) \/ (why' = [why EXCEPT ![e] = "IMPORTED"])

FailedBy(e) ==
  /\ Unresolved(e)
  /\ status' = [status EXCEPT ![e] = "FAILED"]
  /\ \E c \in {"INTERRUPTED", "DROPPED", "CONTRACT_REVERT"} :
       /\ why' = [why EXCEPT ![e] = c]
       /\ c = "DROPPED" => Expired(e) /\ ledger[e] = "none"
       /\ c = "CONTRACT_REVERT" => tx[e] = "reverted"

SettledBy(e) ==
  /\ status[e] = "CONFIRMED" /\ Final(e)
  /\ status' = [status EXCEPT ![e] = "SETTLED"]
  /\ why' = why

Resolved(e) ==
  /\ UNCHANGED <<chainVars, signed>> /\ NoneAdvances
  /\ ConfirmedBy(e) \/ FailedBy(e) \/ SettledBy(e)

Rejected(w, e) ==
  /\ pc[w][e] \in Early
  /\ FailRow(e, "REJECTED")
  /\ Goto(w, e, "idle")
  /\ UNCHANGED <<chainVars, signed>>

Delivered(w, e) ==
  /\ pc[w][e] = "broadcast"
  /\ Send(e)
  /\ Goto(w, e, "accepted") \/ Goto(w, e, "idle")
  /\ UNCHANGED <<clock, ledger, status, signed, why>>

CoreStep ==
  \/ Tick \/ Quiet
  \/ \E e \in Epochs : Mine(e) \/ ExternalBet(e) \/ Resolved(e)
  \/ \E w \in Workers, e \in Epochs :
       \/ Place(w, e) \/ Rejected(w, e) \/ PersistSigned(w, e)
       \/ Delivered(w, e) \/ RecordAccepted(w, e)

LEMMA NoneAdvancesWhen ==
  ASSUME TypeOK
  PROVE  /\ pc' = pc => NoneAdvances
         /\ \A w \in Workers, e \in Epochs : Goto(w, e, "idle") => NoneAdvances
         /\ \A w \in Workers, e \in Epochs :
              pc[w][e] = "checks" /\ Goto(w, e, "persist") => NoneAdvances
         /\ \A w \in Workers :
              pc' = [pc EXCEPT ![w] = [e \in Epochs |-> "idle"]] => NoneAdvances
<1>1. pc' = pc => NoneAdvances
  BY DEF NoneAdvances
<1>2. ASSUME NEW w \in Workers, NEW e \in Epochs, Goto(w, e, "idle") PROVE NoneAdvances
  BY <1>2 DEF NoneAdvances, Goto, TypeOK
<1>3. ASSUME NEW w \in Workers, NEW e \in Epochs, pc[w][e] = "checks", Goto(w, e, "persist")
      PROVE  NoneAdvances
  BY <1>3 DEF NoneAdvances, Goto, TypeOK
<1>4. ASSUME NEW w \in Workers, pc' = [pc EXCEPT ![w] = [e \in Epochs |-> "idle"]]
      PROVE  NoneAdvances
  BY <1>4 DEF NoneAdvances, TypeOK
<1>. QED  BY <1>1, <1>2, <1>3, <1>4

\* Whatever updates a row outside its submission resolves it or leaves it alone.
LEMMA RowUpdateResolves ==
  ASSUME TypeOK, ReceiptsBet, NEW e \in Epochs, UNCHANGED <<chainVars, signed>>, NoneAdvances
  PROVE  /\ FailRow(e, "INTERRUPTED") => Resolved(e) \/ Quiet
         /\ Mined(e) /\ ApplyReceipt(e) => Resolved(e) \/ Quiet
         /\ ResolveFromLedger(e) => Resolved(e) \/ Quiet
         /\ ledger[e] # "none" /\ ConfirmRow(e) => Resolved(e) \/ Quiet
<1>1. ASSUME ledger[e] # "none", ConfirmRow(e) PROVE Resolved(e) \/ Quiet
  BY <1>1 DEF ConfirmRow, Resolved, ConfirmedBy, Quiet, TypeOK
<1>2. ASSUME NEW c \in {"INTERRUPTED", "DROPPED", "CONTRACT_REVERT"}, FailRow(e, c),
             c = "DROPPED" => Expired(e) /\ ledger[e] = "none",
             c = "CONTRACT_REVERT" => tx[e] = "reverted"
      PROVE  Resolved(e) \/ Quiet
  BY <1>2 DEF FailRow, Resolved, FailedBy, Quiet
<1>3. ASSUME Mined(e), ApplyReceipt(e) PROVE Resolved(e) \/ Quiet
  <2>1. CASE ~(status[e] \in {"SUBMITTING", "SUBMITTED"})
    BY <1>3, <2>1 DEF ApplyReceipt, Quiet
  <2>2. CASE status[e] \in {"SUBMITTING", "SUBMITTED"} /\ Succeeded(e)
    BY <1>1, <1>3, <2>2 DEF ApplyReceipt, Succeeded, ReceiptsBet
  <2>3. CASE status[e] \in {"SUBMITTING", "SUBMITTED"} /\ ~Succeeded(e)
    BY <1>2, <1>3, <2>3 DEF ApplyReceipt, Succeeded, Mined
  <2>. QED  BY <2>1, <2>2, <2>3
<1>4. ASSUME ResolveFromLedger(e) PROVE Resolved(e) \/ Quiet
  <2>1. CASE ~Expired(e)
    BY <1>4, <2>1 DEF ResolveFromLedger, Quiet
  <2>2. CASE Expired(e) /\ ledger[e] # "none"
    BY <1>1, <1>4, <2>2 DEF ResolveFromLedger
  <2>3. CASE Expired(e) /\ ledger[e] = "none"
    BY <1>2, <1>4, <2>3 DEF ResolveFromLedger
  <2>. QED  BY <2>1, <2>2, <2>3
<1>. QED  BY <1>1, <1>2, <1>3, <1>4

LEMMA StepIsCore == TypeOK /\ ReceiptsBet /\ PagesPlaced /\ [Next]_vars => CoreStep
<1>. SUFFICES ASSUME TypeOK, ReceiptsBet, PagesPlaced, [Next]_vars PROVE CoreStep
  OBVIOUS
<1>1. CASE Tick
  BY <1>1 DEF CoreStep
<1>2. ASSUME NEW e \in Epochs, Chain(e) PROVE CoreStep
  BY <1>2 DEF Chain, CoreStep
<1>3. ASSUME NEW w \in Workers, NEW e \in Epochs, Place(w, e) PROVE CoreStep
  BY <1>3 DEF CoreStep
<1>4. ASSUME NEW w \in Workers, NEW e \in Epochs, Submission(w, e) PROVE CoreStep
  <2>1. CASE Checked(w, e)
    BY <2>1, NoneAdvancesWhen DEF Checked, CoreStep, Quiet, dbVars
  <2>2. CASE Reject(w, e) \/ BroadcastRefused(w, e)
    BY <2>2 DEF Reject, BroadcastRefused, CoreStep, Rejected, Early
  <2>3. CASE PersistSigned(w, e)
    BY <2>3 DEF CoreStep
  <2>4. CASE BroadcastAccepted(w, e)
    BY <2>4 DEF BroadcastAccepted, CoreStep, Delivered, dbVars
  <2>5. CASE BroadcastUnknown(w, e)
    <3>1. CASE Send(e)
      BY <2>5, <3>1 DEF BroadcastUnknown, CoreStep, Delivered, dbVars
    <3>2. CASE UNCHANGED <<tx, sent>>
      BY <2>5, <3>2, NoneAdvancesWhen DEF BroadcastUnknown, CoreStep, Quiet, chainVars, dbVars
    <3>. QED  BY <2>5, <3>1, <3>2 DEF BroadcastUnknown
  <2>6. CASE RecordAccepted(w, e)
    BY <2>6 DEF CoreStep
  <2>7. CASE AwaitReceipt(w, e)
    <3>1. NoneAdvances /\ UNCHANGED <<chainVars, signed>>
      BY <2>7, NoneAdvancesWhen DEF AwaitReceipt
    <3>2. CASE Mined(e) /\ ApplyReceipt(e)
      BY <3>1, <3>2, RowUpdateResolves DEF CoreStep
    <3>3. CASE UNCHANGED <<status, why>>
      BY <3>1, <3>3 DEF CoreStep, Quiet
    <3>. QED  BY <2>7, <3>2, <3>3 DEF AwaitReceipt
  <2>. QED  BY <1>4, <2>1, <2>2, <2>3, <2>4, <2>5, <2>6, <2>7 DEF Submission
<1>5. ASSUME NEW w \in Workers, NEW e \in Epochs, Settle(w, e) \/ SettleFinalised(w, e)
      PROVE  CoreStep
  BY <1>5, NoneAdvancesWhen DEF Settle, SettleFinalised, SettleRow, CoreStep, Resolved, SettledBy
<1>6. ASSUME NEW w \in Workers, Reconcile(w) PROVE CoreStep
  <2>1. ASSUME NEW e \in Epochs,
               RecNothing(w) \/ RecStart(w, e) \/ RecSkip(w, e) PROVE CoreStep
    BY <2>1, NoneAdvancesWhen DEF RecNothing, RecStart, RecSkip, CoreStep, Quiet, dbVars
  <2>2. ASSUME NEW e \in Epochs,
               RecUnsigned(w, e) \/ RecReceipt(w, e) \/ RecLedger(w, e) PROVE CoreStep
    <3>1. NoneAdvances /\ UNCHANGED <<chainVars, signed>>
      BY <2>2, NoneAdvancesWhen DEF RecUnsigned, RecReceipt, RecLedger
    <3>2. \/ UNCHANGED <<status, why>> \/ FailRow(e, "INTERRUPTED")
          \/ Mined(e) /\ ApplyReceipt(e)
          \/ ResolveFromLedger(e)
      BY <2>2 DEF RecUnsigned, RecReceipt, RecLedger
    <3>. QED  BY <3>1, <3>2, RowUpdateResolves DEF CoreStep, Quiet
  <2>. QED  BY <1>6, <2>1, <2>2, MaxEpochAssumption DEF Reconcile, Epochs
<1>7. ASSUME NEW w \in Workers, WalletSync(w) PROVE CoreStep
  <2>1. CASE WsStart(w) \/ WsNothing(w) \/ WsEnd(w)
    BY <2>1, NoneAdvancesWhen
    DEF WsStart, WsNothing, WsEnd, WsFinish, CoreStep, Quiet, dbVars
  <2>2. ASSUME NEW e \in Epochs, WsAbort(w, e) PROVE CoreStep
    BY <2>2, NoneAdvancesWhen DEF WsAbort, CoreStep, Quiet, dbVars
  <2>3. ASSUME NEW e \in Epochs, WsRound(w, e) PROVE CoreStep
    <3>1. NoneAdvances /\ UNCHANGED <<chainVars, signed>>
      BY <2>3, NoneAdvancesWhen DEF WsRound
    <3>2. ledger[e] # "none"
      BY <2>3 DEF WsRound, WsHead, PagesPlaced, Placed
    <3>3. CASE status[e] = "NONE"
      BY <2>3, <3>1, <3>2, <3>3 DEF WsRound, CoreStep, Resolved, ConfirmedBy
    <3>4. CASE status[e] # "NONE"
      <4>1. ConfirmRow(e) \/ UNCHANGED <<status, why>>
        BY <2>3, <3>4 DEF WsRound
      <4>. QED  BY <4>1, <3>1, <3>2, RowUpdateResolves DEF CoreStep, Quiet
    <3>. QED  BY <3>3, <3>4
  <2>. QED  BY <1>7, <2>1, <2>2, <2>3 DEF WalletSync
<1>8. ASSUME NEW w \in Workers,
             Boot(w) \/ Recovered(w) \/ Crash(w) \/ RecAbort(w) \/ WsCutShort(w)
      PROVE  CoreStep
  BY <1>8, NoneAdvancesWhen
  DEF Boot, Recovered, Crash, RecAbort, WsCutShort, WsFinish, CoreStep, Quiet, dbVars
<1>9. CASE UNCHANGED vars
  BY <1>9, NoneAdvancesWhen DEF vars, dbVars, CoreStep, Quiet
<1>. QED
  BY <1>1, <1>2, <1>3, <1>4, <1>5, <1>6, <1>7, <1>8, <1>9 DEF Next, Finished
-----------------------------------------------------------------------------
\* What one step may do to one round: to its submission, its chain state and its row.

LEMMA GotoEffect ==
  ASSUME TypeOK, NEW w \in Workers, NEW e \in Epochs, NEW step, Goto(w, e, step)
  PROVE  \A v \in Workers, d \in Epochs :
           pc'[v][d] = IF v = w /\ d = e THEN step ELSE pc[v][d]
BY DEF Goto, TypeOK

\* How the submission of a round moves.
Advances(v, d) ==
  \/ pc'[v][d] = pc[v][d]
  \/ pc'[v][d] = "idle"
  \/ pc[v][d] = "checks" /\ pc'[v][d] = "persist"
  \/ Place(v, d) /\ pc'[v][d] = "checks"
  \/ pc[v][d] = "persist" /\ pc'[v][d] = "broadcast" /\ d \in signed'
  \/ pc[v][d] = "broadcast" /\ pc'[v][d] = "accepted"
  \/ pc[v][d] = "accepted" /\ pc'[v][d] = "receipt"

LEMMA PcStep ==
  ASSUME TypeOK, CoreStep, NEW v \in Workers, NEW d \in Epochs
  PROVE  Advances(v, d)
<1>1. CASE Tick \/ Quiet \/ \E e \in Epochs : Mine(e) \/ ExternalBet(e) \/ Resolved(e)
  BY <1>1 DEF Tick, Quiet, Mine, ExternalBet, Resolved, NoneAdvances, Advances
<1>2. ASSUME NEW w \in Workers, NEW e \in Epochs, Place(w, e) PROVE Advances(v, d)
  <2>1. CASE v = w /\ d = e
    BY <1>2, <2>1, GotoEffect DEF Place, Advances
  <2>2. CASE ~(v = w /\ d = e)
    BY <1>2, <2>2, GotoEffect DEF Place, Advances
  <2>. QED  BY <2>1, <2>2
<1>3. ASSUME NEW w \in Workers, NEW e \in Epochs, Rejected(w, e) PROVE Advances(v, d)
  BY <1>3, GotoEffect DEF Rejected, Advances
<1>4. ASSUME NEW w \in Workers, NEW e \in Epochs, PersistSigned(w, e) PROVE Advances(v, d)
  BY <1>4, GotoEffect DEF PersistSigned, SignedWith, Advances
<1>5. ASSUME NEW w \in Workers, NEW e \in Epochs, Delivered(w, e) PROVE Advances(v, d)
  BY <1>5, GotoEffect DEF Delivered, Advances
<1>6. ASSUME NEW w \in Workers, NEW e \in Epochs, RecordAccepted(w, e) PROVE Advances(v, d)
  BY <1>6, GotoEffect DEF RecordAccepted, Advances
<1>. QED  BY <1>1, <1>2, <1>3, <1>4, <1>5, <1>6 DEF CoreStep

\* How the chain state of a round moves.
ChainMoves(d) ==
  \/ tx'[d] = tx[d] /\ sent'[d] = sent[d] /\ ledger'[d] = ledger[d]
  \/ /\ tx[d] = "mempool" /\ Takes(d) /\ sent'[d] = sent[d]
     /\ tx'[d] = "success" /\ ledger'[d] = "bot"
  \/ /\ tx[d] = "mempool" /\ sent'[d] = sent[d]
     /\ tx'[d] = "reverted" /\ ledger'[d] = ledger[d]
  \/ /\ Takes(d) /\ tx'[d] = tx[d] /\ sent'[d] = sent[d]
     /\ ledger'[d] = "external"
  \/ /\ \E w \in Workers : Delivered(w, d)
     /\ sent'[d] = sent[d] + 1 /\ tx'[d] = "mempool" /\ ledger'[d] = ledger[d]

LEMMA ChainStep ==
  ASSUME TypeOK, CoreStep, NEW d \in Epochs
  PROVE  ChainMoves(d) /\ signed \subseteq signed' /\ clock <= clock'
<1>. USE DEF TypeOK, ChainMoves, chainVars, LastTick
<1>1. CASE Tick
  BY <1>1, MaxEpochAssumption DEF Tick, dbVars
<1>2. CASE Quiet \/ \E e \in Epochs : Resolved(e)
  BY <1>2, MaxEpochAssumption DEF Quiet, Resolved
<1>3. ASSUME NEW e \in Epochs, Mine(e) \/ ExternalBet(e)
      PROVE  ChainMoves(d) /\ signed \subseteq signed' /\ clock <= clock'
  BY <1>3, MaxEpochAssumption DEF Mine, ExternalBet, dbVars
<1>4. ASSUME NEW w \in Workers, NEW e \in Epochs,
             Place(w, e) \/ Rejected(w, e) \/ PersistSigned(w, e) \/ RecordAccepted(w, e)
      PROVE  ChainMoves(d) /\ signed \subseteq signed' /\ clock <= clock'
  BY <1>4, MaxEpochAssumption DEF Place, Rejected, PersistSigned, SignedWith, RecordAccepted
<1>5. ASSUME NEW w \in Workers, NEW e \in Epochs, Delivered(w, e)
      PROVE  ChainMoves(d) /\ signed \subseteq signed' /\ clock <= clock'
  <2>1. signed \subseteq signed' /\ clock <= clock'
    BY <1>5, MaxEpochAssumption DEF Delivered
  <2>2. ledger' = ledger /\ tx' = [tx EXCEPT ![e] = "mempool"]
        /\ sent' = [sent EXCEPT ![e] = @ + 1]
    BY <1>5 DEF Delivered, Send
  <2>3. CASE d = e
    BY <1>5, <2>1, <2>2, <2>3
  <2>4. CASE d # e
    BY <2>1, <2>2, <2>4
  <2>. QED  BY <2>3, <2>4
<1>. QED  BY <1>1, <1>2, <1>3, <1>4, <1>5 DEF CoreStep

\* How the row of a round moves.
RowMoves(d) ==
  \/ status'[d] = status[d] /\ why'[d] = why[d]
  \/ status[d] = "NONE" /\ status'[d] = "PENDING"
  \/ Unresolved(d) /\ status'[d] \in {"SUBMITTING", "SUBMITTED"}
  \/ (Unresolved(d) \/ status[d] = "NONE") /\ ledger[d] # "none" /\ status'[d] = "CONFIRMED"
  \/ status[d] = "CONFIRMED" /\ Final(d) /\ status'[d] = "SETTLED"
  \/ /\ Unresolved(d) /\ status'[d] = "FAILED"
     /\ \/ /\ UNCHANGED chainVars /\ NoneAdvances
           /\ \/ why'[d] = "INTERRUPTED"
              \/ Expired(d) /\ ledger[d] = "none"
              \/ tx[d] = "reverted"
        \/ \E w \in Workers : Rejected(w, d)

LEMMA RowStep ==
  ASSUME TypeOK, CoreStep, NEW d \in Epochs
  PROVE  RowMoves(d)
<1>. USE DEF TypeOK, RowMoves
<1>1. CASE Tick \/ Quiet \/ \E e \in Epochs : Mine(e) \/ ExternalBet(e)
  BY <1>1 DEF Tick, Quiet, Mine, ExternalBet, dbVars
<1>2. ASSUME NEW e \in Epochs, Resolved(e) PROVE RowMoves(d)
  <2>1. CASE ConfirmedBy(e)
    BY <2>1 DEF ConfirmedBy
  <2>2. CASE FailedBy(e)
    BY <1>2, <2>2 DEF FailedBy, Resolved
  <2>3. CASE SettledBy(e)
    BY <2>3 DEF SettledBy
  <2>. QED  BY <1>2, <2>1, <2>2, <2>3 DEF Resolved
<1>3. ASSUME NEW w \in Workers, NEW e \in Epochs, Rejected(w, e) PROVE RowMoves(d)
  <2>1. CASE d = e
    BY <1>3, <2>1 DEF Rejected, FailRow
  <2>2. CASE d # e
    BY <1>3, <2>2 DEF Rejected, FailRow
  <2>. QED  BY <2>1, <2>2
<1>4. ASSUME NEW w \in Workers, NEW e \in Epochs,
             Place(w, e) \/ PersistSigned(w, e) \/ RecordAccepted(w, e)
      PROVE  RowMoves(d)
  BY <1>4 DEF Place, UidFree, PersistSigned, RecordAccepted, Unresolved, PreConfirm
<1>5. ASSUME NEW w \in Workers, NEW e \in Epochs, Delivered(w, e) PROVE RowMoves(d)
  BY <1>5 DEF Delivered
<1>. QED  BY <1>1, <1>2, <1>3, <1>4, <1>5 DEF CoreStep

-----------------------------------------------------------------------------
\* Each part of the invariant is kept.

\* A successful receipt keeps meaning a bet: only a mined bet makes one, and no bet goes away.
LEMMA ReceiptsKept == Inv /\ CoreStep => ReceiptsBet'
<1>. SUFFICES ASSUME Inv, CoreStep, NEW d \in Epochs, tx'[d] = "success"
              PROVE  ledger'[d] # "none"
  BY DEF ReceiptsBet
<1>1. ChainMoves(d) /\ (tx[d] = "success" => ledger[d] # "none")
  BY ChainStep DEF Inv, ReceiptsBet
<1>. QED  BY <1>1 DEF ChainMoves

\* A round keeps its one submission: it starts with a free uid, and a uid is never freed.
LEMMA OneSubmitterKept == Inv /\ CoreStep => OneSubmitter'
<1>. SUFFICES ASSUME Inv, CoreStep, NEW d \in Epochs, NEW w \in Workers, pc'[w][d] # "idle"
              PROVE  /\ status'[d] # "NONE"
                     /\ \A v \in Workers : pc'[v][d] # "idle" => v = w
  BY DEF OneSubmitter, InFlight
<1>1. status[d] # "NONE" => status'[d] # "NONE"
  BY RowStep DEF Inv, RowMoves, Unresolved, PreConfirm
<1>2. \A v \in Workers : pc'[v][d] # "idle" => pc[v][d] # "idle" \/ Place(v, d)
  BY PcStep DEF Inv, Advances
<1>3. \A v \in Workers : pc[v][d] # "idle" => status[d] # "NONE"
  BY DEF Inv, OneSubmitter, InFlight
<1>4. ASSUME NEW v \in Workers, Place(v, d)
      PROVE  /\ status[d] = "NONE" /\ status'[d] = "PENDING"
             /\ \A u \in Workers : u # v => pc'[u][d] = pc[u][d]
  BY <1>4, GotoEffect DEF Inv, TypeOK, Place, UidFree
<1>5. CASE pc[w][d] # "idle"
  BY <1>1, <1>2, <1>3, <1>4, <1>5 DEF Inv, OneSubmitter, InFlight
<1>6. CASE Place(w, d)
  BY <1>2, <1>3, <1>4, <1>6
<1>. QED  BY <1>2, <1>5, <1>6

\* Only the one submission sends, once, after the hash is recorded.
LEMMA SentOnceKept == Inv /\ CoreStep => SentOnce'
<1>. SUFFICES ASSUME Inv, CoreStep, NEW d \in Epochs
              PROVE  /\ sent'[d] <= 1
                     /\ sent'[d] > 0 => status'[d] # "NONE" /\ d \in signed'
                     /\ \A w \in Workers : pc'[w][d] \in Early => sent'[d] = 0
                     /\ \A w \in Workers : pc'[w][d] = "broadcast" => d \in signed'
  BY DEF SentOnce
<1>1. status[d] # "NONE" => status'[d] # "NONE"
  BY RowStep DEF Inv, RowMoves, Unresolved, PreConfirm
<1>2. signed \subseteq signed' /\ sent[d] \in Nat
  BY ChainStep DEF Inv, TypeOK
<1>3. \A w \in Workers : Advances(w, d)
  BY PcStep DEF Inv
<1>4. /\ sent[d] > 0 => status[d] # "NONE" /\ d \in signed
      /\ \A w \in Workers : pc[w][d] \in Early => sent[d] = 0 /\ status[d] # "NONE"
      /\ \A w \in Workers : pc[w][d] = "broadcast" => d \in signed
      /\ sent[d] <= 1
  BY DEF Inv, SentOnce, OneSubmitter, InFlight, Early
<1>5. \A w \in Workers : pc'[w][d] = "broadcast" => d \in signed'
  BY <1>2, <1>3, <1>4 DEF Advances
<1>6. CASE sent'[d] = sent[d]
  <2>1. \A w \in Workers : Place(w, d) => sent[d] = 0
    BY <1>2, <1>4 DEF Place, UidFree
  <2>2. \A w \in Workers : pc'[w][d] \in Early => sent'[d] = 0
    BY <1>3, <1>4, <1>6, <2>1 DEF Advances, Early
  <2>. QED  BY <1>1, <1>2, <1>4, <1>5, <1>6, <2>2
<1>7. ASSUME NEW w \in Workers, Delivered(w, d), sent'[d] = sent[d] + 1
      PROVE  /\ sent'[d] = 1 /\ status'[d] # "NONE" /\ d \in signed'
             /\ \A v \in Workers : pc'[v][d] \notin Early
  <2>1. pc[w][d] = "broadcast" /\ pc'[w][d] \in {"accepted", "idle"}
    BY <1>7, GotoEffect DEF Inv, Delivered
  <2>2. \A v \in Workers : v # w => pc[v][d] = "idle"
    BY <2>1 DEF Inv, OneSubmitter, InFlight
  <2>3. status[d] # "NONE"
    BY <1>4, <2>1 DEF Early
  <2>4. \A v \in Workers : v # w => pc'[v][d] = "idle"
    BY <1>3, <2>2, <2>3 DEF Advances, Place, UidFree
  <2>. QED  BY <1>1, <1>2, <1>4, <1>7, <2>1, <2>3, <2>4 DEF Early
<1>8. sent'[d] = sent[d] \/ \E w \in Workers : Delivered(w, d) /\ sent'[d] = sent[d] + 1
  BY ChainStep DEF Inv, ChainMoves
<1>. QED  BY <1>5, <1>6, <1>7, <1>8

\* The bot's bets stay those of its transactions, which nothing replaces.
LEMMA BotBetsKept == Inv /\ CoreStep => BotBets'
<1>. SUFFICES ASSUME Inv, CoreStep, NEW d \in Epochs
              PROVE  /\ sent'[d] = 0 => tx'[d] = "none"
                     /\ ledger'[d] = "bot" => tx'[d] = "success"
  BY DEF BotBets
<1>1. /\ sent[d] = 0 => tx[d] = "none"
      /\ ledger[d] = "bot" => tx[d] = "success"
      /\ sent[d] \in Nat
  BY DEF Inv, BotBets, TypeOK
<1>2. \A w \in Workers : Delivered(w, d) => sent[d] = 0
  BY DEF Inv, SentOnce, Delivered, Early
<1>. QED  BY <1>1, <1>2, ChainStep DEF Inv, ChainMoves

\* A written-off trade stays out of reach of its transaction.
LEMMA WrittenOffKept == Inv /\ CoreStep => WrittenOff'
<1>. SUFFICES ASSUME Inv, CoreStep, NEW d \in Epochs,
                     status'[d] = "FAILED", why'[d] # "INTERRUPTED"
              PROVE  /\ ledger'[d] # "bot"
                     /\ \/ Expired(d)'
                        \/ /\ tx'[d] \in {"none", "reverted"}
                           /\ \A w \in Workers : pc'[w][d] \notin Early
  BY DEF WrittenOff
<1>. DEFINE OutOfReach == /\ tx[d] \in {"none", "reverted"}
                          /\ \A w \in Workers : pc[w][d] \notin Early
<1>0. d \in Nat /\ clock \in Nat /\ clock' \in Nat /\ clock <= clock'
  <2>1. clock' \in Nat
    BY MaxEpochAssumption DEF Inv, TypeOK, CoreStep, Tick, Quiet, Mine, ExternalBet, Resolved,
       Place, Rejected, PersistSigned, Delivered, RecordAccepted, chainVars, LastTick
  <2>. QED  BY <2>1, ChainStep, MaxEpochAssumption DEF Inv, TypeOK, Epochs, LastTick
<1>1. Expired(d) => Expired(d)' /\ ~Takes(d)
  BY <1>0 DEF Expired, Takes, Open
<1>2. ChainMoves(d) /\ \A w \in Workers : Advances(w, d)
  BY ChainStep, PcStep DEF Inv
<1>3. status'[d] = "FAILED" /\ status[d] # "NONE"
  BY RowStep DEF Inv, RowMoves, Unresolved, PreConfirm
<1>4. \A w \in Workers : ~Place(w, d)
  BY <1>3 DEF Place, UidFree
<1>5. ASSUME ledger[d] # "bot", OutOfReach \/ Expired(d)
      PROVE  /\ ledger'[d] # "bot"
             /\ \/ Expired(d)'
                \/ /\ tx'[d] \in {"none", "reverted"}
                   /\ \A w \in Workers : pc'[w][d] \notin Early
  <2>1. CASE Expired(d)
    BY <1>1, <1>2, <1>5, <2>1 DEF ChainMoves
  <2>2. CASE OutOfReach
    <3>1. \A w \in Workers : ~Delivered(w, d)
      BY <2>2 DEF Delivered, Early
    <3>2. ledger'[d] # "bot" /\ tx'[d] \in {"none", "reverted"}
      BY <1>2, <1>5, <2>2, <3>1 DEF ChainMoves
    <3>3. \A w \in Workers : pc'[w][d] \notin Early
      BY <1>2, <1>4, <2>2 DEF Advances, Early
    <3>. QED  BY <3>2, <3>3
  <2>. QED  BY <1>5, <2>1, <2>2
<1>6. CASE status[d] = "FAILED" /\ why'[d] = why[d]
  BY <1>5, <1>6 DEF Inv, WrittenOff
<1>7. CASE Expired(d) /\ ledger[d] = "none"
  BY <1>5, <1>7
<1>8. CASE tx[d] = "reverted"
  <2>1. sent[d] # 0
    BY <1>8 DEF Inv, BotBets
  <2>. QED  BY <1>5, <1>8, <2>1 DEF Inv, SentOnce, BotBets
<1>9. ASSUME NEW w \in Workers, Rejected(w, d)
      PROVE  /\ ledger'[d] # "bot" /\ tx'[d] \in {"none", "reverted"}
             /\ \A v \in Workers : pc'[v][d] \notin Early
  <2>1. pc[w][d] \in Early /\ pc'[w][d] = "idle" /\ tx' = tx /\ ledger' = ledger
    BY <1>9, GotoEffect DEF Inv, Rejected, chainVars
  <2>2. sent[d] = 0 /\ tx[d] = "none" /\ ledger[d] # "bot"
    BY <2>1 DEF Inv, SentOnce, BotBets
  <2>3. \A v \in Workers : v # w => pc[v][d] = "idle"
    BY <2>1 DEF Inv, OneSubmitter, InFlight, Early
  <2>4. \A v \in Workers : v # w => pc'[v][d] = "idle"
    BY <1>2, <1>4, <2>3 DEF Advances
  <2>. QED  BY <2>1, <2>2, <2>4 DEF Early
<1>. QED
  BY <1>6, <1>7, <1>8, <1>9, RowStep DEF Inv, RowMoves, Unresolved, PreConfirm

\* What a step does to the wallet syncs: nothing, the end of one, its start, or one round.
SyncRests == UNCHANGED <<wsVars, cursor>>

SyncStops(w) ==
  /\ wsOn' = [wsOn EXCEPT ![w] = FALSE]
  /\ wsPage' = [wsPage EXCEPT ![w] = {}]
  /\ wsPos' = [wsPos EXCEPT ![w] = 0]
  /\ (cursor' = cursor) \/ (wsOn[w] /\ cursor' = wsPos[w])

SyncStep ==
  \/ SyncRests
  \/ \E w \in Workers :
       SyncStops(w) \/ WsStart(w) \/ \E e \in Epochs : WsRound(w, e)

LEMMA StepIsSync == [Next]_vars => SyncStep
<1>. SUFFICES ASSUME [Next]_vars PROVE SyncStep
  OBVIOUS
<1>1. CASE UNCHANGED vars \/ Tick \/ Finished
  BY <1>1 DEF vars, dbVars, wsVars, Tick, Finished, SyncStep, SyncRests
<1>2. ASSUME NEW e \in Epochs, Chain(e) PROVE SyncStep
  BY <1>2 DEF Chain, Mine, ExternalBet, dbVars, SyncStep, SyncRests
<1>3. ASSUME NEW w \in Workers, NEW e \in Epochs,
             Place(w, e) \/ Submission(w, e) \/ Settle(w, e) \/ SettleFinalised(w, e)
      PROVE  SyncStep
  BY <1>3 DEF Place, Submission, Checked, Reject, PersistSigned, BroadcastAccepted,
     BroadcastUnknown, BroadcastRefused, RecordAccepted, AwaitReceipt, Settle,
     SettleFinalised, SettleRow, dbVars, SyncStep, SyncRests
<1>4. ASSUME NEW w \in Workers, Reconcile(w) \/ Recovered(w) \/ Boot(w) \/ RecAbort(w)
      PROVE  SyncStep
  BY <1>4 DEF Reconcile, RecNothing, RecStart, RecSkip, RecUnsigned, RecReceipt, RecLedger,
     Recovered, Boot, RecAbort, dbVars, SyncStep, SyncRests
<1>5. ASSUME NEW w \in Workers, Crash(w) \/ WsCutShort(w) PROVE SyncStep
  <2>1. CASE Crash(w)
    BY <2>1 DEF Crash, dbVars, SyncStep, SyncStops
  <2>2. CASE WsCutShort(w)
    BY <2>2 DEF WsCutShort, WsFinish, CursorAfter, SyncStep, SyncStops
  <2>. QED  BY <1>5, <2>1, <2>2
<1>6. ASSUME NEW w \in Workers, WalletSync(w) PROVE SyncStep
  <2>1. CASE WsStart(w) \/ \E e \in Epochs : WsRound(w, e)
    BY <2>1 DEF SyncStep
  <2>2. CASE WsNothing(w)
    BY <2>2 DEF WsNothing, dbVars, SyncStep, SyncRests
  <2>3. CASE WsEnd(w)
    BY <2>3 DEF WsEnd, WsFinish, CursorAfter, SyncStep, SyncStops
  <2>4. CASE \E e \in Epochs : WsAbort(w, e)
    BY <2>4 DEF WsAbort, dbVars, SyncStep, SyncStops
  <2>. QED  BY <1>6, <2>1, <2>2, <2>3, <2>4 DEF WalletSync
<1>. QED  BY <1>1, <1>2, <1>3, <1>4, <1>5, <1>6 DEF Next

\* The page of a wallet sync holds bets when it is read, and bets stay.
LEMMA PagesKept == Inv /\ [Next]_vars => PagesPlaced'
<1>. SUFFICES ASSUME Inv, [Next]_vars PROVE PagesPlaced'
  OBVIOUS
<1>1. CoreStep /\ SyncStep
  BY StepIsCore, StepIsSync DEF Inv
<1>2. Placed \subseteq Placed'
  BY <1>1, ChainStep DEF Inv, Placed, ChainMoves
<1>3. \A w \in Workers : wsPage'[w] \subseteq wsPage[w] \cup Placed
  <2>. USE DEF Inv, TypeOK
  <2>1. CASE SyncRests
    BY <2>1 DEF SyncRests, wsVars
  <2>2. ASSUME NEW v \in Workers, SyncStops(v) \/ WsStart(v)
        PROVE  \A w \in Workers : wsPage'[w] \subseteq wsPage[w] \cup Placed
    BY <2>2 DEF SyncStops, WsStart, PageOf
  <2>3. ASSUME NEW v \in Workers, NEW e \in Epochs, WsRound(v, e)
        PROVE  \A w \in Workers : wsPage'[w] \subseteq wsPage[w] \cup Placed
    BY <2>3 DEF WsRound
  <2>. QED  BY <1>1, <2>1, <2>2, <2>3 DEF SyncStep
<1>. QED  BY <1>2, <1>3 DEF Inv, PagesPlaced

LEMMA InitInv == Init => Inv
  BY InitType DEF Init, Inv, ReceiptsBet, PagesPlaced, OneSubmitter, InFlight, SentOnce, Early,
     BotBets, WrittenOff

LEMMA NextInv == Inv /\ [Next]_vars => Inv'
<1>. SUFFICES ASSUME Inv, [Next]_vars PROVE Inv'
  OBVIOUS
<1>1. TypeOK' /\ CoreStep
  BY NextType, StepIsCore DEF Inv
<1>. QED
  BY <1>1, ReceiptsKept, PagesKept, OneSubmitterKept, SentOnceKept, BotBetsKept, WrittenOffKept
  DEF Inv

LEMMA Invariance == Spec => []Inv
  BY InitInv, NextInv, PTL DEF Spec
-----------------------------------------------------------------------------
\* The safety properties.

\* Whatever reached the network has its hash in the database, through every crash.
THEOREM HashAlwaysRecorded == Spec => []HashBeforeBroadcast
<1>1. Inv => HashBeforeBroadcast
  BY DEF Inv, SentOnce, HashBeforeBroadcast
<1>. QED  BY <1>1, Invariance, PTL

\* No round ever sees a second transaction, with any number of overlapping processes.
THEOREM NeverResent == Spec => []OneTransactionPerRound
<1>1. Inv => OneTransactionPerRound
  BY DEF Inv, SentOnce, OneTransactionPerRound
<1>. QED  BY <1>1, Invariance, PTL

\* A written-off trade has no bet and can have none, DROPPED by another process included.
THEOREM WriteOffIsFinal == Spec => []WrittenOffNeverBets
<1>1. ASSUME Inv PROVE WrittenOffNeverBets
  <2>. SUFFICES ASSUME NEW e \in Epochs, status[e] = "FAILED", why[e] # "INTERRUPTED"
                PROVE  ~MayBet(e)
    BY DEF WrittenOffNeverBets
  <2>1. e \in Nat /\ clock \in Nat
    BY <1>1, MaxEpochAssumption DEF Inv, TypeOK, Epochs, LastTick
  <2>2. Expired(e) => ~Takes(e)
    BY <2>1 DEF Expired, Takes, Open
  <2>. QED  BY <1>1, <2>2 DEF Inv, WrittenOff, MayBet
<1>. QED  BY <1>1, Invariance, PTL
\* No path confirms a trade without a bet on the contract, and no bet goes away.
THEOREM ConfirmedOnlyWithBet == Spec => []ConfirmedHasBet
<1>1. Init => ConfirmedHasBet
  BY DEF Init, ConfirmedHasBet
<1>2. ASSUME Inv, ConfirmedHasBet, [Next]_vars PROVE ConfirmedHasBet'
  <2>. SUFFICES ASSUME NEW d \in Epochs, status'[d] \in {"CONFIRMED", "SETTLED"}
                PROVE  ledger'[d] # "none"
    BY DEF ConfirmedHasBet
  <2>1. CoreStep /\ TypeOK
    BY <1>2, StepIsCore DEF Inv
  <2>2. ledger[d] # "none"
    BY <1>2, <2>1, RowStep DEF RowMoves, ConfirmedHasBet
  <2>. QED  BY <2>1, <2>2, ChainStep DEF ChainMoves
<1>3. ASSUME Inv, ConfirmedHasBet, UNCHANGED vars PROVE ConfirmedHasBet'
  BY <1>2, <1>3
<1>. QED  BY <1>1, <1>2, Invariance, PTL DEF Spec

-----------------------------------------------------------------------------
\* The wallet sync's cursor.

LEMMA TimeType == TypeOK => /\ clock \in Nat /\ cursor \in Nat
                            /\ \A w \in Workers : wsPos[w] \in Nat
                            /\ \A e \in Epochs : e \in Nat
  BY MaxEpochAssumption DEF TypeOK, Epochs, LastTick

\* A bet of this step is newer than every earlier bet.
LEMMA NewBetIsNewest ==
  ASSUME SyncInv, [Next]_vars, NEW d \in Placed', d \notin Placed
  PROVE  /\ clock' = clock /\ clock = 2 * d - 2
         /\ \A e \in Placed : e < d
<1>. USE DEF SyncInv
<1>1. CoreStep /\ d \in Epochs
  BY StepIsCore DEF Inv, Placed
<1>2. Takes(d)
  BY <1>1, ChainStep DEF Inv, ChainMoves, Placed
<1>3. clock' = clock
  BY <1>1 DEF CoreStep, Tick, Quiet, Mine, ExternalBet, Resolved, Place, Rejected,
     PersistSigned, Delivered, RecordAccepted, chainVars, Placed
<1>4. ASSUME NEW e \in Placed PROVE e < d
  <2>1. clock >= 2 * e - 2 /\ e \in Epochs /\ e # d
    BY <1>4 DEF SyncOrder, Placed
  <2>2. e \in Nat /\ d \in Nat /\ clock \in Nat
    BY <1>1, <2>1, TimeType DEF Inv
  <2>. QED  BY <1>2, <2>1, <2>2 DEF Takes, Open
<1>. QED  BY <1>2, <1>3, <1>4 DEF Takes, Open

LEMMA NextSync == SyncInv /\ [Next]_vars => SyncInv'
<1>. SUFFICES ASSUME SyncInv, [Next]_vars PROVE SyncInv'
  OBVIOUS
<1>1. Inv /\ Inv' /\ CoreStep /\ SyncStep
  BY NextInv, StepIsCore, StepIsSync DEF SyncInv, Inv
<1>2. Placed \subseteq Placed' /\ \A e \in Epochs : status[e] # "NONE" => status'[e] # "NONE"
  BY <1>1, ChainStep, RowStep DEF Inv, Placed, ChainMoves, RowMoves, Unresolved, PreConfirm
<1>3. /\ clock \in Nat /\ clock' \in Nat /\ clock <= clock'
      /\ cursor \in Nat /\ cursor' \in Nat
      /\ \A w \in Workers : wsPos[w] \in Nat /\ wsPos'[w] \in Nat
      /\ \A e \in Epochs : e \in Nat
  <2>1. TypeOK /\ TypeOK' /\ Epochs \subseteq Nat
    BY <1>1 DEF Inv, Epochs
  <2>2. clock <= clock'
    BY <1>1, <2>1, ChainStep, MaxEpochAssumption DEF Epochs
  <2>3. \A w \in Workers : wsPos[w] \in Nat /\ wsPos'[w] \in Nat
    BY <2>1, MaxEpochAssumption DEF TypeOK
  <2>. QED  BY <2>1, <2>2, <2>3, MaxEpochAssumption DEF TypeOK, LastTick
<1>4. \A e \in Placed' : clock' >= 2 * e - 2
  <2>. SUFFICES ASSUME NEW e \in Placed' PROVE clock' >= 2 * e - 2
    OBVIOUS
  <2>1. e \in Nat
    BY <1>3 DEF Placed
  <2>2. CASE e \in Placed
    BY <1>3, <2>1, <2>2 DEF SyncInv, SyncOrder
  <2>3. CASE e \notin Placed
    BY <1>3, <2>1, <2>3, NewBetIsNewest
  <2>. QED  BY <2>2, <2>3
<1>5. cursor' = 0 \/ cursor' \in Placed'
  BY <1>1, <1>2 DEF SyncInv, SyncOrder, SyncStep, SyncRests, SyncStops, WsStart, WsRound, dbVars
<1>6. CursorCoversBets'
  <2>. SUFFICES ASSUME NEW e \in Epochs, e <= cursor', e \in Placed' PROVE status'[e] # "NONE"
    BY DEF CursorCoversBets, Placed
  <2>1. CASE e \notin Placed
    <3>1. cursor = 0 \/ cursor < e
      BY <2>1, NewBetIsNewest DEF SyncInv, SyncOrder
    <3>2. \A w \in Workers : wsPos[w] = 0 \/ wsPos[w] < e
      BY <2>1, NewBetIsNewest DEF SyncInv, SyncOrder
    <3>3. cursor' = cursor \/ \E w \in Workers : cursor' = wsPos[w]
      BY <1>1 DEF SyncStep, SyncRests, SyncStops, WsStart, WsRound, dbVars
    <3>. QED  BY <1>3, <3>1, <3>2, <3>3 DEF Epochs
  <2>2. CASE e \in Placed /\ cursor' = cursor
    BY <1>2, <2>2 DEF SyncInv, CursorCoversBets, Placed
  <2>3. ASSUME e \in Placed, NEW w \in Workers, wsOn[w], cursor' = wsPos[w]
        PROVE  status'[e] # "NONE"
    BY <1>2, <1>3, <2>3 DEF SyncInv, SyncOrder
  <2>4. cursor' = cursor \/ \E w \in Workers : wsOn[w] /\ cursor' = wsPos[w]
    BY <1>1 DEF SyncStep, SyncRests, SyncStops, WsStart, WsRound, dbVars
  <2>. QED  BY <2>1, <2>2, <2>3, <2>4
<1>7. ASSUME NEW w \in Workers
      PROVE  /\ wsPos'[w] = 0 \/ wsPos'[w] \in Placed'
             /\ \A e \in wsPage'[w] : wsPos'[w] < e
             /\ wsOn'[w] =>
                  \A e \in Placed' :
                    \/ status'[e] # "NONE"
                    \/ e \in wsPage'[w]
                    \/ wsPos'[w] < e /\ \A d \in wsPage'[w] : d < e
  <2>. DEFINE Kept == /\ wsPos'[w] = 0 \/ wsPos'[w] \in Placed
                      /\ wsPage'[w] \subseteq Placed
                      /\ \A e \in wsPage'[w] : wsPos'[w] < e
                      /\ wsOn'[w] =>
                           \A e \in Placed :
                             \/ status'[e] # "NONE"
                             \/ e \in wsPage'[w]
                             \/ wsPos'[w] < e /\ \A d \in wsPage'[w] : d < e
  <2>1. Kept
    <3>1. /\ wsPos[w] = 0 \/ wsPos[w] \in Placed
          /\ wsPage[w] \subseteq Placed
          /\ \A e \in wsPage[w] : wsPos[w] < e
          /\ wsOn[w] =>
               \A e \in Placed :
                 \/ status'[e] # "NONE"
                 \/ e \in wsPage[w]
                 \/ wsPos[w] < e /\ \A d \in wsPage[w] : d < e
      BY <1>2 DEF SyncInv, SyncOrder, Inv, PagesPlaced, Placed
    <3>2. CASE wsPos'[w] = wsPos[w] /\ wsPage'[w] = wsPage[w] /\ wsOn'[w] = wsOn[w]
      BY <3>1, <3>2
    <3>3. CASE SyncStops(w)
      BY <3>3 DEF SyncStops, SyncInv, Inv, TypeOK
    <3>4. CASE WsStart(w)
      <4>1. wsPos'[w] = cursor /\ wsPage'[w] = PageOf(cursor)
        BY <3>4 DEF WsStart, SyncInv, Inv, TypeOK
      <4>2. \A e \in Placed : e <= cursor => status'[e] # "NONE"
        BY <1>2 DEF SyncInv, CursorCoversBets, Placed
      <4>3. cursor = 0 \/ cursor \in Placed
        BY DEF SyncInv, SyncOrder
      <4>4. \A e \in Placed : e \in Nat
        BY <1>3 DEF Placed
      <4>. QED  BY <1>3, <4>1, <4>2, <4>3, <4>4 DEF PageOf
    <3>5. ASSUME NEW d \in Epochs, WsRound(w, d) PROVE Kept
      <4>1. /\ wsPos'[w] = d /\ wsPage'[w] = wsPage[w] \ {d} /\ wsOn'[w] = wsOn[w]
            /\ d \in wsPage[w] /\ wsOn[w] /\ \A e \in wsPage[w] : d <= e
        BY <3>5 DEF WsRound, WsHead, SyncInv, Inv, TypeOK
      <4>2. status'[d] # "NONE"
        BY <3>5 DEF WsRound, ConfirmRow, Unresolved, PreConfirm, SyncInv, Inv, TypeOK
      <4>3. \A e \in Placed : e \in Nat
        BY <1>3 DEF Placed
      <4>. QED  BY <1>3, <3>1, <4>1, <4>2, <4>3
    <3>6. ASSUME NEW v \in Workers, v # w,
                 SyncStops(v) \/ WsStart(v) \/ \E e \in Epochs : WsRound(v, e)
          PROVE  wsPos'[w] = wsPos[w] /\ wsPage'[w] = wsPage[w] /\ wsOn'[w] = wsOn[w]
      BY <3>6 DEF SyncStops, WsStart, WsRound, SyncInv, Inv, TypeOK
    <3>7. CASE SyncRests
      BY <3>2, <3>7 DEF SyncRests, wsVars
    <3>. QED  BY <1>1, <3>2, <3>3, <3>4, <3>5, <3>6, <3>7 DEF SyncStep
  <2>2. ASSUME NEW e \in Placed', e \notin Placed, wsOn'[w]
        PROVE  wsPos'[w] < e /\ \A d \in wsPage'[w] : d < e
    <3>1. \A d \in Placed : d < e
      BY <2>2, NewBetIsNewest
    <3>2. 0 < e
      BY <2>2, <1>3, MaxEpochAssumption DEF Placed, Epochs
    <3>. QED  BY <2>1, <3>1, <3>2
  <2>. QED  BY <1>2, <2>1, <2>2
<1>. QED  BY <1>1, <1>4, <1>5, <1>6, <1>7 DEF SyncInv, SyncOrder

\* The cursor of the wallet sync never passes a bet that has no row, whatever bets are made
\* while a page is processed and wherever a run ends or dies.
THEOREM CursorNeverSkips == Spec => []CursorCoversBets
<1>1. Init => SyncInv
  BY InitInv DEF Init, SyncInv, SyncOrder, CursorCoversBets, Placed
<1>2. SyncInv => CursorCoversBets
  BY DEF SyncInv
<1>. QED  BY <1>1, <1>2, NextSync, PTL DEF Spec

-----------------------------------------------------------------------------
\* The refinement.

LEMMA InitLedger == Init => Ledger!Init
<1>. SUFFICES ASSUME Init PROVE Ledger!Init
  OBVIOUS
<1>1. \A e \in Epochs : ~Final(e)
  BY MaxEpochAssumption DEF Init, Final, Epochs
<1>. QED  BY <1>1 DEF Init, Ledger!Init, Placed

LEMMA StepLedger == Inv /\ [Next]_vars => [Ledger!Next]_(Ledger!vars)
<1>. SUFFICES ASSUME Inv, [Next]_vars PROVE Ledger!Next \/ UNCHANGED Ledger!vars
  OBVIOUS
<1>. DEFINE Finals == {e \in Epochs : Final(e)}
<1>0. CoreStep /\ TypeOK
  BY StepIsCore DEF Inv
<1>1. CASE Tick
  <2>1. UNCHANGED <<status, Placed>>
    BY <1>1 DEF Tick, dbVars, Placed
  <2>2. CASE \E e \in Epochs : clock + 1 = 2 * e + 2
    <3>1. PICK e \in Epochs : clock + 1 = 2 * e + 2
      BY <2>2
    <3>2. e \notin Finals /\ Finals' = Finals \cup {e}
      BY <1>0, <1>1, <3>1, MaxEpochAssumption DEF Tick, Final, TypeOK, LastTick, Epochs
    <3>. QED  BY <2>1, <3>2 DEF Ledger!Next, Ledger!Finalise
  <2>3. CASE ~\E e \in Epochs : clock + 1 = 2 * e + 2
    <3>1. ASSUME NEW e \in Epochs PROVE (clock + 1 >= 2 * e + 2) <=> (clock >= 2 * e + 2)
      <4>1. clock + 1 # 2 * e + 2
        BY <2>3
      <4>. QED  BY <1>0, <4>1, TimeType
    <3>2. Finals' = Finals
      BY <1>1, <3>1 DEF Tick, Final
    <3>. QED  BY <2>1, <3>2 DEF Ledger!vars
  <2>. QED  BY <2>2, <2>3
<1>2. ASSUME NEW e \in Epochs, Mine(e) \/ ExternalBet(e)
      PROVE  Ledger!Next \/ UNCHANGED Ledger!vars
  <2>1. UNCHANGED status /\ Finals' = Finals
    BY <1>2 DEF Mine, ExternalBet, dbVars, Final
  <2>2. CASE ledger' = ledger
    BY <2>1, <2>2 DEF Ledger!vars, Placed
  <2>3. CASE ledger' # ledger
    <3>1. Takes(e) /\ Placed' = Placed \cup {e} /\ e \notin Placed
      BY <1>0, <1>2, <2>3 DEF Mine, ExternalBet, Takes, Placed, TypeOK
    <3>2. e \notin Finals
      BY <1>0, <3>1, TimeType DEF Takes, Open, Final
    <3>. QED  BY <2>1, <3>1, <3>2 DEF Ledger!Next, Ledger!Bet
  <2>. QED  BY <2>2, <2>3
<1>3. ASSUME UNCHANGED chainVars
      PROVE  UNCHANGED Placed /\ Finals' = Finals
  BY <1>3 DEF chainVars, Placed, Final
<1>4. ASSUME NEW e \in Epochs, Resolved(e) PROVE Ledger!Next
  <2>1. UNCHANGED Placed /\ Finals' = Finals
    BY <1>3, <1>4 DEF Resolved
  <2>2. CASE ConfirmedBy(e)
    <3>1. Ledger!Confirm(e)
      BY <2>1, <2>2 DEF ConfirmedBy, Unresolved, PreConfirm, Placed,
         Ledger!Confirm, Ledger!Move, Ledger!PreConfirm
    <3>. QED  BY <3>1 DEF Ledger!Next
  <2>3. CASE FailedBy(e)
    <3>1. Ledger!Fail(e)
      BY <2>1, <2>3 DEF FailedBy, Unresolved, PreConfirm,
         Ledger!Fail, Ledger!Move, Ledger!PreConfirm
    <3>. QED  BY <3>1 DEF Ledger!Next
  <2>4. CASE SettledBy(e)
    <3>1. Ledger!Settle(e)
      BY <2>1, <2>4 DEF SettledBy, Ledger!Settle, Ledger!Move
    <3>. QED  BY <3>1 DEF Ledger!Next
  <2>. QED  BY <1>4, <2>2, <2>3, <2>4 DEF Resolved
<1>5. ASSUME NEW w \in Workers, NEW e \in Epochs, Rejected(w, e)
      PROVE  Ledger!Next \/ UNCHANGED Ledger!vars
  <2>1. UNCHANGED Placed /\ Finals' = Finals
    BY <1>3, <1>5 DEF Rejected
  <2>2. CASE Unresolved(e)
    <3>1. Ledger!Fail(e)
      BY <1>5, <2>1, <2>2 DEF Rejected, FailRow, Unresolved, PreConfirm,
         Ledger!Fail, Ledger!Move, Ledger!PreConfirm
    <3>. QED  BY <3>1 DEF Ledger!Next
  <2>3. CASE ~Unresolved(e)
    BY <1>5, <2>1, <2>3 DEF Rejected, FailRow, Ledger!vars
  <2>. QED  BY <2>2, <2>3
<1>6. ASSUME NEW w \in Workers, NEW e \in Epochs,
             Place(w, e) \/ PersistSigned(w, e) \/ RecordAccepted(w, e)
      PROVE  Ledger!Next \/ UNCHANGED Ledger!vars
  <2>1. UNCHANGED Placed /\ Finals' = Finals
    BY <1>3, <1>6 DEF Place, PersistSigned, RecordAccepted
  <2>2. Ledger!Create(e) \/ Ledger!Sign(e) \/ Ledger!Accept(e) \/ UNCHANGED status
    BY <1>6, <2>1 DEF Place, UidFree, PersistSigned, RecordAccepted,
       Ledger!Create, Ledger!Sign, Ledger!Accept, Ledger!Move
  <2>. QED  BY <2>1, <2>2 DEF Ledger!Next, Ledger!vars
<1>7. CASE Quiet
  BY <1>3, <1>7 DEF Quiet, Ledger!vars
<1>8. ASSUME NEW w \in Workers, NEW e \in Epochs, Delivered(w, e) PROVE UNCHANGED Ledger!vars
  BY <1>8 DEF Delivered, Ledger!vars, Placed, Final
<1>. QED  BY <1>0, <1>1, <1>2, <1>4, <1>5, <1>6, <1>7, <1>8 DEF CoreStep

\* Submission, reconciler, wallet sync and settlement together, with any faults, implement
\* the trade lifecycle: rows move along its table only, and are confirmed and settled only
\* when the contract allows it.
THEOREM LifecycleImplemented == Spec => ImplementsLifecycle
<1>1. Spec => Ledger!Spec
  BY InitLedger, StepLedger, Invariance, PTL DEF Spec, Ledger!Spec
<1>. QED  BY <1>1 DEF ImplementsLifecycle
=============================================================================
