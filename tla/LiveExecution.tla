---------------------------- MODULE LiveExecution ----------------------------
(***************************************************************************)
(* The life of one wallet's live bets: the submission pipeline             *)
(* (services/execution.ts), the transaction reconciler                     *)
(* (services/txReconciler.ts), the wallet sync (services/walletSync.ts),   *)
(* settlement (services/settlement.ts) and the order startup recovery runs *)
(* them in (services/recovery.ts), against a contract that takes one bet   *)
(* per wallet and round.                                                   *)
(*                                                                         *)
(* Every await that lets another task or the chain move is a step of its   *)
(* own.  Workers are the processes running at a given moment: more than    *)
(* one when a worker keeps running after it lost its lease.                *)
(***************************************************************************)
EXTENDS Naturals

CONSTANTS
  MaxEpoch,        \* bound: the rounds are 1..MaxEpoch
  Workers,         \* the processes that may run the worker loops
  ExternalEpochs,  \* rounds in which the owner may bet outside the app
  MaxFaults        \* bound: how many crashes and failed chain reads may happen

ASSUME MaxEpochAssumption == MaxEpoch \in Nat \ {0}
ASSUME MaxFaultsAssumption == MaxFaults \in Nat

Epochs == 1 .. MaxEpoch
LastTick == 2 * MaxEpoch + 2

VARIABLES
  \* the chain
  clock,     \* chain time, in half rounds
  ledger,    \* ledger[e]: whose bet the contract holds for the wallet in round e
  tx,        \* tx[e]: where the transaction signed for round e is
  sent,      \* sent[e]: how many transactions were broadcast for round e
  \* the database
  status,    \* status[e]: the row of the trade with uid live:w<wallet>:<market>:e
  signed,    \* rows whose tx_hash is recorded
  why,       \* why[e]: the row's error_class, or "IMPORTED"
  cursor,    \* wallets.user_rounds_cursor, as the last round it covers
  \* the processes
  phase,     \* phase[w]: not running, the recovery step it is in, or ready
  pc,        \* pc[w][e]: where the submission of round e is
  recAt,     \* recAt[w]: the row the reconciler looks at, 0 when it is not running
  recSnap,   \* recSnap[w]: what the reconciler read of each row when it started
  recMiss,   \* recMiss[w]: no receipt was found for the row at recAt[w]
  wsOn,      \* wsOn[w]: a wallet sync is running
  wsPage,    \* wsPage[w]: the rounds of the page it still has to process
  wsPos,     \* wsPos[w]: the last round it processed
  faults

chainVars == <<clock, ledger, tx, sent>>
dbVars    == <<status, signed, why, cursor>>
recVars   == <<recAt, recSnap, recMiss>>
wsVars    == <<wsOn, wsPage, wsPos>>
vars      == <<chainVars, dbVars, phase, pc, recVars, wsVars, faults>>

Statuses ==
  {"NONE", "PENDING", "SUBMITTING", "SUBMITTED", "CONFIRMED", "SETTLED", "FAILED"}
PreConfirm == {"PENDING", "SUBMITTING", "SUBMITTED"}
Reasons ==
  {"-", "REJECTED", "CONTRACT_REVERT", "INTERRUPTED", "DROPPED", "IMPORTED"}
Steps == {"idle", "checks", "persist", "broadcast", "accepted", "receipt"}
SnapKinds == {"skip", "unsigned", "signed"}
Phases == {"down", "tx", "wallet", "settle", "ready"}

TypeOK ==
  /\ clock \in 0 .. LastTick
  /\ ledger \in [Epochs -> {"none", "bot", "external"}]
  /\ tx \in [Epochs -> {"none", "mempool", "success", "reverted"}]
  /\ sent \in [Epochs -> Nat]
  /\ status \in [Epochs -> Statuses]
  /\ signed \in SUBSET Epochs
  /\ why \in [Epochs -> Reasons]
  /\ cursor \in 0 .. MaxEpoch
  /\ phase \in [Workers -> Phases]
  /\ pc \in [Workers -> [Epochs -> Steps]]
  /\ recAt \in [Workers -> 0 .. MaxEpoch]
  /\ recSnap \in [Workers -> [Epochs -> SnapKinds]]
  /\ recMiss \in [Workers -> BOOLEAN]
  /\ wsOn \in [Workers -> BOOLEAN]
  /\ wsPage \in [Workers -> SUBSET Epochs]
  /\ wsPos \in [Workers -> 0 .. MaxEpoch]
  /\ faults \in 0 .. MaxFaults

-----------------------------------------------------------------------------
\* Time.  Round e takes bets during tick 2e-2, is locked from 2e-1, is past its lock
\* time plus bufferSeconds from 2e, and is final (closed and confirmed) from 2e+2.

ExpiredWhenever(e) == TRUE    \* fault: the lock time is not looked at

Open(e)    == clock = 2 * e - 2
Expired(e) == clock >= 2 * e
Final(e)   == clock >= 2 * e + 2

\* The contract accepts a bet of the wallet in round e.
Takes(e) == Open(e) /\ ledger[e] = "none"

Placed == {e \in Epochs : ledger[e] # "none"}

Init ==
  /\ clock = 0
  /\ ledger = [e \in Epochs |-> "none"]
  /\ tx = [e \in Epochs |-> "none"]
  /\ sent = [e \in Epochs |-> 0]
  /\ status = [e \in Epochs |-> "NONE"]
  /\ signed = {}
  /\ why = [e \in Epochs |-> "-"]
  /\ cursor = 0
  /\ phase = [w \in Workers |-> "down"]
  /\ pc = [w \in Workers |-> [e \in Epochs |-> "idle"]]
  /\ recAt = [w \in Workers |-> 0]
  /\ recSnap = [w \in Workers |-> [e \in Epochs |-> "skip"]]
  /\ recMiss = [w \in Workers |-> FALSE]
  /\ wsOn = [w \in Workers |-> FALSE]
  /\ wsPage = [w \in Workers |-> {}]
  /\ wsPos = [w \in Workers |-> 0]
  /\ faults = 0

-----------------------------------------------------------------------------
\* The chain.

Tick ==
  /\ clock < LastTick
  /\ clock' = clock + 1
  /\ UNCHANGED <<ledger, tx, sent, dbVars, phase, pc, recVars, wsVars, faults>>

\* A transaction in the mempool is mined: it bets, or it reverts in a round that does
\* not take its bet.  Nothing obliges it to be mined: a dropped one stays where it is.
Mine(e) ==
  /\ tx[e] = "mempool"
  /\ tx' = [tx EXCEPT ![e] = IF Takes(e) THEN "success" ELSE "reverted"]
  /\ ledger' = [ledger EXCEPT ![e] = IF Takes(e) THEN "bot" ELSE @]
  /\ UNCHANGED <<clock, sent, dbVars, phase, pc, recVars, wsVars, faults>>

\* The owner bets from another program with the same wallet.
ExternalBet(e) ==
  /\ e \in ExternalEpochs
  /\ Takes(e)
  /\ ledger' = [ledger EXCEPT ![e] = "external"]
  /\ UNCHANGED <<clock, tx, sent, dbVars, phase, pc, recVars, wsVars, faults>>

-----------------------------------------------------------------------------
\* Row updates.  Each re-reads the row and is guarded by UPDATE ... WHERE status = :from.

UnresolvedWhatever(e) == status[e] # "NONE"    \* fault: the row is not re-read
Unresolved(e) == status[e] \in PreConfirm

FailRow(e, class) ==
  IF Unresolved(e)
    THEN /\ status' = [status EXCEPT ![e] = "FAILED"]
         /\ why' = [why EXCEPT ![e] = class]
    ELSE UNCHANGED <<status, why>>

ConfirmRow(e) ==
  /\ status' = [status EXCEPT ![e] = IF Unresolved(e) THEN "CONFIRMED" ELSE @]
  /\ UNCHANGED why

Mined(e) == tx[e] \in {"success", "reverted"}    \* its receipt is available
SucceededMined(e) == Mined(e)    \* fault: any receipt is taken for a success
Succeeded(e) == tx[e] = "success"

ApplyReceipt(e) ==
  IF status[e] \in {"SUBMITTING", "SUBMITTED"}
    THEN IF Succeeded(e) THEN ConfirmRow(e) ELSE FailRow(e, "CONTRACT_REVERT")
    ELSE UNCHANGED <<status, why>>

-----------------------------------------------------------------------------
\* The submission of one bet.

InFlight(w, e) == pc[w][e] # "idle"
Goto(w, e, step) == pc' = [pc EXCEPT ![w][e] = step]

UidFreeAfterFailure(e) == status[e] \in {"NONE", "FAILED"}    \* fault: a failed row's uid is free
UidFree(e) == status[e] = "NONE"

\* The decision and the PENDING row are committed together; a row with the same uid,
\* a failed one too, makes the insert violate UNIQUE(uid) and the bet a NO_TRADE.
Place(w, e) ==
  /\ phase[w] = "ready"
  /\ Open(e)
  /\ UidFree(e)
  /\ status' = [status EXCEPT ![e] = "PENDING"]
  /\ Goto(w, e, "checks")
  /\ UNCHANGED <<chainVars, signed, why, cursor, phase, recVars, wsVars, faults>>

\* The last of the checks on the chain: preflight reads round and ledger, prepareBet
\* simulates the bet and estimates its gas.
Checked(w, e) ==
  /\ pc[w][e] = "checks"
  /\ Takes(e)
  /\ Goto(w, e, "persist")
  /\ UNCHANGED <<chainVars, dbVars, phase, recVars, wsVars, faults>>

\* Any check may fail, and any error before the hash is recorded fails the trade as well.
Reject(w, e) ==
  /\ pc[w][e] \in {"checks", "persist"}
  /\ FailRow(e, "REJECTED")
  /\ Goto(w, e, "idle")
  /\ UNCHANGED <<chainVars, signed, cursor, phase, recVars, wsVars, faults>>

SignedUnrecorded(e) == signed    \* fault: the hash is written with a later update
SignedWith(e) == signed \cup {e}

\* The hash of the signed transaction is recorded before anything is broadcast.
PersistSigned(w, e) ==
  /\ pc[w][e] = "persist"
  /\ IF status[e] = "PENDING"
       THEN /\ status' = [status EXCEPT ![e] = "SUBMITTING"]
            /\ signed' = SignedWith(e)
            /\ Goto(w, e, "broadcast")
       ELSE Goto(w, e, "idle") /\ UNCHANGED <<status, signed>>
  /\ UNCHANGED <<chainVars, why, cursor, phase, recVars, wsVars, faults>>

Send(e) ==
  /\ tx' = [tx EXCEPT ![e] = "mempool"]
  /\ sent' = [sent EXCEPT ![e] = @ + 1]

\* The RPC accepts the transaction, or errs in a way that leaves its fate unknown
\* (delivered or not), or refuses it for certain.
BroadcastAccepted(w, e) ==
  /\ pc[w][e] = "broadcast"
  /\ Send(e)
  /\ Goto(w, e, "accepted")
  /\ UNCHANGED <<clock, ledger, dbVars, phase, recVars, wsVars, faults>>

BroadcastUnknown(w, e) ==
  /\ pc[w][e] = "broadcast"
  /\ Send(e) \/ UNCHANGED <<tx, sent>>
  /\ Goto(w, e, "idle")
  /\ UNCHANGED <<clock, ledger, dbVars, phase, recVars, wsVars, faults>>

BroadcastRefused(w, e) ==
  /\ pc[w][e] = "broadcast"
  /\ FailRow(e, "REJECTED")
  /\ Goto(w, e, "idle")
  /\ UNCHANGED <<chainVars, signed, cursor, phase, recVars, wsVars, faults>>

RecordAccepted(w, e) ==
  /\ pc[w][e] = "accepted"
  /\ IF status[e] = "SUBMITTING"
       THEN status' = [status EXCEPT ![e] = "SUBMITTED"] /\ Goto(w, e, "receipt")
       ELSE UNCHANGED status /\ Goto(w, e, "idle")
  /\ UNCHANGED <<chainVars, signed, why, cursor, phase, recVars, wsVars, faults>>

\* waitForReceipt returns the receipt, or nothing within RECEIPT_TIMEOUT_MS.
AwaitReceipt(w, e) ==
  /\ pc[w][e] = "receipt"
  /\ \/ Mined(e) /\ ApplyReceipt(e)
     \/ UNCHANGED <<status, why>>
  /\ Goto(w, e, "idle")
  /\ UNCHANGED <<chainVars, signed, cursor, phase, recVars, wsVars, faults>>

Submission(w, e) ==
  \/ Checked(w, e) \/ Reject(w, e) \/ PersistSigned(w, e)
  \/ BroadcastAccepted(w, e) \/ BroadcastUnknown(w, e) \/ BroadcastRefused(w, e)
  \/ RecordAccepted(w, e) \/ AwaitReceipt(w, e)

-----------------------------------------------------------------------------
\* The transaction reconciler: one pass over the rows it read when it started.

SnapOf(e) ==
  CASE status[e] \notin PreConfirm                    -> "skip"
    [] status[e] = "PENDING" \/ e \notin signed       -> "unsigned"
    [] OTHER                                          -> "signed"

NothingRead == [e \in Epochs |-> "skip"]

\* The rows a pass started now would have to wait for.
Pending(w) == {e \in Epochs : SnapOf(e) # "skip" /\ ~InFlight(w, e)}

\* The rows are read and the pass is at the first row it awaits something for: what it
\* read is not stale before that.
RecStart(w, e) ==
  /\ phase[w] \in {"tx", "ready"}
  /\ recAt[w] = 0
  /\ e \in Pending(w)
  /\ \A d \in Pending(w) : e <= d
  /\ recSnap' = [recSnap EXCEPT ![w] = [d \in Epochs |-> SnapOf(d)]]
  /\ recAt' = [recAt EXCEPT ![w] = e]
  /\ UNCHANGED <<chainVars, dbVars, phase, pc, recMiss, wsVars, faults>>

RecNothing(w) ==
  /\ phase[w] = "tx"
  /\ recAt[w] = 0
  /\ Pending(w) = {}
  /\ phase' = [phase EXCEPT ![w] = "wallet"]
  /\ UNCHANGED <<chainVars, dbVars, pc, recVars, wsVars, faults>>

NextRow(e) == IF e = MaxEpoch THEN 0 ELSE e + 1

\* Done with row e: go to the next one, or end the pass (in recovery, the next step).
RecNext(w, e) ==
  /\ recAt' = [recAt EXCEPT ![w] = NextRow(e)]
  /\ recMiss' = [recMiss EXCEPT ![w] = FALSE]
  /\ phase' = [phase EXCEPT ![w] = IF e = MaxEpoch /\ @ = "tx" THEN "wallet" ELSE @]
  /\ recSnap' = IF e = MaxEpoch THEN [recSnap EXCEPT ![w] = NothingRead] ELSE recSnap

RecSkip(w, e) ==
  /\ recAt[w] = e
  /\ ~recMiss[w]
  /\ recSnap[w][e] = "skip" \/ InFlight(w, e)
  /\ RecNext(w, e)
  /\ UNCHANGED <<chainVars, dbVars, pc, wsVars, faults>>

\* Placed while round e was open, the row is older than PENDING_GRACE_MS half a round later.
GraceMayLast(e) == clock < 2 * e

\* Decided on the snapshot, after the awaits of the rows before it.
RecUnsigned(w, e) ==
  /\ recAt[w] = e
  /\ recSnap[w][e] = "unsigned"
  /\ ~InFlight(w, e)
  /\ \/ FailRow(e, "INTERRUPTED")
     \/ GraceMayLast(e) /\ UNCHANGED <<status, why>>
  /\ RecNext(w, e)
  /\ UNCHANGED <<chainVars, signed, cursor, pc, wsVars, faults>>

RecReceipt(w, e) ==
  /\ recAt[w] = e
  /\ recSnap[w][e] = "signed"
  /\ ~InFlight(w, e)
  /\ ~recMiss[w]
  /\ IF Mined(e)
       THEN ApplyReceipt(e) /\ RecNext(w, e)
       ELSE /\ recMiss' = [recMiss EXCEPT ![w] = TRUE]
            /\ UNCHANGED <<status, why, recAt, recSnap, phase>>
  /\ UNCHANGED <<chainVars, signed, cursor, pc, wsVars, faults>>

ResolveOnlyBets(e) ==    \* fault: a bet the ledger does not show is waited for
  IF Expired(e) /\ ledger[e] # "none" THEN ConfirmRow(e) ELSE UNCHANGED <<status, why>>

\* Without a receipt, the ledger decides once the round cannot take the bet any more.
ResolveFromLedger(e) ==
  CASE ~Expired(e)                          -> UNCHANGED <<status, why>>
    [] Expired(e) /\ ledger[e] # "none"     -> ConfirmRow(e)
    [] OTHER                                -> FailRow(e, "DROPPED")

RecLedger(w, e) ==
  /\ recAt[w] = e
  /\ recMiss[w]
  /\ ResolveFromLedger(e)
  /\ RecNext(w, e)
  /\ UNCHANGED <<chainVars, signed, cursor, pc, wsVars, faults>>

\* A read of the chain fails: the pass throws, and a recovery starts over.
RecAbort(w) ==
  /\ recAt[w] # 0
  /\ faults < MaxFaults
  /\ faults' = faults + 1
  /\ recAt' = [recAt EXCEPT ![w] = 0]
  /\ recMiss' = [recMiss EXCEPT ![w] = FALSE]
  /\ recSnap' = [recSnap EXCEPT ![w] = NothingRead]
  /\ UNCHANGED <<chainVars, dbVars, phase, pc, wsVars>>

Reconcile(w) ==
  \/ RecNothing(w)
  \/ \E e \in Epochs :
       RecStart(w, e) \/ RecSkip(w, e)
       \/ RecUnsigned(w, e) \/ RecReceipt(w, e) \/ RecLedger(w, e)

-----------------------------------------------------------------------------
\* The wallet sync: one page of getUserRounds, in the order the bets were made.

PageOf(from) == {e \in Placed : e > from}

WsStart(w) ==
  /\ phase[w] \in {"wallet", "ready"}
  /\ ~wsOn[w]
  /\ PageOf(cursor) # {}
  /\ wsOn' = [wsOn EXCEPT ![w] = TRUE]
  /\ wsPage' = [wsPage EXCEPT ![w] = PageOf(cursor)]
  /\ wsPos' = [wsPos EXCEPT ![w] = cursor]
  /\ UNCHANGED <<chainVars, dbVars, phase, pc, recVars, faults>>

\* There is nothing past the cursor, and recovery goes on to its settlements.
WsNothing(w) ==
  /\ phase[w] = "wallet"
  /\ ~wsOn[w]
  /\ PageOf(cursor) = {}
  /\ phase' = [phase EXCEPT ![w] = "settle"]
  /\ UNCHANGED <<chainVars, dbVars, pc, recVars, wsVars, faults>>

WsHead(w, e) ==
  /\ wsOn[w]
  /\ e \in wsPage[w]
  /\ \A d \in wsPage[w] : e <= d

\* The bet has a row, which is confirmed, or gets one, unless a failed row holds its uid.
WsRound(w, e) ==
  /\ WsHead(w, e)
  /\ status[e] # "FAILED"
  /\ CASE status[e] = "NONE" ->
            /\ status' = [status EXCEPT ![e] = "CONFIRMED"]
            /\ why' = [why EXCEPT ![e] = "IMPORTED"]
       [] status[e] # "NONE" /\ ~InFlight(w, e) -> ConfirmRow(e)
       [] OTHER -> UNCHANGED <<status, why>>
  /\ wsPage' = [wsPage EXCEPT ![w] = @ \ {e}]
  /\ wsPos' = [wsPos EXCEPT ![w] = e]
  /\ UNCHANGED <<chainVars, signed, cursor, phase, pc, recVars, wsOn, faults>>

\* findLive passes over the failed row and the insert violates UNIQUE(uid): the run
\* throws, the cursor stays, and a recovery starts over.
WsAbort(w, e) ==
  /\ WsHead(w, e)
  /\ status[e] = "FAILED"
  /\ wsOn' = [wsOn EXCEPT ![w] = FALSE]
  /\ wsPage' = [wsPage EXCEPT ![w] = {}]
  /\ wsPos' = [wsPos EXCEPT ![w] = 0]
  /\ phase' = [phase EXCEPT ![w] = IF @ = "wallet" THEN "tx" ELSE @]
  /\ UNCHANGED <<chainVars, dbVars, pc, recVars, faults>>

CursorPastPage(w) ==    \* fault: the cursor advances by the page, not by what was processed
  IF wsPage[w] = {} THEN wsPos[w] ELSE CHOOSE e \in wsPage[w] : \A d \in wsPage[w] : d <= e
CursorAfter(w) == wsPos[w]

\* The cursor covers what was processed.  The run ends early when a round of the page
\* could not be fetched into the store.
WsFinish(w) ==
  /\ wsOn[w]
  /\ cursor' = CursorAfter(w)
  /\ wsOn' = [wsOn EXCEPT ![w] = FALSE]
  /\ wsPage' = [wsPage EXCEPT ![w] = {}]
  /\ wsPos' = [wsPos EXCEPT ![w] = 0]
  /\ phase' = [phase EXCEPT ![w] = IF @ = "wallet" THEN "settle" ELSE @]
  /\ UNCHANGED <<chainVars, status, signed, why, pc, recVars>>

WsEnd(w) == wsPage[w] = {} /\ WsFinish(w) /\ UNCHANGED faults

WsCutShort(w) ==
  /\ wsPage[w] # {}
  /\ faults < MaxFaults
  /\ faults' = faults + 1
  /\ WsFinish(w)

WalletSync(w) ==
  \/ WsStart(w) \/ WsNothing(w) \/ WsEnd(w)
  \/ \E e \in Epochs : WsRound(w, e) \/ WsAbort(w, e)

-----------------------------------------------------------------------------
\* Settlement, crashes and restarts.

\* The guarded update CONFIRMED -> SETTLED of a row whose round is final.
SettleRow(e) ==
  /\ status[e] = "CONFIRMED"
  /\ Final(e)
  /\ status' = [status EXCEPT ![e] = "SETTLED"]
  /\ UNCHANGED <<chainVars, signed, why, cursor, phase, pc, recVars, wsVars, faults>>

SettlesAll(w) == phase[w] \in {"settle", "ready"}

\* settleAll looks at every confirmed row: in the recovery step after the wallet sync,
\* which is reached only when that sync did not throw, and in the settlement loop (and at
\* the end of each wallet sync), which starts once recovery is over.
Settle(w, e) == SettlesAll(w) /\ SettleRow(e)

\* In every phase the monitor and the history sync settle the rounds they make final, at
\* that moment only: a row confirmed later is not looked at again.
SettleFinalised(w, e) == phase[w] # "down" /\ SettleRow(e)

\* The settlements of the recovery are done, of the rounds the store has as final: a row
\* may be left to the loop.
Recovered(w) ==
  /\ phase[w] = "settle"
  /\ phase' = [phase EXCEPT ![w] = "ready"]
  /\ UNCHANGED <<chainVars, dbVars, pc, recVars, wsVars, faults>>

Boot(w) ==
  /\ phase[w] = "down"
  /\ phase' = [phase EXCEPT ![w] = "tx"]
  /\ UNCHANGED <<chainVars, dbVars, pc, recVars, wsVars, faults>>

\* Everything in memory is lost, the in-flight set included.
Crash(w) ==
  /\ phase[w] # "down"
  /\ faults < MaxFaults
  /\ faults' = faults + 1
  /\ phase' = [phase EXCEPT ![w] = "down"]
  /\ pc' = [pc EXCEPT ![w] = [e \in Epochs |-> "idle"]]
  /\ recAt' = [recAt EXCEPT ![w] = 0]
  /\ recMiss' = [recMiss EXCEPT ![w] = FALSE]
  /\ recSnap' = [recSnap EXCEPT ![w] = NothingRead]
  /\ wsOn' = [wsOn EXCEPT ![w] = FALSE]
  /\ wsPage' = [wsPage EXCEPT ![w] = {}]
  /\ wsPos' = [wsPos EXCEPT ![w] = 0]
  /\ UNCHANGED <<chainVars, dbVars>>

-----------------------------------------------------------------------------

Chain(e) == Mine(e) \/ ExternalBet(e)

\* The last round is final and the loops find nothing to do.
Finished ==
  /\ clock = LastTick
  /\ \A e \in Epochs : status[e] \in {"NONE", "SETTLED", "FAILED"}
  /\ \A w \in Workers : phase[w] = "ready" /\ recAt[w] = 0 /\ ~wsOn[w]
  /\ UNCHANGED vars

Next ==
  \/ Tick
  \/ \E e \in Epochs : Chain(e)
  \/ \E w \in Workers, e \in Epochs : Place(w, e) \/ Submission(w, e)
                                    \/ Settle(w, e) \/ SettleFinalised(w, e)
  \/ \E w \in Workers : Reconcile(w) \/ WalletSync(w) \/ Recovered(w) \/ Boot(w)
                       \/ Crash(w) \/ RecAbort(w) \/ WsCutShort(w)
  \/ Finished

Spec == Init /\ [][Next]_vars

\* Time passes, a process that is down is restarted, and the event loop of a running
\* one keeps serving its timers and its pending calls.  Nothing is assumed of
\* SettleFinalised: a round is made final once.
Fairness ==
  /\ WF_vars(Tick)
  /\ \A w \in Workers :
       /\ WF_vars(Boot(w))
       /\ WF_vars(Reconcile(w))
       /\ WF_vars(WalletSync(w))
       /\ WF_vars(Recovered(w))
       /\ \A e \in Epochs : WF_vars(Submission(w, e)) /\ WF_vars(Settle(w, e))

FairSpec == Spec /\ Fairness

-----------------------------------------------------------------------------
\* Properties.

\* The hash is written before broadcast (SUBMITTING, execution.ts submitLive): whatever
\* reached the network can be found again after a crash.
HashBeforeBroadcast == \A e \in Epochs : sent[e] > 0 => e \in signed

\* Never re-sent: crashes, restarts, overlapping workers and failed rows never lead to
\* a second transaction for the same round (the uid stays taken, trades.uid UNIQUE).
OneTransactionPerRound == \A e \in Epochs : sent[e] <= 1

\* A trade counts as confirmed or settled only if the contract holds a bet of the wallet
\* in that round, whichever of submission, reconciler and wallet sync confirmed it.
ConfirmedHasBet ==
  \A e \in Epochs : status[e] \in {"CONFIRMED", "SETTLED"} => ledger[e] # "none"

\* The transaction of round e made the bet, or still can.
MayBet(e) == ledger[e] = "bot" \/ (tx[e] = "mempool" /\ Takes(e))

\* A trade written off as rejected, reverted or DROPPED has no bet and can have none.
\* INTERRUPTED is left out: see FailedNeverBets.
WrittenOffNeverBets ==
  \A e \in Epochs :
    status[e] = "FAILED" /\ why[e] # "INTERRUPTED" => ~MayBet(e)

\* The same of every failed trade, INTERRUPTED ("process stopped before the transaction
\* was signed", txReconciler.ts) included.
FailedNeverBets == \A e \in Epochs : status[e] = "FAILED" => ~MayBet(e)

\* No bet at or below the persisted cursor of the wallet sync is without a row: the
\* cursor never passes a bet that was not looked at, across crashes and early ends.
CursorCoversBets ==
  \A e \in Epochs : e <= cursor /\ ledger[e] # "none" => status[e] # "NONE"

\* The trade ledger keeps what TradeLifecycle promises.
Ledger == INSTANCE TradeLifecycle WITH
            bets <- Placed,
            final <- {e \in Epochs : Final(e)}

ImplementsLifecycle == Ledger!Spec

\* Every wallet sync throws: past the cursor is a bet whose uid a failed row holds.
SyncBlocked == \E e \in Epochs : e > cursor /\ status[e] = "FAILED" /\ ledger[e] # "none"

\* No process gets through its recovery's wallet sync.
RecoveryBlocked == SyncBlocked /\ \A w \in Workers : ~SettlesAll(w)

\* Every trade is eventually settled or failed, whatever was lost on the way, unless
\* recovery never completes again because its wallet sync throws on every attempt
\* (walletSync.ts syncWallet, recovery.ts run).
EventuallyResolved ==
  \A e \in Epochs :
    \/ status[e] # "NONE" ~> status[e] \in {"SETTLED", "FAILED"}
    \/ <>[]RecoveryBlocked
=============================================================================
