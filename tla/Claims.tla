------------------------------- MODULE Claims -------------------------------
(***************************************************************************)
(* Collecting the winnings of one wallet (services/claims.ts): a claim run *)
(* batches the settled trades it can claim into one transaction, and the   *)
(* reconciler (services/txReconciler.ts, last call) looks after the claims *)
(* left open.  Both are tasks of one process and apply receipts with the   *)
(* same code, one awaited row update at a time.                            *)
(***************************************************************************)
EXTENDS Naturals

CONSTANTS
  Epochs,      \* rounds in which the wallet has a winning or refundable trade
  Outside,     \* those the owner may claim with another program
  MaxClaims,   \* bound: rows of the claims table
  MaxFaults    \* bound: crashes, database errors, RPC refusals, stuck transactions

ASSUME EpochsAssumption == Epochs \subseteq Nat /\ Outside \subseteq Epochs
ASSUME BoundsAssumption == MaxClaims \in Nat \ {0} /\ MaxFaults \in Nat

Ids == 1 .. MaxClaims
Tasks == {"run", "reconciler"}

VARIABLES
  paid,     \* rounds whose winnings the contract has paid out
  tx,       \* tx[i]: where the transaction of claim i is
  trade,    \* trade[e]: claim_status, claim_id (0 for null) and the gas charged, as the
            \* number of shares of each claim's gas
  claim,    \* claim[i]: status and epochs of the row
  job,      \* job[t]: what the task t is doing
  list,     \* the open claims the reconciler still has to look at in this pass
  old,      \* claims not updated for ten minutes
  open,     \* a claim run started now would pass the gates at its beginning
  faults,
  torn,     \* history: claims whose row was closed by a task that died before their trades
  contested \* history: the two tasks were applying the outcome of one claim at the same time

vars == <<paid, tx, trade, claim, job, list, old, open, faults, torn, contested>>

ClaimStatuses == {"NONE", "UNCLAIMED", "CLAIMING", "CLAIMED"}
RowStatuses == {"none", "PENDING", "SUBMITTED", "CONFIRMED", "FAILED"}
Steps == {"idle", "check", "mark", "insert", "prepare", "own", "broadcast", "wait",
          "gas", "close", "trades"}
Shares == [Ids -> Nat]
Trades == [status : ClaimStatuses, id : {0} \cup Ids, gas : Shares]
Jobs == [at : Steps, id : {0} \cup Ids, trades : SUBSET Epochs, left : SUBSET Epochs,
         gas : [Epochs -> Shares], out : {"CONFIRMED", "FAILED"}]

TypeOK ==
  /\ paid \subseteq Epochs
  /\ tx \in [Ids -> {"none", "mempool", "success", "reverted"}]
  /\ trade \in [Epochs -> Trades]
  /\ claim \in [Ids -> [status : RowStatuses, epochs : SUBSET Epochs]]
  /\ job \in [Tasks -> Jobs]
  /\ list \subseteq Ids /\ old \subseteq Ids /\ torn \subseteq Ids
  /\ open \in BOOLEAN /\ contested \in BOOLEAN
  /\ faults \in 0 .. MaxFaults

-----------------------------------------------------------------------------

NoGas == [i \in Ids |-> 0]

Idle == [at |-> "idle", id |-> 0, trades |-> {}, left |-> {},
         gas |-> [e \in Epochs |-> NoGas], out |-> "FAILED"]

Least(S) == CHOOSE x \in S : \A y \in S : x <= y
Rows == {i \in Ids : claim[i].status # "none"}
OpenClaims == {i \in Ids : claim[i].status \in {"PENDING", "SUBMITTED"}}
Mined(i) == tx[i] \in {"success", "reverted"}
Unclaimed == {e \in Epochs : trade[e].status = "UNCLAIMED"}

Init ==
  /\ paid = {}
  /\ tx = [i \in Ids |-> "none"]
  /\ trade = [e \in Epochs |-> [status |-> "NONE", id |-> 0, gas |-> NoGas]]
  /\ claim = [i \in Ids |-> [status |-> "none", epochs |-> {}]]
  /\ job = [t \in Tasks |-> Idle]
  /\ list = {} /\ old = {} /\ torn = {}
  /\ open = FALSE /\ contested = FALSE
  /\ faults = 0

Do(t, j) == job' = [job EXCEPT ![t] = j]

\* The task t applies the outcome of claim i: charges its gas, closes it, resolves its trades.
Applies(t, i) == job[t].at \in {"gas", "close", "trades"} /\ job[t].id = i

\* It begins to.
Begin(t, j) ==
  /\ Do(t, j)
  /\ contested' = (contested \/ \E d \in Tasks \ {t} : Applies(d, j.id))

\* The task goes on with step `next` once no trade is left for this one.
Then(j, next) == IF j.left = {} THEN [j EXCEPT !.at = next, !.left = @ \cup j.trades] ELSE j

Fault == faults < MaxFaults /\ faults' = faults + 1

-----------------------------------------------------------------------------
\* Outside the process.

\* Settlement: the round is final and the trade won or is to be refunded.
Settle(e) ==
  /\ trade[e].status = "NONE"
  /\ trade' = [trade EXCEPT ![e].status = "UNCLAIMED"]
  /\ UNCHANGED <<paid, tx, claim, job, list, old, open, faults, torn, contested>>

\* claim() pays every round of the batch, or reverts when one of them is already paid.
Mine(i) ==
  /\ tx[i] = "mempool"
  /\ IF claim[i].epochs \cap paid = {}
       THEN tx' = [tx EXCEPT ![i] = "success"] /\ paid' = paid \cup claim[i].epochs
       ELSE tx' = [tx EXCEPT ![i] = "reverted"] /\ UNCHANGED paid
  /\ UNCHANGED <<trade, claim, job, list, old, open, faults, torn, contested>>

ClaimOutside(e) ==
  /\ e \in Outside \ paid
  /\ trade[e].status # "NONE"
  /\ paid' = paid \cup {e}
  /\ UNCHANGED <<tx, trade, claim, job, list, old, open, faults, torn, contested>>

\* The wallet sync (services/walletSync.ts) meets a bet the contract has paid.
SyncClaimed(e) ==
  /\ e \in paid
  /\ trade[e].status \in {"UNCLAIMED", "CLAIMING"}
  /\ trade' = [trade EXCEPT ![e].status = "CLAIMED"]
  /\ UNCHANGED <<paid, tx, claim, job, list, old, open, faults, torn, contested>>

\* Ten minutes pass since the last update of a claim.  The run, which waits for one minute
\* at most, is over by then; a transaction still in the mempool counts as a fault.
Age(i) ==
  /\ i \in OpenClaims \ old
  /\ job["run"].id # i
  /\ IF tx[i] = "mempool" THEN Fault ELSE UNCHANGED faults
  /\ old' = old \cup {i}
  /\ UNCHANGED <<paid, tx, trade, claim, job, list, open, torn, contested>>

-----------------------------------------------------------------------------
\* One claim run (run).  `running` keeps a second one out until it is over.

\* The loop runs claims only while the bot may trade, a run asked for by the operator only
\* unless the bot is stopped in an emergency, and neither without a signing wallet or with
\* live trading disabled.  The gates are looked at when a run starts, so that it suffices to
\* let them open and close while none is under way.
Gate ==
  /\ job["run"].at = "idle"
  /\ open' = ~open
  /\ UNCHANGED <<paid, tx, trade, claim, job, list, old, faults, torn, contested>>

RunStart ==
  /\ open
  /\ job["run"].at = "idle"
  /\ Unclaimed # {} /\ Rows # Ids
  /\ Do("run", [Idle EXCEPT !.at = "check", !.trades = Unclaimed])
  /\ UNCHANGED <<paid, tx, trade, claim, list, old, open, faults, torn, contested>>

\* What the contract would pay: a round that was won, or is to be refunded, and is not paid yet.
Claimable == Epochs \ paid
PaidAlready(j) == j.trades \ Claimable

\* getClaimStatus and the ledger: which of them the contract has already paid.
RunCheck ==
  LET j == job["run"] IN
  /\ j.at = "check"
  /\ Do("run", Then([j EXCEPT !.at = "mark", !.left = PaidAlready(j),
                              !.trades = @ \ PaidAlready(j)], "insert"))
  /\ UNCHANGED <<paid, tx, trade, claim, list, old, open, faults, torn, contested>>

\* Those are marked one by one; without any other the run is over.
RunMark ==
  LET j == job["run"]
      e == Least(j.left) IN
  /\ j.at = "mark"
  /\ trade' = [trade EXCEPT ![e].status = "CLAIMED"]
  /\ Do("run", IF j.left = {e} /\ j.trades = {} THEN Idle
                ELSE Then([j EXCEPT !.left = @ \ {e}], "insert"))
  /\ UNCHANGED <<paid, tx, claim, list, old, open, faults, torn, contested>>

RunInsert ==
  LET j == job["run"]
      i == Least(Ids \ Rows) IN
  /\ j.at = "insert"
  /\ claim' = [claim EXCEPT ![i] = [status |-> "PENDING", epochs |-> j.trades]]
  /\ Do("run", [j EXCEPT !.at = "prepare", !.id = i])
  /\ UNCHANGED <<paid, tx, trade, list, old, open, faults, torn, contested>>

\* prepareClaim simulates the call.  The claim becomes SUBMITTED, with its hash, before the
\* trades are attached to it and before it is broadcast.
RunPrepare ==
  LET j == job["run"] IN
  /\ j.at = "prepare"
  /\ j.trades \cap paid = {}
  /\ claim' = [claim EXCEPT ![j.id].status = "SUBMITTED"]
  /\ Do("run", [j EXCEPT !.at = "own", !.left = j.trades])
  /\ UNCHANGED <<paid, tx, trade, list, old, open, faults, torn, contested>>

RunUnprepared ==
  LET j == job["run"] IN
  /\ j.at = "prepare"
  /\ IF j.trades \cap paid = {} THEN Fault ELSE UNCHANGED faults
  /\ claim' = [claim EXCEPT ![j.id].status = "FAILED"]
  /\ Do("run", Idle)
  /\ UNCHANGED <<paid, tx, trade, list, old, open, torn, contested>>

RunOwn ==
  LET j == job["run"]
      e == Least(j.left) IN
  /\ j.at = "own"
  /\ trade' = [trade EXCEPT ![e].status = "CLAIMING", ![e].id = j.id]
  /\ Do("run", Then([j EXCEPT !.left = @ \ {e}], "broadcast"))
  /\ UNCHANGED <<paid, tx, claim, list, old, open, faults, torn, contested>>

\* Sent; or the answer is lost, sent or not; or the RPC refuses it for certain.
RunBroadcast ==
  LET j == job["run"] IN
  /\ j.at = "broadcast"
  /\ \/ /\ tx' = [tx EXCEPT ![j.id] = "mempool"]
        /\ Do("run", [j EXCEPT !.at = "wait"])
        /\ UNCHANGED <<faults, contested>>
     \/ Fault /\ Do("run", [j EXCEPT !.at = "wait"]) /\ UNCHANGED <<tx, contested>>
     \/ Fault /\ Begin("run", [j EXCEPT !.at = "close", !.out = "FAILED"]) /\ UNCHANGED tx
  /\ UNCHANGED <<paid, trade, claim, list, old, open, torn>>

-----------------------------------------------------------------------------
\* applyReceipt and revert, for either task.

\* fault: only trades still waiting to be claimed are looked up
TradesStillUnclaimed(i) ==
  {e \in claim[i].epochs : trade[e].id = i /\ trade[e].status = "UNCLAIMED"}
TradesOf(i) == {e \in claim[i].epochs : trade[e].id = i}

\* What a task does with the receipt of claim i.  The gas charged so far is read here.
Receipt(i) ==
  LET j == [Idle EXCEPT !.id = i, !.at = "gas", !.trades = TradesOf(i), !.left = TradesOf(i),
                        !.gas = [e \in Epochs |-> IF e \in TradesOf(i) THEN trade[e].gas ELSE NoGas],
                        !.out = IF tx[i] = "success" THEN "CONFIRMED" ELSE "FAILED"]
  IN Then(j, "close")

RunWait ==
  LET j == job["run"] IN
  /\ j.at = "wait"
  /\ \/ Mined(j.id) /\ Begin("run", Receipt(j.id))
     \/ Do("run", Idle) /\ UNCHANGED contested
  /\ UNCHANGED <<paid, tx, trade, claim, list, old, open, faults, torn>>

\* attributeGas: one more share of this claim's gas, on top of what was read.
ChargeGas(t) ==
  LET j == job[t]
      e == Least(j.left) IN
  /\ j.at = "gas"
  /\ trade' = [trade EXCEPT ![e].gas = [j.gas[e] EXCEPT ![j.id] = @ + 1]]
  /\ Do(t, Then([j EXCEPT !.left = @ \ {e}], "close"))
  /\ UNCHANGED <<paid, tx, claim, list, old, open, faults, torn, contested>>

CloseClaim(t) ==
  LET j == job[t] IN
  /\ j.at = "close"
  /\ claim' = [claim EXCEPT ![j.id].status = j.out]
  /\ Do(t, IF j.trades = {} THEN Idle
                            ELSE [j EXCEPT !.at = "trades", !.left = j.trades, !.gas = Idle.gas])
  /\ old' = old \ {j.id}
  /\ UNCHANGED <<paid, tx, trade, list, open, faults, torn, contested>>

ClaimedWhatever(j, r) == [r EXCEPT !.status = "CLAIMED"]    \* fault: a failed claim counts too
Resolved(j, r) ==
  IF j.out = "CONFIRMED" THEN [r EXCEPT !.status = "CLAIMED"]
                         ELSE [r EXCEPT !.status = "UNCLAIMED", !.id = 0]

ResolveTrade(t) ==
  LET j == job[t]
      e == Least(j.left) IN
  /\ j.at = "trades"
  /\ trade' = [trade EXCEPT ![e] = Resolved(j, @)]
  /\ Do(t, IF j.left = {e} THEN Idle ELSE [j EXCEPT !.left = @ \ {e}])
  /\ UNCHANGED <<paid, tx, claim, list, old, open, faults, torn, contested>>

-----------------------------------------------------------------------------
\* reconcileOpen: the claims that were open when the pass began, oldest first.

ReconcileStart ==
  /\ job["reconciler"].at = "idle" /\ list = {}
  /\ OpenClaims # {}
  /\ list' = OpenClaims
  /\ UNCHANGED <<paid, tx, trade, claim, job, old, open, faults, torn, contested>>

NeverDropped(i) == FALSE    \* fault: a claim without a receipt is waited for
Dropped(i) == i \in old

ReconcileClaim ==
  LET i == Least(list) IN
  /\ job["reconciler"].at = "idle" /\ list # {}
  /\ list' = list \ {i}
  /\ CASE claim[i].status = "PENDING" /\ Dropped(i) ->
            claim' = [claim EXCEPT ![i].status = "FAILED"] /\ UNCHANGED <<job, contested>>
       [] claim[i].status # "PENDING" /\ Mined(i) ->
            Begin("reconciler", Receipt(i)) /\ UNCHANGED claim
       [] claim[i].status # "PENDING" /\ ~Mined(i) /\ Dropped(i) ->
            /\ Begin("reconciler", [Idle EXCEPT !.id = i, !.at = "close", !.trades = TradesOf(i)])
            /\ UNCHANGED claim
       [] OTHER -> UNCHANGED <<claim, job, contested>>
  /\ UNCHANGED <<paid, tx, trade, old, open, faults, torn>>

-----------------------------------------------------------------------------

\* A database error ends one task, a crash both.  The next pass starts afresh.
Die(dead) ==
  /\ \E t \in dead : job[t].at # "idle"
  /\ Fault
  /\ job' = [t \in Tasks |-> IF t \in dead THEN Idle ELSE job[t]]
  /\ list' = IF "reconciler" \in dead THEN {} ELSE list
  /\ torn' = torn \cup {job[t].id : t \in {d \in dead : job[d].at = "trades"}}
  /\ UNCHANGED <<paid, tx, trade, claim, old, open, contested>>

Apply(t) == ChargeGas(t) \/ CloseClaim(t) \/ ResolveTrade(t)

Run ==
  \/ RunStart \/ RunCheck \/ RunMark \/ RunInsert \/ RunPrepare \/ RunUnprepared
  \/ RunOwn \/ RunBroadcast \/ RunWait \/ Apply("run")

Reconcile == ReconcileStart \/ ReconcileClaim \/ Apply("reconciler")

\* Nothing is left to claim or to wait for.
Finished ==
  /\ \A e \in Epochs : trade[e].status = "CLAIMED" \/ trade[e].id \in torn
  /\ OpenClaims = {} /\ list = {}
  /\ \A t \in Tasks : job[t].at = "idle"
  /\ UNCHANGED vars

Next ==
  \/ \E e \in Epochs : Settle(e) \/ ClaimOutside(e) \/ SyncClaimed(e)
  \/ \E i \in Ids : Mine(i) \/ Age(i)
  \/ Gate
  \/ Run \/ Reconcile
  \/ \E dead \in SUBSET Tasks : Die(dead)
  \/ Finished

Spec == Init /\ [][Next]_vars

\* Both loops keep running; the network mines what it holds, within ten minutes unless
\* that counts as a fault; time passes.
Fairness ==
  /\ WF_vars(Run) /\ WF_vars(Reconcile)
  /\ \A i \in Ids : WF_vars(Mine(i)) /\ WF_vars(Age(i))

FairSpec == Spec /\ Fairness

-----------------------------------------------------------------------------
\* Properties.

\* A trade counts as CLAIMED only when the contract has paid it, whether a receipt, a
\* claim made elsewhere or two tasks at once said so.
ClaimedIsPaid == \A e \in Epochs : trade[e].status = "CLAIMED" => e \in paid

\* A CLAIMING trade is always in somebody's hands: its claim is still open, or a task is
\* about to resolve it.  The claims of tasks that died half way (torn) are left out.
ClaimingIsTracked ==
  \A e \in Epochs :
    trade[e].status = "CLAIMING" =>
      \/ claim[trade[e].id].status = "SUBMITTED"
      \/ \E t \in Tasks : job[t].at = "trades" /\ job[t].id = trade[e].id /\ e \in job[t].left
      \/ trade[e].id \in torn

\* As long as the two tasks have never applied the outcome of one claim at the same time, the
\* gas of a confirmed claim has been charged to each of its trades and stays charged, wherever
\* a task died and whatever claims those trades were in before (claims.ts applyReceipt, revert).
\* Once they have, the charge can be lost: the later one releases trades that are in another
\* claim by then, or writes back the gas it read before that claim was charged.
ConfirmedIsCharged ==
  ~contested =>
    \A i \in Ids : \A e \in claim[i].epochs :
      claim[i].status = "CONFIRMED" => trade[e].gas[i] > 0

\* Winnings are eventually collected, through refused, lost, stuck and reverted claims, unless
\* the bot is again and again, or for good, not allowed to (worker.ts startLoops, claims.ts run).
EventuallyClaimed ==
  \/ <>[](\A e \in Epochs : trade[e].status \in {"NONE", "CLAIMED"} \/ trade[e].id \in torn)
  \/ []<>~open

\* The ledger's net P&L adds up to what left the wallet (docs/VALIDATION.md): a trade is
\* charged the gas of each mined claim it was in once, and of no other.
GasChargedOnce ==
  \A e \in Epochs, i \in Ids :
    trade[e].gas[i] <= IF Mined(i) /\ e \in claim[i].epochs THEN 1 ELSE 0
=============================================================================
