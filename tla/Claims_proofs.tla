---------------------------- MODULE Claims_proofs ----------------------------
(***************************************************************************)
(* What Claims guarantees for any set of rounds, any rounds claimed        *)
(* elsewhere, any number of claims and any number of faults.               *)
(***************************************************************************)
EXTENDS Claims, WellFoundedInduction, TLAPS

\* A nonempty set of numbers has a least one, and it is one of them.
LEMMA LeastIn ==
  ASSUME NEW S \in SUBSET Nat, S # {}
  PROVE  Least(S) \in S
<1>. DEFINE R == OpToRel(<, Nat)
<1>1. \A a \in Nat, b \in Nat : a < b => <<a, b>> \in R
  BY DEF OpToRel
<1>2. PICK x \in S : \A y \in S : <<y, x>> \notin R
  <2>. HIDE DEF R
  <2>. QED  BY WFMin, NatLessThanWellFounded, Zenon DEF R
<1>3. ASSUME NEW y \in S PROVE x <= y
  <2>1. x \in Nat /\ y \in Nat
    OBVIOUS
  <2>2. y < x => <<y, x>> \in R
    <3>. HIDE DEF R
    <3>. QED  BY <1>1, <2>1, Zenon
  <2>3. ~(y < x)
    <3>. HIDE DEF R
    <3>. QED  BY <2>2, <1>2, Zenon
  <2>. QED  BY <2>1, <2>3
<1>. QED  BY <1>3 DEF Least

-----------------------------------------------------------------------------
\* Types.

\* A task moves, the other one does not.
LEMMA DoEffect ==
  ASSUME job \in [Tasks -> Jobs], NEW t \in Tasks, NEW j, Do(t, j)
  PROVE  /\ job'[t] = j
         /\ \A u \in Tasks : u # t => job'[u] = job[u]
         /\ j \in Jobs => job' \in [Tasks -> Jobs]
BY DEF Do

\* What a task goes on with is a job.
LEMMA ThenType ==
  ASSUME NEW j \in Jobs, NEW next \in Steps
  PROVE  Then(j, next) \in Jobs
BY DEF Then, Jobs

\* No gas is an amount of it, and a share more is another.
LEMMA NoGasType == NoGas \in Shares
  BY DEF NoGas, Shares

LEMMA OneMore ==
  ASSUME NEW g \in Shares, NEW i \in Ids
  PROVE  LET h == [g EXCEPT ![i] = @ + 1] IN
         /\ h \in Shares /\ h[i] > 0
         /\ \A k \in Ids : g[k] > 0 => h[k] > 0
<1>. DEFINE h == [g EXCEPT ![i] = @ + 1]
<1>1. \A k \in Ids : g[k] \in Nat
  BY DEF Shares
<1>2. \A k \in Ids : h[k] = IF k = i THEN g[k] + 1 ELSE g[k]
  BY DEF Shares
<1>3. h \in Shares
  BY <1>1 DEF Shares
<1>. HIDE DEF h
<1>4. h[i] > 0 /\ \A k \in Ids : g[k] > 0 => h[k] > 0
  BY <1>1, <1>2
<1>. QED  BY <1>3, <1>4 DEF h

\* The receipt of a claim makes a job of it.
LEMMA ReceiptType ==
  ASSUME TypeOK, NEW i \in Ids
  PROVE  Receipt(i) \in Jobs
<1>. DEFINE j == [Idle EXCEPT !.id = i, !.at = "gas", !.trades = TradesOf(i), !.left = TradesOf(i),
                        !.gas = [e \in Epochs |-> IF e \in TradesOf(i) THEN trade[e].gas ELSE NoGas],
                        !.out = IF tx[i] = "success" THEN "CONFIRMED" ELSE "FAILED"]
<1>1. TradesOf(i) \subseteq Epochs
  BY DEF TypeOK, TradesOf
<1>2. [e \in Epochs |-> IF e \in TradesOf(i) THEN trade[e].gas ELSE NoGas] \in [Epochs -> Shares]
  BY NoGasType DEF TypeOK, Trades
<1>3. j \in Jobs
  BY <1>1, <1>2 DEF Idle, Jobs, Steps
<1>. QED  BY <1>3, ThenType DEF Receipt, Steps

\* A task that does nothing is one.
LEMMA IdleType == Idle \in Jobs
  BY NoGasType DEF Idle, Jobs, Steps

\* The types at first.
LEMMA InitType == Init => TypeOK
<1>. SUFFICES ASSUME Init PROVE TypeOK
  OBVIOUS
<1>1. [status |-> "NONE", id |-> 0, gas |-> NoGas] \in Trades
  BY NoGasType DEF Trades, ClaimStatuses
<1>2. trade \in [Epochs -> Trades]
  BY <1>1 DEF Init
<1>3. job \in [Tasks -> Jobs]
  BY IdleType DEF Init
<1>4. claim \in [Ids -> [status : RowStatuses, epochs : SUBSET Epochs]]
  BY DEF Init, RowStatuses
<1>5. open \in BOOLEAN /\ contested \in BOOLEAN
  BY Zenon DEF Init
<1>6. /\ paid \subseteq Epochs /\ faults \in 0 .. MaxFaults
      /\ tx \in [Ids -> {"none", "mempool", "success", "reverted"}]
      /\ list \subseteq Ids /\ old \subseteq Ids /\ torn \subseteq Ids
  BY BoundsAssumption DEF Init
<1>. QED  BY <1>2, <1>3, <1>4, <1>5, <1>6 DEF TypeOK

-----------------------------------------------------------------------------

\* A claim that succeeded has paid all its rounds.
PaidBySuccess == \A i \in Ids : tx[i] = "success" => claim[i].epochs \subseteq paid

\* Before its row is inserted, nothing and nobody refers to a claim.
NotBefore ==
  \A i \in Ids \ Rows :
    /\ tx[i] = "none" /\ i \notin old
    /\ \A e \in Epochs : trade[e].id # i
    /\ \A t \in Tasks : job[t].id # i

\* A trade is attached to a claim for its round, and to one while it is being claimed.
Attached ==
  \A e \in Epochs :
    /\ trade[e].id # 0 => e \in claim[trade[e].id].epochs
    /\ trade[e].status = "CLAIMING" => trade[e].id # 0
    /\ trade[e].status \in {"NONE", "UNCLAIMED"} => trade[e].id = 0

\* What a claim run knows at each step until its claim is on its way.
Prepared ==
  LET j == job["run"] IN
  /\ j.at \in {"check", "mark", "insert"} => Rows # Ids
  /\ j.at = "mark" => j.left # {} /\ j.left \subseteq paid
  /\ j.at \in {"check", "insert", "prepare"} => j.trades # {}
  /\ j.at \in {"prepare", "own", "broadcast", "wait"} =>
       j.id \in Ids /\ claim[j.id].epochs = j.trades
  /\ j.at \in {"prepare", "own", "broadcast"} =>
       tx[j.id] = "none" /\ job["reconciler"].id # j.id
  /\ j.id \notin old
  /\ j.at = "prepare" => claim[j.id].status = "PENDING"
  /\ j.at = "own" => claim[j.id].status = "SUBMITTED" /\ j.left # {} /\ j.left \subseteq j.trades

\* What a task that applies the result of a claim knows: every trade attached to the claim
\* is on its list until it closes the claim.
Applying(t) ==
  LET j == job[t] IN
  /\ j.at \in {"gas", "close", "trades"} =>
       /\ j.id \in Ids /\ j.trades \subseteq claim[j.id].epochs
       /\ j.out = "CONFIRMED" => tx[j.id] = "success"
  /\ j.at \in {"gas", "trades"} => j.left # {} /\ j.left \subseteq j.trades
  /\ j.at \in {"gas", "close"} => \A e \in Epochs : trade[e].id = j.id => e \in j.trades

\* The inductive invariant.
Inv ==
  /\ TypeOK /\ PaidBySuccess /\ NotBefore /\ Attached /\ Prepared
  /\ \A t \in Tasks : Applying(t)
  /\ ClaimedIsPaid /\ ClaimingIsTracked

\* 0 is the number of no claim.
LEMMA ZeroNotOld ==
  ASSUME TypeOK
  PROVE  0 \notin old
BY DEF TypeOK, Ids

\* Epochs are numbers, and so is the least of some of them.
LEMMA LeastEpoch ==
  ASSUME NEW S \in SUBSET Epochs, S # {}
  PROVE  Least(S) \in S /\ Least(S) \in Epochs
BY LeastIn, EpochsAssumption

\* So is the least of some claims.
LEMMA LeastId ==
  ASSUME NEW S \in SUBSET Ids, S # {}
  PROVE  Least(S) \in S /\ Least(S) \in Ids
<1>1. S \in SUBSET Nat
  BY BoundsAssumption DEF Ids
<1>. QED  BY <1>1, LeastIn

\* What the outside world does.
LEMMA OutsideType ==
  ASSUME TypeOK, \/ \E e \in Epochs : Settle(e) \/ ClaimOutside(e) \/ SyncClaimed(e)
                 \/ \E i \in Ids : Mine(i) \/ Age(i)
  PROVE  TypeOK'
<1>. USE DEF TypeOK
<1>1. ASSUME NEW e \in Epochs, Settle(e) \/ SyncClaimed(e)
      PROVE  TypeOK'
  <2>1. PICK s \in ClaimStatuses : trade' = [trade EXCEPT ![e].status = s]
    BY <1>1 DEF Settle, SyncClaimed, ClaimStatuses
  <2>2. trade' \in [Epochs -> Trades]
    BY <2>1 DEF Trades
  <2>. QED  BY <1>1, <2>2 DEF Settle, SyncClaimed
<1>2. ASSUME NEW e \in Epochs, ClaimOutside(e)
      PROVE  TypeOK'
  BY <1>2, EpochsAssumption DEF ClaimOutside
<1>3. ASSUME NEW i \in Ids, Mine(i)
      PROVE  TypeOK'
  BY <1>3 DEF Mine
<1>4. ASSUME NEW i \in Ids, Age(i)
      PROVE  TypeOK'
  BY <1>4, BoundsAssumption DEF Age, Fault, OpenClaims
<1>. QED  BY <1>1, <1>2, <1>3, <1>4

\* The job of a task stays one.
LEMMA JobType ==
  ASSUME Inv, [Next]_vars
  PROVE  job' \in [Tasks -> Jobs]
<1>. USE DEF TypeOK, Steps
<1>1. TypeOK /\ job["run"] \in Jobs /\ "run" \in Tasks /\ "reconciler" \in Tasks
  BY DEF Inv, Tasks
<1>2. CASE RunStart
  BY <1>1, <1>2, IdleType, DoEffect DEF RunStart, Unclaimed, Jobs
<1>3. CASE RunCheck
  <2>. DEFINE j == [job["run"] EXCEPT !.at = "mark", !.left = PaidAlready(job["run"]),
                                      !.trades = @ \ PaidAlready(job["run"])]
  <2>1. j \in Jobs
    BY <1>1 DEF Jobs, PaidAlready
  <2>2. Then(j, "insert") \in Jobs
    BY <2>1, ThenType
  <2>. QED  BY <1>1, <1>3, <2>2, DoEffect DEF RunCheck
<1>4. CASE RunMark
  <2>. DEFINE j == [job["run"] EXCEPT !.left = @ \ {Least(job["run"].left)}]
  <2>1. j \in Jobs
    BY <1>1 DEF Jobs
  <2>2. Then(j, "insert") \in Jobs
    BY <2>1, ThenType
  <2>. QED  BY <1>1, <1>4, <2>2, DoEffect, IdleType DEF RunMark
<1>5. CASE RunInsert
  <2>1. Least(Ids \ Rows) \in Ids
    BY <1>5, LeastId DEF RunInsert, Inv, Prepared, Rows
  <2>2. [job["run"] EXCEPT !.at = "prepare", !.id = Least(Ids \ Rows)] \in Jobs
    BY <1>1, <2>1 DEF Jobs
  <2>. QED  BY <1>1, <1>5, <2>2, DoEffect DEF RunInsert
<1>6. CASE RunPrepare \/ RunUnprepared
  <2>1. [job["run"] EXCEPT !.at = "own", !.left = job["run"].trades] \in Jobs
    BY <1>1 DEF Jobs
  <2>. QED  BY <1>1, <1>6, <2>1, DoEffect, IdleType DEF RunPrepare, RunUnprepared
<1>7. CASE RunOwn
  <2>. DEFINE j == [job["run"] EXCEPT !.left = @ \ {Least(job["run"].left)}]
  <2>1. j \in Jobs
    BY <1>1 DEF Jobs
  <2>2. Then(j, "broadcast") \in Jobs
    BY <2>1, ThenType
  <2>. QED  BY <1>1, <1>7, <2>2, DoEffect DEF RunOwn
<1>8. CASE RunBroadcast
  <2>1. [job["run"] EXCEPT !.at = "wait"] \in Jobs
    BY <1>1 DEF Jobs
  <2>2. [job["run"] EXCEPT !.at = "close", !.out = "FAILED"] \in Jobs
    BY <1>1 DEF Jobs
  <2>. QED  BY <1>1, <1>8, <2>1, <2>2, DoEffect DEF RunBroadcast, Begin
<1>9. CASE RunWait
  <2>1. job["run"].id \in Ids
    BY <1>9 DEF RunWait, Inv, Prepared
  <2>. QED  BY <1>1, <1>9, <2>1, DoEffect, IdleType, ReceiptType DEF RunWait, Begin
<1>10. ASSUME NEW t \in Tasks, ChargeGas(t)
      PROVE  job' \in [Tasks -> Jobs]
  <2>. DEFINE j == [job[t] EXCEPT !.left = @ \ {Least(job[t].left)}]
  <2>1. j \in Jobs
    BY <1>1 DEF Jobs
  <2>2. Then(j, "close") \in Jobs
    BY <2>1, ThenType
  <2>. QED  BY <1>1, <1>10, <2>2, DoEffect DEF ChargeGas
<1>11. ASSUME NEW t \in Tasks, CloseClaim(t) \/ ResolveTrade(t)
      PROVE  job' \in [Tasks -> Jobs]
  <2>1. [job[t] EXCEPT !.at = "trades", !.left = job[t].trades, !.gas = Idle.gas] \in Jobs
    BY <1>1, IdleType DEF Jobs
  <2>2. [job[t] EXCEPT !.left = @ \ {Least(job[t].left)}] \in Jobs
    BY <1>1 DEF Jobs
  <2>. QED  BY <1>1, <1>11, <2>1, <2>2, DoEffect, IdleType DEF CloseClaim, ResolveTrade
<1>12. CASE ReconcileClaim
  <2>1. Least(list) \in Ids
    BY <1>1, <1>12, LeastId DEF ReconcileClaim
  <2>2. TradesOf(Least(list)) \subseteq Epochs
    BY <1>1, <2>1 DEF TradesOf
  <2>3. [Idle EXCEPT !.id = Least(list), !.at = "close", !.trades = TradesOf(Least(list))] \in Jobs
    BY <2>1, <2>2, IdleType DEF Jobs
  <2>4. Receipt(Least(list)) \in Jobs
    BY <1>1, <2>1, ReceiptType
  <2>. QED  BY <1>1, <1>12, <2>3, <2>4, DoEffect DEF ReconcileClaim, Begin
<1>13. ASSUME NEW dead \in SUBSET Tasks, Die(dead)
      PROVE  job' \in [Tasks -> Jobs]
  BY <1>1, <1>13, IdleType DEF Die
<1>14. ASSUME UNCHANGED job
      PROVE  job' \in [Tasks -> Jobs]
  BY <1>1, <1>14
<1>15. ASSUME NEW e \in Epochs, Settle(e) \/ ClaimOutside(e) \/ SyncClaimed(e)
       PROVE  job' \in [Tasks -> Jobs]
  BY <1>14, <1>15 DEF Settle, ClaimOutside, SyncClaimed
<1>16. ASSUME NEW i \in Ids, Mine(i) \/ Age(i)
       PROVE  job' \in [Tasks -> Jobs]
  BY <1>14, <1>16 DEF Mine, Age
<1>17. CASE ReconcileStart \/ Gate \/ UNCHANGED vars
  BY <1>14, <1>17 DEF ReconcileStart, Gate, vars
<1>. HIDE DEF TypeOK, Steps
<1>. QED
  BY <1>1, <1>2, <1>3, <1>4, <1>5, <1>6, <1>7, <1>8, <1>9, <1>10, <1>11, <1>12, <1>13, <1>15, <1>16,
       <1>17 DEF Next, Run, Reconcile, Apply, Finished

\* Every variable keeps its type.
LEMMA NextType == Inv /\ [Next]_vars => TypeOK'
<1>. SUFFICES ASSUME Inv, [Next]_vars
              PROVE  TypeOK'
  OBVIOUS
<1>1. TypeOK /\ job' \in [Tasks -> Jobs] /\ "run" \in Tasks
  BY JobType DEF Inv, Tasks
<1>2. CASE \/ \E e \in Epochs : Settle(e) \/ ClaimOutside(e) \/ SyncClaimed(e)
           \/ \E i \in Ids : Mine(i) \/ Age(i)
  BY <1>1, <1>2, OutsideType
<1>3. CASE RunStart \/ RunCheck \/ RunWait \/ ReconcileStart \/ Gate \/ UNCHANGED vars
  BY <1>1, <1>3 DEF TypeOK, RunStart, RunCheck, RunWait, ReconcileStart, OpenClaims, Gate, Begin, vars
<1>4. CASE RunMark \/ RunOwn
  <2>1. Least(job["run"].left) \in Epochs /\ job["run"].id \in Ids \cup {0}
    BY <1>1, <1>4, LeastEpoch DEF TypeOK, Jobs, RunMark, RunOwn, Inv, Prepared
  <2>2. trade' \in [Epochs -> Trades]
    <3>1. CASE RunMark
      BY <1>1, <2>1, <3>1 DEF TypeOK, Trades, ClaimStatuses, RunMark
    <3>2. CASE RunOwn
      <4>1. trade' = [trade EXCEPT ![Least(job["run"].left)] =
                        [@ EXCEPT !.status = "CLAIMING", !.id = job["run"].id]]
        BY <3>2 DEF RunOwn
      <4>. QED  BY <1>1, <2>1, <4>1 DEF TypeOK, Trades, ClaimStatuses
    <3>. QED  BY <1>4, <3>1, <3>2
  <2>. QED  BY <1>1, <1>4, <2>2 DEF TypeOK, RunMark, RunOwn
<1>5. CASE RunInsert \/ RunPrepare \/ RunUnprepared
  <2>1. claim' \in [Ids -> [status : RowStatuses, epochs : SUBSET Epochs]]
    <3>1. CASE RunInsert
      BY <1>1, <3>1 DEF TypeOK, Jobs, RowStatuses, RunInsert
    <3>2. CASE RunPrepare \/ RunUnprepared
      BY <1>1, <3>2 DEF TypeOK, RowStatuses, RunPrepare, RunUnprepared
    <3>. QED  BY <1>5, <3>1, <3>2
  <2>. QED  BY <1>1, <1>5, <2>1, BoundsAssumption DEF TypeOK, RunInsert, RunPrepare, RunUnprepared,
       Fault
<1>6. CASE RunBroadcast
  <2>1. contested' \in BOOLEAN
    BY <1>1, <1>6 DEF TypeOK, RunBroadcast, Begin
  <2>. QED  BY <1>1, <1>6, <2>1, BoundsAssumption DEF TypeOK, RunBroadcast, Fault
<1>7. ASSUME NEW t \in Tasks, ChargeGas(t) \/ ResolveTrade(t)
      PROVE  TypeOK'
  <2>1. Least(job[t].left) \in Epochs
    BY <1>1, <1>7, LeastEpoch DEF TypeOK, ChargeGas, ResolveTrade, Inv, Applying
  <2>2. trade' \in [Epochs -> Trades]
    <3>1. CASE ChargeGas(t)
      <4>. DEFINE g == job[t].gas[Least(job[t].left)]
      <4>1. g \in Shares /\ job[t].id \in Ids
        BY <1>1, <2>1, <3>1 DEF TypeOK, Jobs, ChargeGas, Inv, Applying
      <4>2. [g EXCEPT ![job[t].id] = @ + 1] \in Shares
        BY <4>1, OneMore
      <4>3. trade' = [trade EXCEPT ![Least(job[t].left)] =
                        [@ EXCEPT !.gas = [g EXCEPT ![job[t].id] = @ + 1]]]
        BY <3>1 DEF ChargeGas
      <4>. HIDE DEF g
      <4>. QED  BY <1>1, <2>1, <4>2, <4>3 DEF TypeOK, Trades
    <3>2. CASE ResolveTrade(t)
      BY <1>1, <2>1, <3>2 DEF TypeOK, Trades, ClaimStatuses, ResolveTrade, Resolved
    <3>. QED  BY <1>7, <3>1, <3>2
  <2>. QED  BY <1>1, <1>7, <2>2 DEF TypeOK, ChargeGas, ResolveTrade
<1>8. ASSUME NEW t \in Tasks, CloseClaim(t)
      PROVE  TypeOK'
  <2>1. claim' \in [Ids -> [status : RowStatuses, epochs : SUBSET Epochs]]
    <3>1. job[t].out \in RowStatuses
      BY <1>1 DEF TypeOK, Jobs, RowStatuses
    <3>. QED  BY <1>1, <1>8, <3>1 DEF TypeOK, CloseClaim
  <2>. QED  BY <1>1, <1>8, <2>1 DEF TypeOK, CloseClaim
<1>9. CASE ReconcileClaim
  <2>1. claim' \in [Ids -> [status : RowStatuses, epochs : SUBSET Epochs]]
    BY <1>1, <1>9 DEF TypeOK, RowStatuses, ReconcileClaim
  <2>. QED  BY <1>1, <1>9, <2>1 DEF TypeOK, ReconcileClaim, Begin
<1>10. ASSUME NEW dead \in SUBSET Tasks, Die(dead)
      PROVE  TypeOK'
  <2>1. ASSUME NEW t \in Tasks, job[t].at = "trades"
        PROVE  job[t].id \in Ids
    BY <2>1 DEF Inv, Applying
  <2>. QED  BY <1>1, <1>10, <2>1, BoundsAssumption DEF TypeOK, Die, Fault
<1>. QED
  BY <1>2, <1>3, <1>4, <1>5, <1>6, <1>7, <1>8, <1>9, <1>10 DEF Next, Run, Reconcile, Apply,
       Finished, Tasks

-----------------------------------------------------------------------------
\* The rest of the invariant, step by step.

\* A trade that is being claimed is in somebody's hands.
TrackedTrade(e) ==
  \/ claim[trade[e].id].status = "SUBMITTED"
  \/ \E t \in Tasks : job[t].at = "trades" /\ job[t].id = trade[e].id /\ e \in job[t].left
  \/ trade[e].id \in torn

\* The invariant without the types.
Safe ==
  /\ PaidBySuccess /\ NotBefore /\ Attached /\ Prepared
  /\ \A t \in Tasks : Applying(t)
  /\ ClaimedIsPaid /\ ClaimingIsTracked

\* The run marks a trade the contract has already paid.
LEMMA MarkKeeps ==
  ASSUME Inv, RunMark
  PROVE  Safe'
<1>1. TypeOK /\ Safe /\ job \in [Tasks -> Jobs]
  BY DEF Inv, Safe, TypeOK
<1>2. PICK e \in job["run"].left : e = Least(job["run"].left) /\ e \in Epochs
  BY <1>1, LeastEpoch DEF RunMark, Tasks, Jobs, Safe, Prepared
<1>3. /\ \A u \in Tasks : u # "run" => job'[u] = job[u]
      /\ \/ job'["run"] = Idle
         \/ /\ job'["run"].at = "mark" /\ job'["run"].id = job["run"].id
            /\ job'["run"].left = job["run"].left \ {e}
            /\ job'["run"].left # {}
         \/ /\ job'["run"].at = "insert" /\ job'["run"].id = job["run"].id
            /\ job'["run"].trades = job["run"].trades /\ job["run"].trades # {}
  <2>. DEFINE j == [job["run"] EXCEPT !.left = @ \ {e}]
  <2>1. /\ job'["run"] = IF job["run"].left = {e} /\ job["run"].trades = {} THEN Idle
                         ELSE Then(j, "insert")
        /\ \A u \in Tasks : u # "run" => job'[u] = job[u]
    BY <1>1, <1>2, DoEffect DEF RunMark, Tasks
  <2>. QED  BY <1>1, <1>2, <2>1 DEF RunMark, Then
<1>4. /\ trade'[e].status = "CLAIMED" /\ trade'[e].id = trade[e].id /\ trade'[e].gas = trade[e].gas
      /\ \A d \in Epochs : d # e => trade'[d] = trade[d]
      /\ UNCHANGED <<paid, tx, claim, list, old, torn>>
  BY <1>1, <1>2 DEF RunMark, TypeOK
<1>5. /\ \A d \in Epochs : trade'[d].id = trade[d].id /\ trade'[d].gas = trade[d].gas
      /\ e \in paid /\ job["run"].at = "mark"
  BY <1>1, <1>2, <1>4 DEF RunMark, Safe, Prepared
<1>6. PaidBySuccess'
  BY <1>1, <1>2, <1>3, <1>4, <1>5 DEF Safe, PaidBySuccess
<1>7. NotBefore'
  BY <1>1, <1>2, <1>3, <1>4, <1>5 DEF Idle, Trades, Ids, Safe, NotBefore, Rows
<1>8. Attached'
  BY <1>1, <1>2, <1>3, <1>4, <1>5 DEF Safe, Attached
<1>9. Prepared'
  BY <1>1, <1>2, <1>3, <1>4, <1>5, ZeroNotOld DEF Idle, Safe, Prepared, Rows
<1>10. (\A u \in Tasks : Applying(u))'
  <2>1. Applying("run")'
    BY <1>1, <1>3, <1>4, <1>5 DEF Idle, Safe, Applying
  <2>2. Applying("reconciler")'
    BY <1>1, <1>3, <1>4, <1>5 DEF Safe, Tasks, Jobs, Applying
  <2>. QED  BY <2>1, <2>2 DEF Tasks
<1>11. ClaimedIsPaid'
  BY <1>1, <1>2, <1>3, <1>4, <1>5 DEF Safe, ClaimedIsPaid
<1>12. ClaimingIsTracked'
  <2>. SUFFICES ASSUME NEW d \in Epochs, trade'[d].status = "CLAIMING"
                PROVE  TrackedTrade(d)'
    BY DEF ClaimingIsTracked, TrackedTrade
  <2>1. d # e /\ trade'[d] = trade[d] /\ TrackedTrade(d)
    BY <1>1, <1>4 DEF Safe, ClaimingIsTracked, TrackedTrade
  <2>. QED  BY <1>3, <1>4, <1>5, <2>1 DEF TrackedTrade
<1>. QED  BY <1>6, <1>7, <1>8, <1>9, <1>10, <1>11, <1>12 DEF Safe

\* It asks which of its trades those are.
LEMMA CheckKeeps ==
  ASSUME Inv, RunCheck
  PROVE  Safe'
<1>1. TypeOK /\ Safe /\ job \in [Tasks -> Jobs]
  BY DEF Inv, Safe, TypeOK
<1>2. PaidAlready(job["run"]) \subseteq paid
  BY <1>1 DEF PaidAlready, Claimable, Tasks, Jobs
<1>3. /\ \A u \in Tasks : u # "run" => job'[u] = job[u]
      /\ job'["run"].id = job["run"].id
      /\ \/ /\ job'["run"].at = "mark"
            /\ job'["run"].left = PaidAlready(job["run"])
            /\ job'["run"].left # {}
         \/ /\ job'["run"].at = "insert"
            /\ job'["run"].trades = job["run"].trades /\ job["run"].trades # {}
  BY <1>1 DEF RunCheck, PaidAlready, Tasks, Do, Then, Safe, Prepared
<1>4. PaidBySuccess'
  BY <1>1, <1>2, <1>3 DEF RunCheck, Safe, PaidBySuccess
<1>5. NotBefore'
  BY <1>1, <1>2, <1>3 DEF RunCheck, Safe, NotBefore, Rows
<1>6. Attached'
  BY <1>1, <1>2, <1>3 DEF RunCheck, Safe, Attached
<1>7. Prepared'
  BY <1>1, <1>2, <1>3 DEF RunCheck, Safe, Prepared, Rows
<1>8. (\A u \in Tasks : Applying(u))'
  BY <1>1, <1>2, <1>3 DEF RunCheck, Safe, Applying
<1>9. ClaimedIsPaid'
  BY <1>1, <1>2, <1>3 DEF RunCheck, Safe, ClaimedIsPaid
<1>10. ClaimingIsTracked'
  BY <1>1, <1>2, <1>3 DEF RunCheck, Safe, ClaimingIsTracked, Attached
<1>. QED  BY <1>4, <1>5, <1>6, <1>7, <1>8, <1>9, <1>10 DEF Safe

\* It inserts a row nothing referred to before.
LEMMA InsertKeeps ==
  ASSUME Inv, RunInsert
  PROVE  Safe'
<1>1. TypeOK /\ Safe /\ job \in [Tasks -> Jobs]
  BY DEF Inv, Safe, TypeOK
<1>2. PICK i \in Ids : i \notin Rows /\ i = Least(Ids \ Rows)
  BY <1>1, LeastId DEF RunInsert, Safe, Prepared, Rows
<1>3. /\ \A u \in Tasks : u # "run" => job'[u] = job[u]
      /\ job'["run"].at = "prepare" /\ job'["run"].id = i
      /\ job'["run"].trades = job["run"].trades
      /\ job["run"].at = "insert"
  <2>1. Do("run", [job["run"] EXCEPT !.at = "prepare", !.id = i]) /\ job["run"].at = "insert"
    BY <1>2 DEF RunInsert
  <2>. QED  BY <1>1, <2>1 DEF Do, Tasks
<1>4. /\ claim'[i].status = "PENDING" /\ claim'[i].epochs = job["run"].trades
      /\ \A k \in Ids : k # i => claim'[k] = claim[k]
      /\ claim[i].status = "none"
      /\ UNCHANGED <<paid, tx, trade, list, old, torn>>
  BY <1>1, <1>2 DEF RunInsert, TypeOK, Rows
<1>5. /\ tx[i] = "none" /\ i \notin old
      /\ \A e \in Epochs : trade[e].id # i
      /\ \A t \in Tasks : job[t].id # i
  BY <1>1, <1>2 DEF Safe, NotBefore
<1>6. PaidBySuccess'
  BY <1>1, <1>3, <1>4, <1>5 DEF Safe, PaidBySuccess
<1>7. NotBefore'
  BY <1>1, <1>3, <1>4, <1>5 DEF Safe, NotBefore, Rows
<1>8. Attached'
  BY <1>1, <1>3, <1>4, <1>5 DEF Trades, TypeOK, Safe, Attached
<1>9. Prepared'
  BY <1>1, <1>3, <1>4, <1>5 DEF Tasks, Safe, Prepared
<1>10. (\A u \in Tasks : Applying(u))'
  BY <1>1, <1>3, <1>4, <1>5 DEF Safe, Applying
<1>11. ClaimedIsPaid'
  BY <1>1, <1>3, <1>4, <1>5 DEF Safe, ClaimedIsPaid
<1>12. ClaimingIsTracked'
  BY <1>1, <1>3, <1>4, <1>5 DEF Trades, TypeOK, Tasks, Safe, ClaimingIsTracked, Attached
<1>. QED  BY <1>6, <1>7, <1>8, <1>9, <1>10, <1>11, <1>12 DEF Safe

\* The claim is SUBMITTED before a trade is attached to it and before it is sent,
LEMMA PrepareKeeps ==
  ASSUME Inv, RunPrepare
  PROVE  Safe'
<1>1. TypeOK /\ Safe /\ job \in [Tasks -> Jobs]
  BY DEF Inv, Safe, TypeOK
<1>2. /\ \A u \in Tasks : u # "run" => job'[u] = job[u]
      /\ job'["run"].at = "own" /\ job'["run"].id = job["run"].id
      /\ job'["run"].trades = job["run"].trades
      /\ job'["run"].left = job["run"].trades
      /\ job["run"].at = "prepare"
  BY <1>1 DEF RunPrepare, Do, Tasks
<1>3. /\ claim'[job["run"].id].status = "SUBMITTED"
      /\ \A k \in Ids : claim'[k].epochs = claim[k].epochs
      /\ \A k \in Ids : k # job["run"].id => claim'[k] = claim[k]
      /\ UNCHANGED <<paid, tx, trade, list, old, torn>>
  BY <1>1 DEF RunPrepare, TypeOK, Safe, Prepared
<1>4. PaidBySuccess'
  BY <1>1, <1>2, <1>3 DEF Safe, PaidBySuccess
<1>5. NotBefore'
  BY <1>1, <1>2, <1>3 DEF Safe, NotBefore, Rows
<1>6. Attached'
  BY <1>1, <1>2, <1>3 DEF Trades, TypeOK, Safe, Attached
<1>7. Prepared'
  BY <1>1, <1>2, <1>3 DEF Tasks, Safe, Prepared
<1>8. (\A u \in Tasks : Applying(u))'
  BY <1>1, <1>2, <1>3 DEF Safe, Applying
<1>9. ClaimedIsPaid'
  BY <1>1, <1>2, <1>3 DEF Safe, ClaimedIsPaid
<1>10. ClaimingIsTracked'
  BY <1>1, <1>2, <1>3 DEF Trades, TypeOK, Tasks, Safe, ClaimingIsTracked, Attached
<1>. QED  BY <1>4, <1>5, <1>6, <1>7, <1>8, <1>9, <1>10 DEF Safe

\* or FAILED.
LEMMA UnpreparedKeeps ==
  ASSUME Inv, RunUnprepared
  PROVE  Safe'
<1>1. TypeOK /\ Safe /\ job \in [Tasks -> Jobs]
  BY DEF Inv, Safe, TypeOK
<1>2. /\ \A u \in Tasks : u # "run" => job'[u] = job[u]
      /\ job'["run"] = Idle
      /\ job["run"].at = "prepare"
  BY <1>1, DoEffect DEF RunUnprepared, Tasks
<1>3. /\ claim'[job["run"].id].status = "FAILED"
      /\ \A k \in Ids : claim'[k].epochs = claim[k].epochs
      /\ \A k \in Ids : k # job["run"].id => claim'[k] = claim[k]
      /\ UNCHANGED <<paid, tx, trade, list, old, torn>>
  BY <1>1 DEF RunUnprepared, TypeOK, Safe, Prepared
<1>4. job["run"].id \in Ids /\ claim[job["run"].id].status = "PENDING"
  BY <1>1, <1>2 DEF Safe, Prepared
<1>5. PaidBySuccess'
  BY <1>1, <1>2, <1>3, <1>4 DEF Safe, PaidBySuccess
<1>6. NotBefore'
  <2>. SUFFICES ASSUME NEW i \in Ids, claim'[i].status = "none"
                PROVE  /\ tx'[i] = "none" /\ i \notin old'
                       /\ \A e \in Epochs : trade'[e].id # i
                       /\ \A t \in Tasks : job'[t].id # i
    BY DEF NotBefore, Rows
  <2>1. claim[i].status = "none"
    BY <1>3
  <2>. QED  BY <1>1, <1>2, <1>3, <2>1 DEF Safe, NotBefore, Rows, Idle, Ids
<1>7. Attached'
  BY <1>1, <1>2, <1>3, <1>4 DEF Trades, TypeOK, Safe, Attached
<1>8. Prepared'
  BY <1>1, <1>2, <1>3, <1>4, ZeroNotOld DEF Idle, Safe, Prepared
<1>9. (\A u \in Tasks : Applying(u))'
  BY <1>1, <1>2, <1>3, <1>4 DEF Idle, Safe, Applying
<1>10. ClaimedIsPaid'
  BY <1>1, <1>2, <1>3, <1>4 DEF Safe, ClaimedIsPaid
<1>11. ClaimingIsTracked'
  BY <1>1, <1>2, <1>3, <1>4 DEF Trades, TypeOK, Safe, ClaimingIsTracked, Attached
<1>. QED  BY <1>5, <1>6, <1>7, <1>8, <1>9, <1>10, <1>11 DEF Safe

\* A trade becomes CLAIMING, attached to the run's claim: nobody else applies that one.
LEMMA OwnKeeps ==
  ASSUME Inv, RunOwn
  PROVE  Safe'
<1>1. TypeOK /\ Safe /\ job \in [Tasks -> Jobs]
  BY DEF Inv, Safe, TypeOK
<1>2. PICK e \in job["run"].left : e = Least(job["run"].left) /\ e \in Epochs
  BY <1>1, LeastEpoch DEF RunOwn, Tasks, Jobs, Safe, Prepared
<1>3. /\ \A u \in Tasks : u # "run" => job'[u] = job[u]
      /\ job'["run"].id = job["run"].id /\ job'["run"].trades = job["run"].trades
      /\ job["run"].at = "own"
      /\ \/ /\ job'["run"].at = "own" /\ job'["run"].left = job["run"].left \ {e}
            /\ job'["run"].left # {}
         \/ job'["run"].at = "broadcast"
  <2>. DEFINE j == [job["run"] EXCEPT !.left = @ \ {e}]
  <2>1. /\ job'["run"] = Then(j, "broadcast")
        /\ \A u \in Tasks : u # "run" => job'[u] = job[u]
    BY <1>1, <1>2, DoEffect DEF RunOwn, Tasks
  <2>. QED  BY <1>1, <1>2, <2>1 DEF RunOwn, Then
<1>4. /\ trade'[e].status = "CLAIMING" /\ trade'[e].id = job["run"].id
      /\ trade'[e].gas = trade[e].gas
      /\ \A d \in Epochs : d # e => trade'[d] = trade[d]
      /\ UNCHANGED <<paid, tx, claim, list, old, torn>>
  <2>1. trade' = [trade EXCEPT ![e] = [@ EXCEPT !.status = "CLAIMING", !.id = job["run"].id]]
    BY <1>2 DEF RunOwn
  <2>. QED  BY <1>1, <1>2, <2>1 DEF RunOwn, TypeOK
<1>5. LET i == job["run"].id IN
      /\ i \in Ids /\ e \in claim[i].epochs /\ claim[i].status = "SUBMITTED"
      /\ claim[i].epochs = job["run"].trades
      /\ job["reconciler"].id # i /\ i \notin old /\ tx[i] = "none"
  BY <1>1, <1>2, <1>3 DEF Safe, Prepared
<1>6. PaidBySuccess'
  BY <1>1, <1>2, <1>3, <1>4, <1>5 DEF Safe, PaidBySuccess
<1>7. NotBefore'
  BY <1>1, <1>2, <1>3, <1>4, <1>5 DEF Safe, NotBefore, Rows
<1>8. Attached'
  <2>. SUFFICES ASSUME NEW d \in Epochs
                PROVE  /\ trade'[d].id # 0 => d \in claim[trade'[d].id].epochs
                       /\ trade'[d].status = "CLAIMING" => trade'[d].id # 0
                       /\ trade'[d].status \in {"NONE", "UNCLAIMED"} => trade'[d].id = 0
    BY <1>4 DEF Attached
  <2>1. CASE d = e
    BY <1>4, <1>5, <2>1 DEF Ids
  <2>2. CASE d # e
    BY <1>1, <1>4, <2>2 DEF Safe, Attached
  <2>. QED  BY <2>1, <2>2
<1>9. Prepared'
  BY <1>1, <1>2, <1>3, <1>4, <1>5 DEF Tasks, Safe, Prepared
<1>10. (\A u \in Tasks : Applying(u))'
  <2>1. Applying("run")'
    BY <1>1, <1>3, <1>4, <1>5 DEF Safe, Applying
  <2>2. Applying("reconciler")'
    BY <1>1, <1>3, <1>4, <1>5 DEF Safe, Tasks, Jobs, Applying
  <2>. QED  BY <2>1, <2>2 DEF Tasks
<1>11. ClaimedIsPaid'
  BY <1>1, <1>2, <1>3, <1>4, <1>5 DEF Safe, ClaimedIsPaid
<1>12. ClaimingIsTracked'
  BY <1>1, <1>2, <1>3, <1>4, <1>5 DEF Safe, ClaimingIsTracked, Attached
<1>. QED  BY <1>6, <1>7, <1>8, <1>9, <1>10, <1>11, <1>12 DEF Safe

\* The claim is sent, or lost, or refused.
LEMMA BroadcastKeeps ==
  ASSUME Inv, RunBroadcast
  PROVE  Safe'
<1>1. TypeOK /\ Safe /\ job \in [Tasks -> Jobs]
  BY DEF Inv, Safe, TypeOK
<1>2. /\ \A u \in Tasks : u # "run" => job'[u] = job[u]
      /\ job["run"].at = "broadcast"
      /\ job'["run"].id = job["run"].id /\ job'["run"].trades = job["run"].trades
      /\ \/ job'["run"].at = "wait"
         \/ job'["run"].at = "close" /\ job'["run"].out = "FAILED"
  BY <1>1 DEF RunBroadcast, Begin, Do, Tasks, Jobs
<1>3. /\ \A k \in Ids : k # job["run"].id => tx'[k] = tx[k]
      /\ tx'[job["run"].id] = tx[job["run"].id] \/ tx'[job["run"].id] = "mempool"
      /\ UNCHANGED <<paid, trade, claim, list, old, torn>>
  BY <1>1 DEF RunBroadcast, TypeOK, Safe, Prepared
<1>4. LET i == job["run"].id IN
      /\ i \in Ids /\ claim[i].epochs = job["run"].trades
      /\ job["reconciler"].id # i /\ i \notin old /\ tx[i] = "none"
  BY <1>1, <1>2 DEF Safe, Prepared
<1>5. PaidBySuccess'
  BY <1>1, <1>2, <1>3, <1>4 DEF Safe, PaidBySuccess
<1>6. NotBefore'
  BY <1>1, <1>2, <1>3, <1>4 DEF Tasks, Safe, NotBefore, Rows
<1>7. Attached'
  BY <1>1, <1>2, <1>3, <1>4 DEF Safe, Attached
<1>8. Prepared'
  BY <1>1, <1>2, <1>3, <1>4 DEF Safe, Prepared
<1>9. (\A u \in Tasks : Applying(u))'
  <2>1. Applying("run")'
    BY <1>1, <1>2, <1>3, <1>4 DEF Safe, Attached, Ids, Applying
  <2>2. Applying("reconciler")'
    BY <1>1, <1>2, <1>3, <1>4 DEF Safe, Tasks, Attached, Applying
  <2>. QED  BY <2>1, <2>2 DEF Tasks
<1>10. ClaimedIsPaid'
  BY <1>1, <1>2, <1>3, <1>4 DEF Safe, ClaimedIsPaid
<1>11. ClaimingIsTracked'
  BY <1>1, <1>2, <1>3, <1>4 DEF Safe, ClaimingIsTracked, Attached
<1>. QED  BY <1>5, <1>6, <1>7, <1>8, <1>9, <1>10, <1>11 DEF Safe

\* The receipt of a claim makes a task that knows its trades.
LEMMA ReceiptEffect ==
  ASSUME TypeOK, NEW i \in Ids
  PROVE  LET r == Receipt(i) IN
         /\ r.id = i /\ r.trades = TradesOf(i)
         /\ r.out = IF tx[i] = "success" THEN "CONFIRMED" ELSE "FAILED"
         /\ \/ r.at = "gas" /\ r.left = TradesOf(i) /\ TradesOf(i) # {}
            \/ r.at = "close" /\ TradesOf(i) = {}
BY DEF Receipt, Then

\* It knows every trade attached to the claim.
LEMMA ReceiptApplies ==
  ASSUME Inv, NEW t \in Tasks, NEW i \in Ids, job'[t] = Receipt(i),
         UNCHANGED <<tx, trade, claim>>
  PROVE  Applying(t)'
<1>1. TypeOK /\ Attached
  BY DEF Inv
<1>2. \A e \in Epochs : trade[e].id = i => e \in TradesOf(i)
  BY <1>1 DEF Attached, TradesOf, Ids
<1>3. TradesOf(i) \subseteq claim[i].epochs
  BY DEF TradesOf
<1>. DEFINE r == Receipt(i)
<1>4. /\ r.id = i /\ r.trades = TradesOf(i)
      /\ r.out = "CONFIRMED" => tx[i] = "success"
      /\ \/ r.at = "gas" /\ r.left = TradesOf(i) /\ TradesOf(i) # {}
         \/ r.at = "close" /\ TradesOf(i) = {}
  BY <1>1, ReceiptEffect
<1>. HIDE DEF r
<1>5. job'[t] = r
  BY DEF r
<1>. QED  BY <1>2, <1>3, <1>4, <1>5 DEF Applying

\* Outside the process: a trade is settled,
LEMMA SettleKeeps ==
  ASSUME Inv, NEW e \in Epochs, Settle(e)
  PROVE  Safe'
<1>1. TypeOK /\ Safe /\ job \in [Tasks -> Jobs]
  BY DEF Inv, Safe, TypeOK
<1>2. PaidBySuccess'
  BY <1>1 DEF Settle, Safe, PaidBySuccess
<1>3. NotBefore'
  BY <1>1 DEF Settle, Safe, NotBefore, Rows
<1>4. Attached'
  BY <1>1 DEF Settle, Safe, Attached
<1>5. Prepared'
  BY <1>1 DEF Settle, Safe, Prepared, Rows
<1>6. (\A u \in Tasks : Applying(u))'
  BY <1>1 DEF Settle, Safe, Applying
<1>7. ClaimedIsPaid'
  BY <1>1 DEF Settle, Safe, ClaimedIsPaid
<1>8. ClaimingIsTracked'
  BY <1>1 DEF Settle, Safe, ClaimingIsTracked, Attached
<1>. QED  BY <1>2, <1>3, <1>4, <1>5, <1>6, <1>7, <1>8 DEF Safe

\* a claim is mined,
LEMMA MineKeeps ==
  ASSUME Inv, NEW i \in Ids, Mine(i)
  PROVE  Safe'
<1>1. TypeOK /\ Safe /\ job \in [Tasks -> Jobs]
  BY DEF Inv, Safe, TypeOK
<1>2. PaidBySuccess'
  BY <1>1 DEF Mine, TypeOK, Safe, PaidBySuccess
<1>3. NotBefore'
  BY <1>1 DEF Mine, TypeOK, Safe, NotBefore, Rows
<1>4. Attached'
  BY <1>1 DEF Mine, Safe, Attached
<1>5. Prepared'
  BY <1>1 DEF Mine, TypeOK, Safe, Prepared, Rows
<1>6. (\A u \in Tasks : Applying(u))'
  BY <1>1 DEF Mine, TypeOK, Safe, Applying
<1>7. ClaimedIsPaid'
  BY <1>1 DEF Mine, Safe, ClaimedIsPaid
<1>8. ClaimingIsTracked'
  BY <1>1 DEF Mine, Safe, ClaimingIsTracked, Attached
<1>. QED  BY <1>2, <1>3, <1>4, <1>5, <1>6, <1>7, <1>8 DEF Safe

\* a round is claimed elsewhere,
LEMMA ClaimOutsideKeeps ==
  ASSUME Inv, NEW e \in Epochs, ClaimOutside(e)
  PROVE  Safe'
<1>1. TypeOK /\ Safe /\ job \in [Tasks -> Jobs]
  BY DEF Inv, Safe, TypeOK
<1>2. PaidBySuccess'
  BY <1>1 DEF ClaimOutside, Safe, PaidBySuccess
<1>3. NotBefore'
  BY <1>1 DEF ClaimOutside, Safe, NotBefore, Rows
<1>4. Attached'
  BY <1>1 DEF ClaimOutside, Safe, Attached
<1>5. Prepared'
  BY <1>1 DEF ClaimOutside, Safe, Prepared, Rows
<1>6. (\A u \in Tasks : Applying(u))'
  BY <1>1 DEF ClaimOutside, Safe, Applying
<1>7. ClaimedIsPaid'
  BY <1>1 DEF ClaimOutside, Safe, ClaimedIsPaid
<1>8. ClaimingIsTracked'
  BY <1>1 DEF ClaimOutside, Safe, ClaimingIsTracked, Attached
<1>. QED  BY <1>2, <1>3, <1>4, <1>5, <1>6, <1>7, <1>8 DEF Safe

\* the wallet sync meets a paid one,
LEMMA SyncClaimedKeeps ==
  ASSUME Inv, NEW e \in Epochs, SyncClaimed(e)
  PROVE  Safe'
<1>1. TypeOK /\ Safe /\ job \in [Tasks -> Jobs]
  BY DEF Inv, Safe, TypeOK
<1>2. PaidBySuccess'
  BY <1>1 DEF SyncClaimed, Safe, PaidBySuccess
<1>3. NotBefore'
  BY <1>1 DEF SyncClaimed, Safe, NotBefore, Rows
<1>4. Attached'
  BY <1>1 DEF SyncClaimed, Safe, Attached
<1>5. Prepared'
  BY <1>1 DEF SyncClaimed, Safe, Prepared, Rows
<1>6. (\A u \in Tasks : Applying(u))'
  BY <1>1 DEF SyncClaimed, Safe, Applying
<1>7. ClaimedIsPaid'
  BY <1>1 DEF SyncClaimed, Safe, ClaimedIsPaid
<1>8. ClaimingIsTracked'
  BY <1>1 DEF SyncClaimed, Safe, ClaimingIsTracked, Attached
<1>. QED  BY <1>2, <1>3, <1>4, <1>5, <1>6, <1>7, <1>8 DEF Safe

\* and time passes, but not for the claim of the run.
LEMMA AgeKeeps ==
  ASSUME Inv, NEW i \in Ids, Age(i)
  PROVE  Safe'
<1>1. TypeOK /\ Safe /\ job \in [Tasks -> Jobs]
  BY DEF Inv, Safe, TypeOK
<1>2. /\ \A k \in old' : k \in old \/ k = i
      /\ UNCHANGED <<paid, tx, trade, claim, job, list, torn>>
      /\ job["run"].id # i /\ claim[i].status # "none"
  BY DEF Age, OpenClaims
<1>3. PaidBySuccess'
  BY <1>1, <1>2 DEF Safe, PaidBySuccess
<1>4. NotBefore'
  BY <1>1, <1>2 DEF Safe, NotBefore, Rows
<1>5. Attached'
  BY <1>1, <1>2 DEF Safe, Attached
<1>6. Prepared'
  BY <1>1, <1>2 DEF Safe, Prepared, Rows
<1>7. (\A u \in Tasks : Applying(u))'
  BY <1>1, <1>2 DEF Safe, Applying
<1>8. ClaimedIsPaid'
  BY <1>1, <1>2 DEF Safe, ClaimedIsPaid
<1>9. ClaimingIsTracked'
  BY <1>1, <1>2 DEF Safe, ClaimingIsTracked, Attached
<1>. QED  BY <1>3, <1>4, <1>5, <1>6, <1>7, <1>8, <1>9 DEF Safe

\* A run starts with the unclaimed trades.
LEMMA StartKeeps ==
  ASSUME Inv, RunStart
  PROVE  Safe'
<1>1. TypeOK /\ Safe /\ job \in [Tasks -> Jobs]
  BY DEF Inv, Safe, TypeOK
<1>2. PaidBySuccess'
  BY <1>1 DEF RunStart, Do, Safe, PaidBySuccess
<1>3. NotBefore'
  BY <1>1 DEF RunStart, Do, Idle, Ids, Safe, NotBefore, Rows
<1>4. Attached'
  BY <1>1 DEF RunStart, Do, Safe, Attached
<1>5. Prepared'
  BY <1>1, ZeroNotOld DEF RunStart, Do, Idle, Safe, Prepared, Rows
<1>6. (\A u \in Tasks : Applying(u))'
  BY <1>1 DEF RunStart, Do, Safe, Applying
<1>7. ClaimedIsPaid'
  BY <1>1 DEF RunStart, Do, Safe, ClaimedIsPaid
<1>8. ClaimingIsTracked'
  BY <1>1 DEF RunStart, Do, Safe, ClaimingIsTracked, Attached
<1>. QED  BY <1>2, <1>3, <1>4, <1>5, <1>6, <1>7, <1>8 DEF Safe

\* The gate of the run opens or closes.
LEMMA GateKeeps ==
  ASSUME Inv, Gate
  PROVE  Safe'
<1>1. Safe /\ UNCHANGED <<paid, tx, trade, claim, job, old, torn>>
  BY DEF Gate, Inv, Safe
<1>2. PaidBySuccess' /\ NotBefore' /\ Attached'
  BY <1>1 DEF Safe, PaidBySuccess, NotBefore, Attached, Rows
<1>3. Prepared' /\ (\A u \in Tasks : Applying(u))'
  BY <1>1 DEF Safe, Prepared, Applying, Rows
<1>4. ClaimedIsPaid' /\ ClaimingIsTracked'
  BY <1>1 DEF Safe, ClaimedIsPaid, ClaimingIsTracked
<1>. QED  BY <1>2, <1>3, <1>4 DEF Safe

\* It has a receipt, or gives up waiting.
LEMMA WaitKeeps ==
  ASSUME Inv, RunWait
  PROVE  Safe'
<1>1. TypeOK /\ Safe /\ job \in [Tasks -> Jobs]
  BY DEF Inv, Safe, TypeOK
<1>2. /\ \A u \in Tasks : u # "run" => job'[u] = job[u]
      /\ job["run"].at = "wait" /\ job["run"].id \in Ids
      /\ \/ job'["run"] = Idle
         \/ job'["run"] = Receipt(job["run"].id)
      /\ UNCHANGED <<paid, tx, trade, claim, list, old, torn>>
  BY <1>1, DoEffect DEF RunWait, Begin, Tasks, Safe, Prepared
<1>3. \/ job'["run"] = Idle
      \/ /\ job'["run"].id = job["run"].id
         /\ job'["run"].at \in {"gas", "close"}
  BY <1>1, <1>2, ReceiptEffect
<1>4. PaidBySuccess'
  BY <1>1, <1>2, <1>3 DEF Safe, PaidBySuccess
<1>5. NotBefore'
  BY <1>1, <1>2, <1>3 DEF Idle, Ids, Safe, NotBefore, Rows
<1>6. Attached'
  BY <1>1, <1>2, <1>3 DEF Safe, Attached
<1>7. Prepared'
  BY <1>1, <1>2, <1>3, ZeroNotOld DEF Idle, Safe, Prepared
<1>8. (\A u \in Tasks : Applying(u))'
  <2>1. Applying("run")'
    <3>1. CASE job'["run"] = Idle
      BY <3>1 DEF Applying, Idle
    <3>2. CASE job'["run"] = Receipt(job["run"].id)
      BY <1>2, <3>2, ReceiptApplies DEF Tasks
    <3>. QED  BY <1>2, <3>1, <3>2
  <2>2. Applying("reconciler")'
    BY <1>1, <1>2 DEF Applying, Safe, Tasks
  <2>. QED  BY <2>1, <2>2 DEF Tasks
<1>9. ClaimedIsPaid'
  BY <1>1, <1>2, <1>3 DEF Safe, ClaimedIsPaid
<1>10. ClaimingIsTracked'
  BY <1>1, <1>2, <1>3 DEF Safe, ClaimingIsTracked, Attached
<1>. QED  BY <1>4, <1>5, <1>6, <1>7, <1>8, <1>9, <1>10 DEF Safe

\* A pass of the reconciler starts.
LEMMA ReconcileStartKeeps ==
  ASSUME Inv, ReconcileStart
  PROVE  Safe'
<1>1. TypeOK /\ Safe /\ job \in [Tasks -> Jobs]
  BY DEF Inv, Safe, TypeOK
<1>2. PaidBySuccess'
  BY <1>1 DEF ReconcileStart, Safe, PaidBySuccess
<1>3. NotBefore'
  BY <1>1 DEF ReconcileStart, Safe, NotBefore, Rows
<1>4. Attached'
  BY <1>1 DEF ReconcileStart, Safe, Attached
<1>5. Prepared'
  BY <1>1 DEF ReconcileStart, Safe, Prepared, Rows
<1>6. (\A u \in Tasks : Applying(u))'
  BY <1>1 DEF ReconcileStart, Safe, Applying
<1>7. ClaimedIsPaid'
  BY <1>1 DEF ReconcileStart, Safe, ClaimedIsPaid
<1>8. ClaimingIsTracked'
  BY <1>1 DEF ReconcileStart, Safe, ClaimingIsTracked, Attached
<1>. QED  BY <1>2, <1>3, <1>4, <1>5, <1>6, <1>7, <1>8 DEF Safe

\* A task that dies between its trades leaves a torn claim.
LEMMA DieKeeps ==
  ASSUME Inv, NEW dead \in SUBSET Tasks, Die(dead)
  PROVE  Safe'
<1>1. TypeOK /\ Safe /\ job \in [Tasks -> Jobs]
  BY DEF Inv, Safe, TypeOK
<1>2. /\ \A t \in Tasks : job'[t] = Idle \/ job'[t] = job[t]
      /\ \A t \in Tasks : job[t].at = "trades" => job'[t] = job[t] \/ job[t].id \in torn'
      /\ torn \subseteq torn'
      /\ UNCHANGED <<paid, tx, trade, claim, old>>
  BY DEF Die
<1>3. PaidBySuccess'
  BY <1>1, <1>2 DEF Safe, PaidBySuccess
<1>4. NotBefore'
  BY <1>1, <1>2 DEF Idle, Ids, Safe, NotBefore, Rows
<1>5. Attached'
  BY <1>1, <1>2 DEF Safe, Attached
<1>6. Prepared'
  BY <1>1, <1>2, ZeroNotOld DEF Idle, Ids, Tasks, Safe, Prepared, Rows
<1>7. (\A u \in Tasks : Applying(u))'
  BY <1>1, <1>2 DEF Idle, Safe, Applying
<1>8. ClaimedIsPaid'
  BY <1>1, <1>2 DEF Safe, ClaimedIsPaid
<1>9. ClaimingIsTracked'
  BY <1>1, <1>2 DEF Safe, ClaimingIsTracked, Attached
<1>. QED  BY <1>3, <1>4, <1>5, <1>6, <1>7, <1>8, <1>9 DEF Safe

\* A share of gas is charged: it stays charged whatever another task writes.
LEMMA ChargeKeeps ==
  ASSUME Inv, NEW t \in Tasks, ChargeGas(t)
  PROVE  Safe'
<1>1. TypeOK /\ Safe /\ job \in [Tasks -> Jobs]
  BY DEF Inv, Safe, TypeOK
<1>2. PICK e \in job[t].left : e = Least(job[t].left) /\ e \in Epochs
  BY <1>1, LeastEpoch DEF ChargeGas, Jobs, Safe, Applying
<1>3. /\ \A u \in Tasks : u # t => job'[u] = job[u]
      /\ job[t].at = "gas" /\ job'[t].id = job[t].id /\ job'[t].trades = job[t].trades
      /\ job'[t].out = job[t].out
      /\ \/ job'[t].at = "gas" /\ job'[t].left = job[t].left \ {e} /\ job'[t].left # {}
         \/ job'[t].at = "close" /\ job[t].left = {e}
  <2>. DEFINE j == [job[t] EXCEPT !.left = @ \ {e}]
  <2>1. /\ job'[t] = Then(j, "close")
        /\ \A u \in Tasks : u # t => job'[u] = job[u]
    BY <1>1, <1>2, DoEffect DEF ChargeGas
  <2>. QED  BY <1>1, <1>2, <2>1 DEF ChargeGas, Then
<1>4. /\ trade'[e].status = trade[e].status /\ trade'[e].id = trade[e].id
      /\ \A d \in Epochs : d # e => trade'[d] = trade[d]
      /\ UNCHANGED <<paid, tx, claim, list, old, torn>>
  BY <1>1, <1>2 DEF ChargeGas, TypeOK
<1>5. \A d \in Epochs : trade'[d].id = trade[d].id /\ trade'[d].status = trade[d].status
  BY <1>4
<1>6. PaidBySuccess'
  BY <1>1, <1>3, <1>4, <1>5 DEF Safe, PaidBySuccess
<1>7. NotBefore'
  BY <1>1, <1>3, <1>4, <1>5 DEF Safe, NotBefore, Rows
<1>8. Attached'
  BY <1>1, <1>3, <1>4, <1>5 DEF Safe, Attached
<1>9. Prepared'
  BY <1>1, <1>3, <1>4, <1>5 DEF Tasks, Safe, Prepared, Rows
<1>10. (\A u \in Tasks : Applying(u))'
  BY <1>1, <1>3, <1>4, <1>5 DEF TypeOK, Safe, Applying
<1>11. ClaimedIsPaid'
  BY <1>1, <1>3, <1>4, <1>5 DEF Safe, ClaimedIsPaid
<1>12. ClaimingIsTracked'
  BY <1>1, <1>3, <1>4, <1>5 DEF Safe, ClaimingIsTracked, Attached
<1>. QED  BY <1>6, <1>7, <1>8, <1>9, <1>10, <1>11, <1>12 DEF Safe

\* The row is closed: its trades are in the hands of the task.
LEMMA CloseKeeps ==
  ASSUME Inv, NEW t \in Tasks, CloseClaim(t)
  PROVE  Safe'
<1>1. TypeOK /\ Safe /\ job \in [Tasks -> Jobs]
  BY DEF Inv, Safe, TypeOK
<1>2. job[t].at = "close" /\ job[t].id \in Ids
  BY <1>1 DEF CloseClaim, Safe, Applying
<1>3. /\ \A u \in Tasks : u # t => job'[u] = job[u]
      /\ \/ job'[t] = Idle /\ job[t].trades = {}
         \/ /\ job'[t].at = "trades" /\ job'[t].id = job[t].id /\ job'[t].trades = job[t].trades
            /\ job'[t].left = job[t].trades /\ job[t].trades # {} /\ job'[t].out = job[t].out
  BY <1>1 DEF CloseClaim, Do
<1>4. /\ claim'[job[t].id].status = job[t].out /\ job[t].out \in {"CONFIRMED", "FAILED"}
      /\ \A k \in Ids : claim'[k].epochs = claim[k].epochs
      /\ \A k \in Ids : k # job[t].id => claim'[k] = claim[k]
      /\ old' \subseteq old
      /\ UNCHANGED <<paid, tx, trade, list, torn>>
  BY <1>1, <1>2 DEF CloseClaim, TypeOK, Jobs
<1>5. \A e \in Epochs : trade[e].id = job[t].id => e \in job[t].trades
  BY <1>1, <1>2 DEF Safe, Applying
<1>6. \A e \in Epochs : trade[e].id \in Ids \cup {0}
  BY <1>1 DEF TypeOK, Trades
<1>7. PaidBySuccess'
  BY <1>1, <1>4 DEF Safe, PaidBySuccess
<1>8. NotBefore'
  <2>. SUFFICES ASSUME NEW i \in Ids, claim'[i].status = "none"
                PROVE  /\ tx'[i] = "none" /\ i \notin old'
                       /\ \A e \in Epochs : trade'[e].id # i
                       /\ \A u \in Tasks : job'[u].id # i
    BY DEF NotBefore, Rows
  <2>1. claim[i].status = "none"
    BY <1>4
  <2>2. /\ tx[i] = "none" /\ i \notin old
        /\ \A e \in Epochs : trade[e].id # i
        /\ \A u \in Tasks : job[u].id # i
    BY <1>1, <2>1 DEF Safe, NotBefore, Rows
  <2>3. \A u \in Tasks : job'[u].id # i
    BY <1>3, <2>2 DEF Idle, Ids
  <2>. QED  BY <1>4, <2>2, <2>3
<1>9. Attached'
  BY <1>1, <1>4, <1>6 DEF Safe, Attached
<1>10. Prepared'
  <2>1. CASE t = "run"
    BY <1>1, <1>3, <1>4, <2>1, ZeroNotOld DEF Safe, Prepared, Idle
  <2>2. CASE t # "run"
    <3>1. job'["run"] = job["run"] /\ t = "reconciler"
      BY <1>3, <2>2 DEF Tasks
    <3>2. job'["reconciler"].id \in {0, job["reconciler"].id}
      BY <1>3, <3>1 DEF Idle
    <3>3. Rows' = Rows
      BY <1>1, <1>2, <1>4 DEF Rows, Safe, NotBefore
    <3>4. job["run"].at \in {"prepare", "own", "broadcast"} =>
             /\ job["run"].id \in Ids /\ job["run"].id # job[t].id
             /\ claim'[job["run"].id] = claim[job["run"].id]
      BY <1>1, <1>4, <3>1 DEF Safe, Prepared
    <3>. QED  BY <1>1, <1>4, <3>1, <3>2, <3>3, <3>4 DEF Safe, Prepared, Ids
  <2>. QED  BY <2>1, <2>2
<1>11. (\A u \in Tasks : Applying(u))'
  BY <1>1, <1>2, <1>3, <1>4 DEF Idle, Safe, Applying
<1>12. ClaimedIsPaid'
  BY <1>1, <1>4 DEF Safe, ClaimedIsPaid
<1>13. ClaimingIsTracked'
  <2>. SUFFICES ASSUME NEW e \in Epochs, trade'[e].status = "CLAIMING"
                PROVE  TrackedTrade(e)'
    BY DEF ClaimingIsTracked, TrackedTrade
  <2>0. TrackedTrade(e) /\ trade'[e] = trade[e] /\ trade[e].id \in Ids
    BY <1>1, <1>4, <1>6 DEF Safe, ClaimingIsTracked, TrackedTrade, Attached
  <2>1. CASE trade[e].id = job[t].id
    BY <1>3, <1>5, <2>0, <2>1 DEF TrackedTrade
  <2>2. CASE trade[e].id # job[t].id
    BY <1>2, <1>3, <1>4, <2>0, <2>2 DEF TrackedTrade
  <2>. QED  BY <2>1, <2>2
<1>. QED  BY <1>7, <1>8, <1>9, <1>10, <1>11, <1>12, <1>13 DEF Safe

\* A trade of it is resolved.
LEMMA ResolveKeeps ==
  ASSUME Inv, NEW t \in Tasks, ResolveTrade(t)
  PROVE  Safe'
<1>1. TypeOK /\ Safe /\ job \in [Tasks -> Jobs]
  BY DEF Inv, Safe, TypeOK
<1>2. PICK e \in job[t].left : e = Least(job[t].left) /\ e \in Epochs
  BY <1>1, LeastEpoch DEF ResolveTrade, Jobs, Safe, Applying
<1>3. /\ \A u \in Tasks : u # t => job'[u] = job[u]
      /\ job[t].at = "trades"
      /\ \/ job'[t] = Idle /\ job[t].left = {e}
         \/ /\ job'[t].at = "trades" /\ job'[t].id = job[t].id /\ job'[t].trades = job[t].trades
            /\ job'[t].out = job[t].out
            /\ job'[t].left = job[t].left \ {e} /\ job'[t].left # {}
  BY <1>1, <1>2, DoEffect DEF ResolveTrade, Jobs
<1>4. /\ \/ job[t].out = "CONFIRMED" /\ trade'[e].status = "CLAIMED" /\ trade'[e].id = trade[e].id
         \/ job[t].out # "CONFIRMED" /\ trade'[e].status = "UNCLAIMED" /\ trade'[e].id = 0
      /\ trade'[e].gas = trade[e].gas
      /\ \A d \in Epochs : d # e => trade'[d] = trade[d]
      /\ UNCHANGED <<paid, tx, claim, list, old, torn>>
  BY <1>1, <1>2 DEF ResolveTrade, Resolved, TypeOK
<1>5. \A d \in Epochs : /\ trade'[d].id = trade[d].id \/ trade'[d].id = 0
                        /\ trade'[d].gas = trade[d].gas
  BY <1>4
<1>6. \A u \in Tasks : job'[u].id = job[u].id \/ job'[u].id = 0
  BY <1>3 DEF Idle
<1>7. /\ job[t].id \in Ids /\ job[t].left \subseteq claim[job[t].id].epochs
      /\ job[t].out = "CONFIRMED" => tx[job[t].id] = "success"
  BY <1>1, <1>3 DEF Safe, Applying
<1>8. PaidBySuccess'
  BY <1>1, <1>4 DEF Safe, PaidBySuccess
<1>9. NotBefore'
  <2>. SUFFICES ASSUME NEW i \in Ids, claim[i].status = "none"
                PROVE  /\ tx[i] = "none" /\ i \notin old
                       /\ \A d \in Epochs : trade'[d].id # i
                       /\ \A u \in Tasks : job'[u].id # i
    BY <1>4 DEF NotBefore, Rows
  <2>1. /\ tx[i] = "none" /\ i \notin old
        /\ \A d \in Epochs : trade[d].id # i
        /\ \A u \in Tasks : job[u].id # i
    BY <1>1 DEF Safe, NotBefore, Rows
  <2>2. i # 0
    BY DEF Ids
  <2>. QED  BY <1>5, <1>6, <2>1, <2>2
<1>10. Attached'
  <2>. SUFFICES ASSUME NEW d \in Epochs
                PROVE  /\ trade'[d].id # 0 => d \in claim[trade'[d].id].epochs
                       /\ trade'[d].status = "CLAIMING" => trade'[d].id # 0
                       /\ trade'[d].status \in {"NONE", "UNCLAIMED"} => trade'[d].id = 0
    BY <1>4 DEF Attached
  <2>. QED  BY <1>1, <1>4 DEF Safe, Attached
<1>11. Prepared'
  <2>1. CASE t = "run"
    BY <1>1, <1>3, <1>4, <2>1, ZeroNotOld DEF Safe, Prepared, Idle
  <2>2. CASE t # "run"
    BY <1>1, <1>3, <1>4, <1>6, <2>2 DEF Safe, Prepared, Rows, Tasks, Ids
  <2>. QED  BY <2>1, <2>2
<1>12. (\A u \in Tasks : Applying(u))'
  <2>. SUFFICES ASSUME NEW u \in Tasks
                PROVE  Applying(u)'
    OBVIOUS
  <2>1. CASE u = t
    BY <1>1, <1>3, <1>4, <2>1 DEF Safe, Applying, Idle
  <2>2. CASE u # t
    <3>1. job'[u] = job[u] /\ Applying(u)
      BY <1>1, <1>3, <2>2 DEF Safe
    <3>2. job[u].at \in {"gas", "close"} => job[u].trades \subseteq Epochs
      BY <1>1 DEF Jobs
    <3>3. 0 \notin Ids
      BY DEF Ids
    <3>. QED  BY <1>4, <1>5, <3>1, <3>2, <3>3 DEF Applying
  <2>. QED  BY <2>1, <2>2
<1>13. ClaimedIsPaid'
  <2>1. job[t].out = "CONFIRMED" => e \in paid
    BY <1>1, <1>7 DEF Safe, PaidBySuccess
  <2>. QED  BY <1>1, <1>4, <2>1 DEF Safe, ClaimedIsPaid
<1>14. ClaimingIsTracked'
  <2>. SUFFICES ASSUME NEW d \in Epochs, trade'[d].status = "CLAIMING"
                PROVE  TrackedTrade(d)'
    BY DEF ClaimingIsTracked, TrackedTrade
  <2>1. d # e /\ trade'[d] = trade[d]
    BY <1>4
  <2>2. TrackedTrade(d)
    BY <1>1, <2>1 DEF Safe, ClaimingIsTracked, TrackedTrade
  <2>. QED  BY <1>3, <1>4, <2>1, <2>2 DEF TrackedTrade
<1>. QED  BY <1>8, <1>9, <1>10, <1>11, <1>12, <1>13, <1>14 DEF Safe

\* A reconciler that takes up claim i: only a mined or a submitted one, so never one the
\* run is still preparing.
LEMMA ReconcileKeeps ==
  ASSUME Inv, ReconcileClaim
  PROVE  Safe'
<1>. DEFINE i == Least(list)
            r == "reconciler"
<1>1. /\ TypeOK /\ Safe /\ job \in [Tasks -> Jobs] /\ r \in Tasks /\ "run" \in Tasks
      /\ i \in Ids /\ job[r].at = "idle"
  <2>1. i \in Ids
    BY LeastId DEF ReconcileClaim, Inv, TypeOK
  <2>. QED  BY <2>1 DEF Inv, Safe, TypeOK, ReconcileClaim, Tasks
<1>2. UNCHANGED <<paid, tx, trade, old, torn>>
  BY DEF ReconcileClaim
<1>. HIDE DEF i
<1>3. CASE claim[i].status = "PENDING" /\ Dropped(i)
  <2>1. /\ claim'[i].status = "FAILED" /\ UNCHANGED job
        /\ \A k \in Ids : claim'[k].epochs = claim[k].epochs
        /\ \A k \in Ids : k # i => claim'[k] = claim[k]
    BY <1>1, <1>3 DEF ReconcileClaim, TypeOK, i
  <2>2. Rows' = Rows
    BY <1>1, <1>3, <2>1 DEF Rows
  <2>3. i \in old
    BY <1>3 DEF Dropped
  <2>4. PaidBySuccess' /\ NotBefore' /\ ClaimedIsPaid'
    BY <1>1, <1>2, <2>1, <2>2 DEF Safe, PaidBySuccess, NotBefore, ClaimedIsPaid
  <2>5. \A e \in Epochs : trade[e].id \in Ids \cup {0}
    BY <1>1 DEF TypeOK, Trades
  <2>6. Attached'
    BY <1>1, <1>2, <2>1, <2>5 DEF Safe, Attached
  <2>7. Prepared'
    BY <1>1, <1>2, <2>1, <2>2, <2>3 DEF Safe, Prepared
  <2>8. (\A u \in Tasks : Applying(u))'
    BY <1>1, <1>2, <2>1 DEF Safe, Applying
  <2>9. ClaimingIsTracked'
    <3>. SUFFICES ASSUME NEW e \in Epochs, trade'[e].status = "CLAIMING"
                  PROVE  TrackedTrade(e)'
      BY DEF ClaimingIsTracked, TrackedTrade
    <3>1. TrackedTrade(e) /\ trade[e].id \in Ids
      BY <1>1, <1>2, <2>5 DEF Safe, ClaimingIsTracked, TrackedTrade, Attached
    <3>. QED  BY <1>2, <1>3, <2>1, <3>1 DEF TrackedTrade
  <2>. QED  BY <2>4, <2>6, <2>7, <2>8, <2>9 DEF Safe
<1>4. CASE claim[i].status # "PENDING" /\ (Mined(i) \/ Dropped(i))
  <2>1. /\ \A u \in Tasks : u # r => job'[u] = job[u]
        /\ UNCHANGED claim
        /\ job'[r].id = i /\ job'[r].at \in {"gas", "close"}
    <3>1. CASE Mined(i)
      <4>1. Do(r, Receipt(i)) /\ UNCHANGED claim
        BY <1>4, <3>1 DEF ReconcileClaim, Begin, i
      <4>. QED  BY <1>1, <4>1, DoEffect, ReceiptEffect
    <3>2. CASE ~Mined(i)
      <4>1. /\ Do(r, [Idle EXCEPT !.id = i, !.at = "close", !.trades = TradesOf(i)])
            /\ UNCHANGED claim
        BY <1>4, <3>2 DEF ReconcileClaim, Begin, i
      <4>2. /\ \A u \in Tasks : u # r => job'[u] = job[u]
            /\ job'[r] = [Idle EXCEPT !.id = i, !.at = "close", !.trades = TradesOf(i)]
        BY <1>1, <4>1, DoEffect, Zenon
      <4>. QED  BY <4>1, <4>2
    <3>. QED  BY <3>1, <3>2
  <2>2. Applying(r)'
    <3>1. CASE Mined(i)
      <4>1. Do(r, Receipt(i)) /\ UNCHANGED claim
        BY <1>4, <3>1 DEF ReconcileClaim, Begin, i
      <4>. QED  BY <1>1, <1>2, <4>1, DoEffect, ReceiptApplies
    <3>2. CASE ~Mined(i)
      <4>1. /\ Do(r, [Idle EXCEPT !.id = i, !.at = "close", !.trades = TradesOf(i)])
            /\ UNCHANGED claim
        BY <1>4, <3>2 DEF ReconcileClaim, Begin, i
      <4>2. /\ job'[r].id = i /\ job'[r].at = "close" /\ job'[r].trades = TradesOf(i)
            /\ job'[r].out = "FAILED"
        <5>1. job'[r] = [Idle EXCEPT !.id = i, !.at = "close", !.trades = TradesOf(i)]
          BY <1>1, <4>1, DoEffect, Zenon
        <5>. QED  BY <5>1 DEF Idle
      <4>3. \A e \in Epochs : trade[e].id = i => e \in TradesOf(i)
        BY <1>1 DEF Safe, Attached, TradesOf, Ids
      <4>. QED  BY <1>1, <1>2, <2>1, <4>2, <4>3 DEF Applying, TradesOf
    <3>. QED  BY <3>1, <3>2
  <2>3. i \in Rows /\ (tx[i] # "none" \/ i \in old)
    BY <1>1, <1>4 DEF Safe, NotBefore, Mined, Dropped
  <2>4. PaidBySuccess' /\ Attached' /\ ClaimedIsPaid'
    BY <1>1, <1>2, <2>1 DEF Safe, PaidBySuccess, Attached, ClaimedIsPaid
  <2>5. NotBefore'
    BY <1>1, <1>2, <2>1, <2>3 DEF Safe, NotBefore, Rows
  <2>6. Prepared'
    BY <1>1, <1>2, <2>1, <2>3 DEF Safe, Prepared, Rows
  <2>7. (\A u \in Tasks : Applying(u))'
    BY <1>1, <1>2, <2>1, <2>2 DEF Safe, Applying
  <2>8. ClaimingIsTracked'
    <3>. SUFFICES ASSUME NEW e \in Epochs, trade'[e].status = "CLAIMING"
                  PROVE  TrackedTrade(e)'
      BY DEF ClaimingIsTracked, TrackedTrade
    <3>1. TrackedTrade(e)
      BY <1>1, <1>2 DEF Safe, ClaimingIsTracked, TrackedTrade
    <3>. QED  BY <1>1, <1>2, <2>1, <3>1 DEF TrackedTrade
  <2>. QED  BY <2>2, <2>4, <2>5, <2>6, <2>7, <2>8 DEF Safe
<1>5. CASE UNCHANGED <<claim, job>>
  BY <1>1, <1>2, <1>5 DEF Safe, PaidBySuccess, NotBefore, Attached, Prepared, Applying, Rows,
       ClaimedIsPaid, ClaimingIsTracked
<1>6. \/ claim[i].status = "PENDING" /\ Dropped(i)
      \/ claim[i].status # "PENDING" /\ (Mined(i) \/ Dropped(i))
      \/ UNCHANGED <<claim, job>>
  BY DEF ReconcileClaim, i
<1>. QED  BY <1>3, <1>4, <1>5, <1>6

-----------------------------------------------------------------------------
\* Together.

\* The invariant holds at first,
LEMMA InvInit == Init => Inv
<1>. SUFFICES ASSUME Init PROVE Inv
  OBVIOUS
<1>1. TypeOK
  BY InitType
<1>2. PaidBySuccess /\ NotBefore /\ Attached
  BY DEF Init, PaidBySuccess, NotBefore, Attached, Idle, Ids
<1>3. Prepared /\ \A t \in Tasks : Applying(t)
  BY DEF Init, Prepared, Applying, Idle, Tasks
<1>4. ClaimedIsPaid /\ ClaimingIsTracked
  BY DEF Init, ClaimedIsPaid, ClaimingIsTracked
<1>. QED  BY <1>1, <1>2, <1>3, <1>4 DEF Inv

\* after every step,
LEMMA InvStep == Inv /\ [Next]_vars => Inv'
<1>. SUFFICES ASSUME Inv, [Next]_vars PROVE Inv'
  OBVIOUS
<1>1. TypeOK'
  BY NextType
<1>. SUFFICES Safe'
  BY <1>1 DEF Inv, Safe
<1>2. CASE UNCHANGED vars
  <2>1. Safe /\ UNCHANGED <<paid, tx, trade, claim, job, old, torn>>
    BY <1>2 DEF vars, Inv, Safe
  <2>2. PaidBySuccess' /\ NotBefore' /\ Attached'
    BY <2>1 DEF Safe, PaidBySuccess, NotBefore, Attached, Rows
  <2>3. Prepared' /\ (\A u \in Tasks : Applying(u))'
    BY <2>1 DEF Safe, Prepared, Applying, Rows
  <2>4. ClaimedIsPaid' /\ ClaimingIsTracked'
    BY <2>1 DEF Safe, ClaimedIsPaid, ClaimingIsTracked
  <2>. QED  BY <2>2, <2>3, <2>4 DEF Safe
<1>3. ASSUME NEW t \in Tasks, Apply(t)
      PROVE  Safe'
  BY <1>3, ChargeKeeps, CloseKeeps, ResolveKeeps DEF Apply
<1>4. CASE Run
  <2>1. CASE RunStart \/ RunCheck \/ RunMark
    BY <2>1, StartKeeps, CheckKeeps, MarkKeeps
  <2>2. CASE RunInsert \/ RunPrepare \/ RunUnprepared
    BY <2>2, InsertKeeps, PrepareKeeps, UnpreparedKeeps
  <2>3. CASE RunOwn \/ RunBroadcast \/ RunWait
    BY <2>3, OwnKeeps, BroadcastKeeps, WaitKeeps
  <2>4. CASE Apply("run")
    BY <1>3, <2>4 DEF Tasks
  <2>. QED  BY <1>4, <2>1, <2>2, <2>3, <2>4 DEF Run
<1>5. CASE Reconcile
  <2>1. CASE ReconcileStart \/ ReconcileClaim
    BY <2>1, ReconcileStartKeeps, ReconcileKeeps
  <2>2. CASE Apply("reconciler")
    BY <1>3, <2>2 DEF Tasks
  <2>. QED  BY <1>5, <2>1, <2>2 DEF Reconcile
<1>6. ASSUME NEW e \in Epochs, Settle(e) \/ ClaimOutside(e) \/ SyncClaimed(e)
      PROVE  Safe'
  BY <1>6, SettleKeeps, ClaimOutsideKeeps, SyncClaimedKeeps
<1>7. ASSUME NEW i \in Ids, Mine(i) \/ Age(i)
      PROVE  Safe'
  BY <1>7, MineKeeps, AgeKeeps
<1>8. ASSUME NEW dead \in SUBSET Tasks, Die(dead)
      PROVE  Safe'
  BY <1>8, DieKeeps
<1>9. CASE Gate
  BY <1>9, GateKeeps
<1>. QED  BY <1>2, <1>4, <1>5, <1>6, <1>7, <1>8, <1>9 DEF Next, Finished

\* and so always.
LEMMA Inductive == Spec => []Inv
  BY InvInit, InvStep, PTL DEF Spec

\* Every variable keeps its type: a task always has a trade to go on with.
THEOREM TypeCorrect == Spec => []TypeOK
<1>1. Inv => TypeOK
  BY DEF Inv
<1>. QED  BY <1>1, Inductive, PTL

\* A trade counts as CLAIMED only when the contract has paid it, for any number of claims,
\* tasks that die and transactions that are lost (applyReceipt, run and the wallet sync).
THEOREM ClaimedWasPaid == Spec => []ClaimedIsPaid
<1>1. Inv => ClaimedIsPaid
  BY DEF Inv
<1>. QED  BY <1>1, Inductive, PTL

\* A CLAIMING trade has an open claim or a task about to resolve it, unless a task died while
\* it resolved the trades of that claim (the row is closed before them).
THEOREM ClaimingStaysTracked == Spec => []ClaimingIsTracked
<1>1. Inv => ClaimingIsTracked
  BY DEF Inv
<1>. QED  BY <1>1, Inductive, PTL

-----------------------------------------------------------------------------
\* What the steps of a task do with its job and the trades.

LEMMA StartEffect ==
  ASSUME TypeOK, RunStart
  PROVE  /\ job'["reconciler"] = job["reconciler"]
         /\ job'["run"].at = "check" /\ job'["run"].id = 0 /\ job'["run"].trades = Unclaimed
         /\ UNCHANGED <<tx, trade, claim, list>>
BY DEF RunStart, Do, Idle, TypeOK, Tasks

LEMMA CheckEffect ==
  ASSUME TypeOK, RunCheck
  PROVE  /\ job'["reconciler"] = job["reconciler"]
         /\ job["run"].at = "check" /\ job'["run"].at \in {"mark", "insert"}
         /\ job'["run"].id = job["run"].id /\ job'["run"].trades \subseteq job["run"].trades
         /\ UNCHANGED <<tx, trade, claim, list>>
BY DEF RunCheck, PaidAlready, Then, Do, TypeOK, Tasks, Jobs

LEMMA MarkEffect ==
  ASSUME Inv, RunMark
  PROVE  /\ job'["reconciler"] = job["reconciler"]
         /\ job["run"].at = "mark"
         /\ \/ job'["run"] = Idle
            \/ /\ job'["run"].at \in {"mark", "insert"}
               /\ job'["run"].id = job["run"].id /\ job'["run"].trades = job["run"].trades
         /\ \A e \in Epochs : trade'[e].id = trade[e].id /\ trade'[e].gas = trade[e].gas
         /\ UNCHANGED <<tx, claim, list>>
<1>1. TypeOK /\ job \in [Tasks -> Jobs] /\ "run" \in Tasks /\ "reconciler" \in Tasks
  BY DEF Inv, TypeOK, Tasks
<1>2. PICK e \in job["run"].left : e = Least(job["run"].left) /\ e \in Epochs
  BY <1>1, LeastEpoch DEF RunMark, Jobs, Inv, Prepared
<1>. DEFINE j == [job["run"] EXCEPT !.left = @ \ {e}]
<1>3. /\ \/ job'["run"] = Idle
         \/ job'["run"] = Then(j, "insert")
      /\ job'["reconciler"] = job["reconciler"]
  <2>1. /\ job'["run"] = IF job["run"].left = {e} /\ job["run"].trades = {} THEN Idle
                         ELSE Then(j, "insert")
        /\ job'["reconciler"] = job["reconciler"]
    BY <1>1, <1>2, DoEffect DEF RunMark, Tasks
  <2>. QED  BY <2>1
<1>4. \/ job'["run"] = Idle
      \/ /\ job'["run"].at \in {"mark", "insert"}
         /\ job'["run"].id = job["run"].id /\ job'["run"].trades = job["run"].trades
  <2>1. job["run"].at = "mark"
    BY DEF RunMark
  <2>2. CASE job'["run"] = Then(j, "insert")
    BY <1>1, <2>1, <2>2 DEF Then, Jobs
  <2>. QED  BY <1>3, <2>2
<1>5. \A d \in Epochs : trade'[d].id = trade[d].id /\ trade'[d].gas = trade[d].gas
  BY <1>1, <1>2 DEF RunMark, TypeOK
<1>. QED  BY <1>3, <1>4, <1>5 DEF RunMark

LEMMA InsertEffect ==
  ASSUME Inv, RunInsert
  PROVE  /\ job'["reconciler"] = job["reconciler"]
         /\ job["run"].at = "insert" /\ job'["run"].at = "prepare"
         /\ job'["run"].id \in Ids \ Rows /\ job'["run"].trades = job["run"].trades
         /\ claim'[job'["run"].id].status = "PENDING"
         /\ \A k \in Ids : k # job'["run"].id => claim'[k] = claim[k]
         /\ UNCHANGED <<tx, trade, list>>
<1>1. TypeOK /\ job \in [Tasks -> Jobs] /\ "run" \in Tasks /\ "reconciler" \in Tasks
  BY DEF Inv, TypeOK, Tasks
<1>2. PICK i \in Ids : i \notin Rows /\ i = Least(Ids \ Rows)
  BY <1>1, LeastId DEF RunInsert, Inv, Prepared, Rows
<1>3. /\ job'["run"] = [job["run"] EXCEPT !.at = "prepare", !.id = i]
      /\ job'["reconciler"] = job["reconciler"]
  BY <1>1, <1>2, DoEffect DEF RunInsert, Tasks
<1>4. /\ claim'[i].status = "PENDING"
      /\ \A k \in Ids : k # i => claim'[k] = claim[k]
  BY <1>1, <1>2 DEF RunInsert, TypeOK
<1>. QED  BY <1>1, <1>2, <1>3, <1>4 DEF RunInsert, Jobs

LEMMA PrepareEffect ==
  ASSUME Inv, RunPrepare
  PROVE  /\ job'["reconciler"] = job["reconciler"]
         /\ job["run"].at = "prepare" /\ job'["run"].at = "own"
         /\ job'["run"].id = job["run"].id
         /\ job'["run"].trades = job["run"].trades /\ job'["run"].left = job["run"].trades
         /\ claim'[job["run"].id].status = "SUBMITTED"
         /\ \A k \in Ids : claim'[k].epochs = claim[k].epochs
         /\ \A k \in Ids : k # job["run"].id => claim'[k] = claim[k]
         /\ UNCHANGED <<tx, trade, list>>
<1>1. TypeOK /\ job["run"].at = "prepare" /\ job["run"].id \in Ids
  BY DEF Inv, Prepared, RunPrepare
<1>2. /\ job'["reconciler"] = job["reconciler"]
      /\ job'["run"] = [job["run"] EXCEPT !.at = "own", !.left = job["run"].trades]
  BY <1>1 DEF RunPrepare, Do, TypeOK, Tasks
<1>3. /\ claim'[job["run"].id].status = "SUBMITTED"
      /\ \A k \in Ids : claim'[k].epochs = claim[k].epochs
      /\ \A k \in Ids : k # job["run"].id => claim'[k] = claim[k]
  BY <1>1 DEF RunPrepare, TypeOK
<1>. QED  BY <1>1, <1>2, <1>3 DEF RunPrepare, TypeOK, Tasks, Jobs

LEMMA UnpreparedEffect ==
  ASSUME Inv, RunUnprepared
  PROVE  /\ job'["reconciler"] = job["reconciler"]
         /\ job["run"].at = "prepare" /\ job'["run"] = Idle
         /\ claim'[job["run"].id].status = "FAILED"
         /\ \A k \in Ids : claim'[k].epochs = claim[k].epochs
         /\ \A k \in Ids : k # job["run"].id => claim'[k] = claim[k]
         /\ UNCHANGED <<tx, trade, list>>
<1>1. TypeOK /\ job["run"].at = "prepare" /\ job["run"].id \in Ids
  BY DEF Inv, Prepared, RunUnprepared
<1>2. /\ job'["reconciler"] = job["reconciler"] /\ job'["run"] = Idle
  BY <1>1 DEF RunUnprepared, Do, TypeOK, Tasks
<1>3. /\ claim'[job["run"].id].status = "FAILED"
      /\ \A k \in Ids : claim'[k].epochs = claim[k].epochs
      /\ \A k \in Ids : k # job["run"].id => claim'[k] = claim[k]
  BY <1>1 DEF RunUnprepared, TypeOK
<1>. QED  BY <1>1, <1>2, <1>3 DEF RunUnprepared

LEMMA OwnEffect ==
  ASSUME Inv, RunOwn
  PROVE  \E e \in job["run"].left :
         /\ e \in Epochs
         /\ job'["reconciler"] = job["reconciler"]
         /\ job["run"].at = "own"
         /\ job'["run"].id = job["run"].id /\ job'["run"].trades = job["run"].trades
         /\ \/ job'["run"].at = "own" /\ job'["run"].left = job["run"].left \ {e}
            \/ job'["run"].at = "broadcast" /\ job["run"].left = {e}
         /\ trade'[e].id = job["run"].id /\ trade'[e].gas = trade[e].gas
         /\ \A d \in Epochs : d # e => trade'[d] = trade[d]
         /\ UNCHANGED <<tx, claim, list>>
<1>1. TypeOK /\ job \in [Tasks -> Jobs] /\ "run" \in Tasks /\ "reconciler" \in Tasks
  BY DEF Inv, TypeOK, Tasks
<1>2. PICK e \in job["run"].left : e = Least(job["run"].left) /\ e \in Epochs
  BY <1>1, LeastEpoch DEF RunOwn, Jobs, Inv, Prepared
<1>. DEFINE j == [job["run"] EXCEPT !.left = @ \ {e}]
<1>3. job'["run"] = Then(j, "broadcast") /\ job'["reconciler"] = job["reconciler"]
  BY <1>1, <1>2, DoEffect DEF RunOwn, Tasks
<1>4. /\ job'["run"].id = job["run"].id /\ job'["run"].trades = job["run"].trades
      /\ \/ job'["run"].at = "own" /\ job'["run"].left = job["run"].left \ {e}
         \/ job'["run"].at = "broadcast" /\ job["run"].left = {e}
  BY <1>1, <1>2, <1>3 DEF RunOwn, Then
<1>5. trade' = [trade EXCEPT ![e] = [@ EXCEPT !.status = "CLAIMING", !.id = job["run"].id]]
  BY <1>2 DEF RunOwn
<1>6. /\ trade'[e].id = job["run"].id /\ trade'[e].gas = trade[e].gas
      /\ \A d \in Epochs : d # e => trade'[d] = trade[d]
  BY <1>1, <1>2, <1>5 DEF TypeOK, Trades
<1>. QED  BY <1>1, <1>2, <1>3, <1>4, <1>6 DEF RunOwn

LEMMA BroadcastEffect ==
  ASSUME TypeOK, RunBroadcast
  PROVE  /\ job'["reconciler"] = job["reconciler"]
         /\ job["run"].at = "broadcast" /\ job'["run"].id = job["run"].id
         /\ job'["run"].trades = job["run"].trades
         /\ \/ job'["run"].at = "wait"
            \/ /\ job'["run"].at = "close" /\ job'["run"].out = "FAILED" /\ UNCHANGED tx
               /\ contested' = (contested \/ Applies("reconciler", job["run"].id))
         /\ UNCHANGED <<trade, claim, list>>
<1>1. job \in [Tasks -> Jobs] /\ "run" \in Tasks /\ "reconciler" \in Tasks
  BY DEF TypeOK, Tasks
<1>2. CASE Do("run", [job["run"] EXCEPT !.at = "wait"])
  <2>1. /\ job'["run"] = [job["run"] EXCEPT !.at = "wait"]
        /\ job'["reconciler"] = job["reconciler"]
    BY <1>1, <1>2, DoEffect, Zenon
  <2>. QED  BY <1>1, <2>1 DEF RunBroadcast, Jobs
<1>3. CASE /\ Begin("run", [job["run"] EXCEPT !.at = "close", !.out = "FAILED"])
           /\ UNCHANGED tx
  <2>. DEFINE j == [job["run"] EXCEPT !.at = "close", !.out = "FAILED"]
  <2>1. /\ job'["run"] = j /\ job'["reconciler"] = job["reconciler"]
        /\ contested' = (contested \/ \E d \in Tasks \ {"run"} : Applies(d, j.id))
    BY <1>1, <1>3, DoEffect, Zenon DEF Begin
  <2>2. j.at = "close" /\ j.out = "FAILED" /\ j.id = job["run"].id /\ j.trades = job["run"].trades
    BY <1>1 DEF Jobs
  <2>. HIDE DEF j
  <2>3. contested' = (contested \/ Applies("reconciler", job["run"].id))
    BY <2>1, <2>2 DEF Tasks
  <2>. QED  BY <1>3, <2>1, <2>2, <2>3 DEF RunBroadcast
<1>. QED  BY <1>2, <1>3 DEF RunBroadcast

LEMMA ChargeEffect ==
  ASSUME Inv, NEW t \in Tasks, ChargeGas(t)
  PROVE  \E e \in job[t].left :
         /\ e \in Epochs
         /\ \A u \in Tasks : u # t => job'[u] = job[u]
         /\ job[t].at = "gas" /\ job'[t].id = job[t].id /\ job'[t].trades = job[t].trades
         /\ job'[t].out = job[t].out /\ job'[t].gas = job[t].gas
         /\ \/ job'[t].at = "gas" /\ job'[t].left = job[t].left \ {e}
            \/ job'[t].at = "close" /\ job[t].left = {e}
         /\ trade'[e].id = trade[e].id /\ trade'[e].gas = [job[t].gas[e] EXCEPT ![job[t].id] = @ + 1]
         /\ \A d \in Epochs : d # e => trade'[d] = trade[d]
         /\ UNCHANGED <<tx, claim, list>>
<1>1. TypeOK /\ job \in [Tasks -> Jobs]
  BY DEF Inv, TypeOK
<1>2. PICK e \in job[t].left : e = Least(job[t].left) /\ e \in Epochs
  BY <1>1, LeastEpoch DEF ChargeGas, Jobs, Inv, Applying
<1>. DEFINE j == [job[t] EXCEPT !.left = @ \ {e}]
<1>3. job'[t] = Then(j, "close") /\ \A u \in Tasks : u # t => job'[u] = job[u]
  BY <1>1, <1>2, DoEffect DEF ChargeGas
<1>4. /\ job'[t].id = job[t].id /\ job'[t].trades = job[t].trades
      /\ job'[t].out = job[t].out /\ job'[t].gas = job[t].gas
      /\ \/ job'[t].at = "gas" /\ job'[t].left = job[t].left \ {e}
         \/ job'[t].at = "close" /\ job[t].left = {e}
  BY <1>1, <1>2, <1>3 DEF ChargeGas, Then, Jobs
<1>. DEFINE g == [job[t].gas[e] EXCEPT ![job[t].id] = @ + 1]
<1>5. trade' = [trade EXCEPT ![e] = [@ EXCEPT !.gas = g]]
  BY <1>2 DEF ChargeGas
<1>. HIDE DEF g
<1>6. /\ trade'[e].id = trade[e].id /\ trade'[e].gas = g
      /\ \A d \in Epochs : d # e => trade'[d] = trade[d]
  BY <1>1, <1>2, <1>5 DEF TypeOK, Trades
<1>. QED  BY <1>2, <1>3, <1>4, <1>6 DEF ChargeGas, g

LEMMA CloseEffect ==
  ASSUME Inv, NEW t \in Tasks, CloseClaim(t)
  PROVE  /\ \A u \in Tasks : u # t => job'[u] = job[u]
         /\ job[t].at = "close" /\ job[t].id \in Ids
         /\ \/ job'[t] = Idle /\ job[t].trades = {}
            \/ /\ job'[t].at = "trades" /\ job'[t].id = job[t].id /\ job'[t].out = job[t].out
               /\ job'[t].trades = job[t].trades /\ job'[t].left = job[t].trades
         /\ claim'[job[t].id].status = job[t].out
         /\ \A k \in Ids : claim'[k].epochs = claim[k].epochs
         /\ \A k \in Ids : k # job[t].id => claim'[k] = claim[k]
         /\ UNCHANGED <<tx, trade, list>>
<1>1. TypeOK /\ job \in [Tasks -> Jobs] /\ job[t].at = "close" /\ job[t].id \in Ids
  BY DEF Inv, TypeOK, CloseClaim, Applying
<1>2. /\ \A u \in Tasks : u # t => job'[u] = job[u]
      /\ \/ job'[t] = Idle /\ job[t].trades = {}
         \/ job'[t] = [job[t] EXCEPT !.at = "trades", !.left = job[t].trades, !.gas = Idle.gas]
  BY <1>1, DoEffect DEF CloseClaim
<1>3. /\ claim'[job[t].id].status = job[t].out
      /\ \A k \in Ids : claim'[k].epochs = claim[k].epochs
      /\ \A k \in Ids : k # job[t].id => claim'[k] = claim[k]
  BY <1>1 DEF CloseClaim, TypeOK
<1>. QED  BY <1>1, <1>2, <1>3 DEF CloseClaim, Jobs

LEMMA ResolveEffect ==
  ASSUME Inv, NEW t \in Tasks, ResolveTrade(t)
  PROVE  \E e \in job[t].left :
         /\ e \in Epochs
         /\ \A u \in Tasks : u # t => job'[u] = job[u]
         /\ job[t].at = "trades"
         /\ \/ job'[t] = Idle
            \/ /\ job'[t].at = "trades" /\ job'[t].id = job[t].id /\ job'[t].out = job[t].out
               /\ job'[t].left = job[t].left \ {e}
         /\ trade'[e].id = IF job[t].out = "CONFIRMED" THEN trade[e].id ELSE 0
         /\ trade'[e].gas = trade[e].gas
         /\ \A d \in Epochs : d # e => trade'[d] = trade[d]
         /\ UNCHANGED <<tx, claim, list>>
<1>1. TypeOK /\ job \in [Tasks -> Jobs]
  BY DEF Inv, TypeOK
<1>2. PICK e \in job[t].left : e = Least(job[t].left) /\ e \in Epochs
  BY <1>1, LeastEpoch DEF ResolveTrade, Jobs, Inv, Applying
<1>3. /\ \A u \in Tasks : u # t => job'[u] = job[u]
      /\ job'[t] = Idle \/ job'[t] = [job[t] EXCEPT !.left = @ \ {e}]
  BY <1>1, <1>2, DoEffect DEF ResolveTrade
<1>4. /\ trade'[e].id = IF job[t].out = "CONFIRMED" THEN trade[e].id ELSE 0
      /\ trade'[e].gas = trade[e].gas
      /\ \A d \in Epochs : d # e => trade'[d] = trade[d]
  BY <1>1, <1>2 DEF ResolveTrade, Resolved, TypeOK
<1>. QED  BY <1>1, <1>2, <1>3, <1>4 DEF ResolveTrade, Jobs

-----------------------------------------------------------------------------
\* The charging of gas, while the two tasks have not applied the outcome of one claim at the
\* same time.

Building == {"prepare", "own", "broadcast"}
ApplySteps == {"gas", "close", "trades"}

\* The run's trades are in no claim before it attaches them to its own.
Assembled ==
  LET j == job["run"] IN
  /\ j.at \in {"check", "mark", "insert", "prepare"} => \A e \in j.trades : trade[e].id = 0
  /\ j.at = "own" => \A e \in j.trades : trade[e].id = IF e \in j.left THEN 0 ELSE j.id
  /\ j.at = "broadcast" => \A e \in j.trades : trade[e].id = j.id

\* The tasks apply different claims.
Exclusive == \A i \in Ids : ~(Applies("run", i) /\ Applies("reconciler", i))

\* Nobody is ever going to confirm claim i: it reverted, it was never sent, or it has failed
\* and nobody is going to look at its transaction again.
Hopeless(i) ==
  \/ tx[i] = "reverted"
  \/ tx[i] = "none" /\ ~(job["run"].id = i /\ job["run"].at \in Building)
  \/ /\ claim[i].status = "FAILED" /\ job["run"].id # i /\ i \notin list
     /\ job["reconciler"].id = i => job["reconciler"].out = "FAILED"

\* A claim keeps its trades as long as it may be confirmed.
Whole(i) == \A e \in claim[i].epochs : trade[e].id = i
Held(i) ==
  \/ Hopeless(i) \/ Whole(i)
  \/ job["run"].id = i /\ job["run"].at \in {"prepare", "own"}

\* What a task that applies the outcome of a claim knows while the other one does not: the
\* trades are still in the claim, and charged with what it has read and one share more.
Handling(t) ==
  LET j == job[t] IN
  /\ j.at \in {"gas", "close"} => \A e \in j.trades : trade[e].id = j.id
  /\ j.at = "trades" /\ j.out = "FAILED" =>
       Hopeless(j.id) /\ \A e \in j.left : trade[e].id = j.id
  /\ j.at \in ApplySteps /\ j.out = "FAILED" =>
       \/ tx[j.id] \in {"none", "reverted"}
       \/ t = "reconciler" /\ job["run"].id # j.id /\ j.id \notin list
  /\ j.at = "gas" => /\ \A e \in j.left : j.gas[e] = trade[e].gas
                     /\ \A e \in j.trades \ j.left : trade[e].gas[j.id] > 0
  /\ j.at \in {"gas", "close"} /\ j.out = "CONFIRMED" => j.trades = claim[j.id].epochs
  /\ j.at = "close" /\ j.out = "CONFIRMED" => \A e \in j.trades : trade[e].gas[j.id] > 0

Charged ==
  \A i \in Ids : \A e \in claim[i].epochs :
    claim[i].status = "CONFIRMED" => trade[e].gas[i] > 0

Charging ==
  /\ Assembled /\ Exclusive /\ Charged
  /\ \A i \in Rows : Held(i)
  /\ \A t \in Tasks : Handling(t)

\* What every step does with the claims there are.
Tame ==
  /\ \A i \in Rows : \/ tx'[i] = tx[i] \/ tx[i] = "mempool"
                     \/ job["run"].at = "broadcast" /\ job["run"].id = i
  /\ \A i \in Rows : claim'[i].epochs = claim[i].epochs /\ claim'[i].status # "none"
  /\ \A i \in Rows :
       job'["run"].id = i =>
         job["run"].id = i /\ (job'["run"].at \in Building => job["run"].at \in Building)
  /\ \A i \in Rows :
       claim[i].status = "FAILED" =>
         \/ claim'[i].status = "FAILED" \/ job["run"].id = i
         \/ job["reconciler"].id = i /\ job["reconciler"].out # "FAILED"
  /\ \A i \in list' : i \in list \/ i \in OpenClaims
  /\ \/ job'["reconciler"].id \in list
     \/ job'["reconciler"].id = job["reconciler"].id /\ job'["reconciler"].out = job["reconciler"].out
     \/ job'["reconciler"] = Idle

\* A claim given up stays so.
LEMMA HopelessStays ==
  ASSUME Inv, Tame, NEW i \in Rows, Hopeless(i)
  PROVE  Hopeless(i)'
<1>1. i \in Ids
  BY DEF Rows
<1>2. CASE tx[i] = "reverted"
  <2>1. ~(job["run"].at = "broadcast" /\ job["run"].id = i)
    BY <1>2 DEF Inv, Prepared
  <2>. QED  BY <1>2, <2>1 DEF Tame, Hopeless
<1>3. CASE tx[i] = "none" /\ ~(job["run"].id = i /\ job["run"].at \in Building)
  <2>1. tx'[i] = "none"
    BY <1>3 DEF Tame, Building
  <2>2. ~(job'["run"].id = i /\ job'["run"].at \in Building)
    BY <1>3 DEF Tame
  <2>. QED  BY <2>1, <2>2 DEF Hopeless
<1>4. CASE /\ claim[i].status = "FAILED" /\ job["run"].id # i /\ i \notin list
           /\ job["reconciler"].id = i => job["reconciler"].out = "FAILED"
  <2>1. claim'[i].status = "FAILED" /\ job'["run"].id # i
    BY <1>4 DEF Tame
  <2>2. i \notin list'
    BY <1>4 DEF Tame, OpenClaims
  <2>3. job'["reconciler"].id = i => job'["reconciler"].out = "FAILED"
    BY <1>1, <1>4 DEF Tame, Idle
  <2>. QED  BY <2>1, <2>2, <2>3 DEF Hopeless
<1>. QED  BY <1>2, <1>3, <1>4 DEF Hopeless

\* The steps of the run until its claim is on its way.
LEMMA RunTame ==
  ASSUME Inv, RunStart \/ RunCheck \/ RunMark \/ RunInsert \/ RunPrepare \/ RunUnprepared \/ RunOwn
              \/ RunBroadcast \/ RunWait
  PROVE  Tame
<1>1. /\ TypeOK /\ NotBefore /\ Prepared /\ job \in [Tasks -> Jobs]
      /\ "run" \in Tasks /\ "reconciler" \in Tasks
  BY DEF Inv, TypeOK, Tasks
<1>2. job'["reconciler"] = job["reconciler"] /\ list' = list
  BY <1>1, DoEffect DEF RunStart, RunCheck, RunMark, RunInsert, RunPrepare, RunUnprepared, RunOwn,
       RunBroadcast, RunWait, Begin
<1>3. \A i \in Rows : \/ tx'[i] = tx[i]
                      \/ job["run"].at = "broadcast" /\ job["run"].id = i
  BY <1>1 DEF RunStart, RunCheck, RunMark, RunInsert, RunPrepare, RunUnprepared, RunOwn,
       RunBroadcast, RunWait, TypeOK, Rows
<1>4. \A i \in Rows : /\ claim'[i].epochs = claim[i].epochs /\ claim'[i].status # "none"
                      /\ claim[i].status = "FAILED" => claim'[i].status = "FAILED"
  <2>1. CASE RunInsert
    <3>1. Least(Ids \ Rows) \notin Rows
      BY <1>1, <2>1, LeastId DEF RunInsert, Prepared, Rows
    <3>. QED  BY <1>1, <2>1, <3>1 DEF RunInsert, TypeOK, Rows
  <2>2. CASE RunPrepare \/ RunUnprepared
    BY <1>1, <2>2 DEF RunPrepare, RunUnprepared, Prepared, TypeOK, Rows
  <2>3. CASE UNCHANGED claim
    BY <2>3 DEF Rows
  <2>. QED  BY <2>1, <2>2, <2>3 DEF RunStart, RunCheck, RunMark, RunOwn, RunBroadcast, RunWait
<1>5. \A i \in Rows :
        job'["run"].id = i =>
          job["run"].id = i /\ (job'["run"].at \in Building => job["run"].at \in Building)
  <2>0. 0 \notin Rows
    BY DEF Rows, Ids
  <2>1. CASE RunStart \/ RunUnprepared
    <3>1. job'["run"].id = 0
      BY <1>1, <2>1, StartEffect, UnpreparedEffect DEF Idle
    <3>. QED  BY <2>0, <3>1
  <2>2. CASE RunCheck \/ RunMark
    <3>1. job'["run"].id \in {0, job["run"].id} /\ job'["run"].at \notin Building
      BY <1>1, <2>2, CheckEffect, MarkEffect DEF Idle, Building
    <3>. QED  BY <2>0, <3>1
  <2>3. CASE RunInsert
    BY <2>3, InsertEffect
  <2>4. CASE RunPrepare \/ RunOwn \/ RunBroadcast
    <3>1. CASE RunPrepare \/ RunOwn
      BY <3>1, PrepareEffect, OwnEffect DEF Building
    <3>2. CASE RunBroadcast
      BY <1>1, <3>2, BroadcastEffect DEF Building
    <3>. QED  BY <2>4, <3>1, <3>2
  <2>5. CASE RunWait
    <3>1. job["run"].id \in Ids
      BY <1>1, <2>5 DEF RunWait, Prepared
    <3>2. \/ job'["run"] = Idle
          \/ job'["run"].id = job["run"].id /\ job'["run"].at \in {"gas", "close"}
      BY <1>1, <2>5, <3>1, ReceiptEffect, DoEffect DEF RunWait, Begin
    <3>. QED  BY <2>0, <3>2 DEF Idle, Building
  <2>. QED  BY <2>1, <2>2, <2>3, <2>4, <2>5
<1>. QED  BY <1>2, <1>3, <1>4, <1>5 DEF Tame

\* The steps of the reconciler and of a task that applies an outcome.
LEMMA ApplyTame ==
  ASSUME Inv, ReconcileStart \/ ReconcileClaim \/ \E t \in Tasks : Apply(t)
  PROVE  Tame
<1>1. /\ TypeOK /\ NotBefore /\ Prepared /\ job \in [Tasks -> Jobs]
      /\ "run" \in Tasks /\ "reconciler" \in Tasks
      /\ \A t \in Tasks : Applying(t)
  BY DEF Inv, TypeOK, Tasks
<1>2. tx' = tx
  BY DEF ReconcileStart, ReconcileClaim, Apply, ChargeGas, CloseClaim, ResolveTrade
<1>3. CASE ReconcileStart
  BY <1>1, <1>2, <1>3 DEF ReconcileStart, Tame, Rows
<1>4. CASE ReconcileClaim
  <2>. DEFINE i == Least(list)
  <2>1. i \in list /\ i \in Ids
    BY <1>1, <1>4, LeastId DEF ReconcileClaim, TypeOK
  <2>2. \/ UNCHANGED job
        \/ job'["reconciler"] = Receipt(i) /\ job'["run"] = job["run"]
        \/ /\ job'["reconciler"] = [Idle EXCEPT !.id = i, !.at = "close", !.trades = TradesOf(i)]
           /\ job'["run"] = job["run"]
    BY <1>1, <1>4, DoEffect, Zenon DEF ReconcileClaim, Begin
  <2>3. job'["run"] = job["run"] /\ (job'["reconciler"].id = i \/ UNCHANGED job)
    BY <1>1, <2>1, <2>2, ReceiptEffect DEF Idle
  <2>4. list' \subseteq list
    BY <1>4 DEF ReconcileClaim
  <2>5. \/ UNCHANGED claim
        \/ claim[i].status = "PENDING" /\ claim' = [claim EXCEPT ![i].status = "FAILED"]
    BY <1>4 DEF ReconcileClaim
  <2>. HIDE DEF i
  <2>6. \A k \in Rows : /\ claim'[k].epochs = claim[k].epochs /\ claim'[k].status # "none"
                        /\ claim[k].status = "FAILED" => claim'[k].status = "FAILED"
    BY <1>1, <2>1, <2>5 DEF Rows, TypeOK
  <2>. QED  BY <1>2, <2>1, <2>3, <2>4, <2>6 DEF Tame
<1>5. ASSUME NEW t \in Tasks, Apply(t)
      PROVE  Tame
  <2>1. /\ job'[t] = Idle \/ (job'[t].id = job[t].id /\ job'[t].out = job[t].out)
        /\ job[t].at \notin Building /\ job'[t].at \notin Building
        /\ \A u \in Tasks : u # t => job'[u] = job[u]
    <3>0. Idle.at = "idle"
      BY DEF Idle
    <3>1. CASE ChargeGas(t)
      BY <3>1, ChargeEffect DEF Building
    <3>2. CASE CloseClaim(t)
      BY <3>0, <3>2, CloseEffect DEF Building
    <3>3. CASE ResolveTrade(t)
      BY <3>0, <3>3, ResolveEffect DEF Building
    <3>. QED  BY <1>5, <3>1, <3>2, <3>3 DEF Apply
  <2>2. list' = list
    BY <1>5 DEF Apply, ChargeGas, CloseClaim, ResolveTrade
  <2>3. \A k \in Rows : /\ claim'[k].epochs = claim[k].epochs /\ claim'[k].status # "none"
                        /\ claim'[k] # claim[k] => /\ k = job[t].id
                                                   /\ claim'[k].status = job[t].out
    <3>1. CASE CloseClaim(t)
      BY <1>1, <3>1 DEF CloseClaim, TypeOK, Rows, Jobs
    <3>2. CASE UNCHANGED claim
      BY <3>2 DEF Rows
    <3>. QED  BY <1>5, <3>1, <3>2 DEF Apply, ChargeGas, ResolveTrade
  <2>4. 0 \notin Rows
    BY DEF Rows, Ids
  <2>5. \A i \in Rows :
          job'["run"].id = i =>
            job["run"].id = i /\ (job'["run"].at \in Building => job["run"].at \in Building)
    BY <1>1, <2>1, <2>4 DEF Idle
  <2>6. \A i \in Rows :
          claim[i].status = "FAILED" =>
            \/ claim'[i].status = "FAILED" \/ job["run"].id = i
            \/ job["reconciler"].id = i /\ job["reconciler"].out # "FAILED"
    BY <2>3 DEF Tasks
  <2>7. \/ job'["reconciler"].id = job["reconciler"].id /\ job'["reconciler"].out = job["reconciler"].out
        \/ job'["reconciler"] = Idle
    BY <1>1, <2>1
  <2>. QED  BY <1>2, <2>2, <2>3, <2>5, <2>6, <2>7 DEF Tame
<1>. QED  BY <1>3, <1>4, <1>5

\* Every step.
LEMMA StepTame ==
  ASSUME Inv, [Next]_vars
  PROVE  Tame
<1>1. TypeOK /\ job \in [Tasks -> Jobs] /\ "run" \in Tasks /\ "reconciler" \in Tasks
  BY DEF Inv, TypeOK, Tasks
<1>2. CASE Run
  BY <1>1, <1>2, RunTame, ApplyTame DEF Run
<1>3. CASE Reconcile
  BY <1>1, <1>3, ApplyTame DEF Reconcile
<1>4. ASSUME NEW dead \in SUBSET Tasks, Die(dead)
      PROVE  Tame
  <2>1. \A t \in Tasks : job'[t] = Idle \/ job'[t] = job[t]
    BY <1>4 DEF Die
  <2>2. UNCHANGED <<tx, claim>> /\ list' \subseteq list
    BY <1>4 DEF Die
  <2>3. 0 \notin Rows
    BY DEF Rows, Ids
  <2>. QED  BY <1>1, <2>1, <2>2, <2>3 DEF Tame, Idle, Rows
<1>5. ASSUME NEW i \in Ids, Mine(i)
      PROVE  Tame
  BY <1>1, <1>5 DEF Mine, Tame, TypeOK, Rows
<1>6. ASSUME UNCHANGED <<tx, claim, job, list>>
      PROVE  Tame
  BY <1>6 DEF Tame, Rows
<1>7. ASSUME NEW e \in Epochs, Settle(e) \/ ClaimOutside(e) \/ SyncClaimed(e)
      PROVE  Tame
  BY <1>6, <1>7 DEF Settle, ClaimOutside, SyncClaimed
<1>8. ASSUME NEW i \in Ids, Age(i)
      PROVE  Tame
  BY <1>6, <1>8 DEF Age
<1>9. CASE Gate \/ UNCHANGED vars
  BY <1>6, <1>9 DEF Gate, vars
<1>. QED  BY <1>2, <1>3, <1>4, <1>5, <1>7, <1>8, <1>9 DEF Next, Finished

\* A task that applies an outcome has the row of a claim.
LEMMA ApplyingRow ==
  ASSUME Inv, NEW t \in Tasks, job[t].at \in ApplySteps
  PROVE  /\ job[t].id \in Rows /\ job[t].id \in Ids
         /\ job[t].trades \subseteq Epochs /\ job[t].left \subseteq Epochs
         /\ job[t].trades \subseteq claim[job[t].id].epochs
         /\ job[t].out \in {"CONFIRMED", "FAILED"}
         /\ ~(job["run"].at = "broadcast" /\ job["run"].id = job[t].id)
<1>1. job[t].id \in Ids /\ job[t].trades \subseteq claim[job[t].id].epochs
  BY DEF Inv, Applying, ApplySteps
<1>2. job[t].id \in Rows
  BY <1>1 DEF Inv, NotBefore
<1>3. /\ job[t].trades \subseteq Epochs /\ job[t].left \subseteq Epochs
      /\ job[t].out \in {"CONFIRMED", "FAILED"}
  BY DEF Inv, TypeOK, Jobs
<1>4. ~(job["run"].at = "broadcast" /\ job["run"].id = job[t].id)
  BY DEF Inv, Prepared, Tasks, ApplySteps
<1>. QED  BY <1>1, <1>2, <1>3, <1>4

\* What a task that goes on with the same job knows, as long as its trades stay in the claim,
\* and their gas where it is.
LEMMA StillHandling ==
  ASSUME Inv, Tame, NEW t \in Tasks, Handling(t), job'[t] = job[t],
         \A e \in job[t].trades \cup job[t].left :
           trade[e].id = job[t].id => trade'[e].id = job[t].id,
         job[t].at = "gas" => \A e \in job[t].left : trade'[e].gas = trade[e].gas,
         \A e \in job[t].trades : trade[e].gas[job[t].id] > 0 => trade'[e].gas[job[t].id] > 0,
         job["reconciler"].at \in ApplySteps => list' \subseteq list
  PROVE  Handling(t)'
<1>1. CASE job[t].at \notin ApplySteps
  BY <1>1 DEF Handling, ApplySteps
<1>2. CASE job[t].at \in ApplySteps
  <2>0. PICK i \in Rows : i = job[t].id
    BY <1>2, ApplyingRow
  <2>1. ~(job["run"].at = "broadcast" /\ job["run"].id = i)
    BY <1>2, <2>0, ApplyingRow
  <2>2. job[t].at = "trades" /\ job[t].out = "FAILED" => Hopeless(i)'
    <3>1. job[t].at = "trades" /\ job[t].out = "FAILED" => Hopeless(i)
      BY <2>0 DEF Handling, Hopeless
    <3>. QED  BY <3>1, HopelessStays
  <2>3. job[t].out = "FAILED" =>
          \/ tx'[i] \in {"none", "reverted"}
          \/ t = "reconciler" /\ job'["run"].id # i /\ i \notin list'
    BY <1>2, <2>0, <2>1 DEF Handling, Tame
  <2>4. claim'[i].epochs = claim[i].epochs
    BY DEF Tame
  <2>5. /\ job[t].at \in {"gas", "close"} => \A e \in job[t].trades : trade'[e].id = i
        /\ job[t].at = "trades" /\ job[t].out = "FAILED" => \A e \in job[t].left : trade'[e].id = i
    BY <2>0 DEF Handling
  <2>6. job[t].at = "gas" => /\ \A e \in job[t].left : job[t].gas[e] = trade'[e].gas
                             /\ \A e \in job[t].trades \ job[t].left : trade'[e].gas[i] > 0
    BY <2>0 DEF Handling
  <2>7. /\ job[t].at \in {"gas", "close"} /\ job[t].out = "CONFIRMED" => job[t].trades = claim'[i].epochs
        /\ job[t].at = "close" /\ job[t].out = "CONFIRMED" =>
             \A e \in job[t].trades : trade'[e].gas[i] > 0
    BY <2>0, <2>4 DEF Handling
  <2>. QED  BY <2>0, <2>2, <2>3, <2>5, <2>6, <2>7 DEF Handling, Hopeless
<1>. QED  BY <1>1, <1>2

\* A step that attaches, releases and charges no trade.
LEMMA Frame ==
  ASSUME Inv, Tame, Charging, Assembled',
         \A e \in Epochs : trade'[e].id = trade[e].id /\ trade'[e].gas = trade[e].gas,
         \A t \in Tasks : \/ job'[t] = job[t] \/ job'[t].at \notin ApplySteps
                          \/ /\ Handling(t)'
                             /\ \A d \in Tasks \ {t} : job'[d] = job[d] /\ ~Applies(d, job'[t].id),
         job["reconciler"].at \in ApplySteps => list' \subseteq list,
         \A i \in Ids : claim'[i].status = "CONFIRMED" => claim[i].status = "CONFIRMED",
         \A i \in Rows' : i \in Rows \/ (job'["run"].id = i /\ job'["run"].at = "prepare"),
         \A i \in Rows : job["run"].id = i /\ job["run"].at \in {"prepare", "own"} => Held(i)'
  PROVE  Charging'
<1>1. /\ TypeOK /\ job \in [Tasks -> Jobs] /\ claim \in [Ids -> [status : RowStatuses, epochs : SUBSET Epochs]]
      /\ "run" \in Tasks /\ "reconciler" \in Tasks
  BY DEF Inv, TypeOK, Tasks
<1>2. Exclusive'
  <2>. SUFFICES ASSUME NEW i \in Ids, Applies("run", i)', Applies("reconciler", i)'
                PROVE  FALSE
    BY DEF Exclusive
  <2>1. /\ job'["run"].at \in ApplySteps /\ job'["run"].id = i
        /\ job'["reconciler"].at \in ApplySteps /\ job'["reconciler"].id = i
    BY DEF Applies, ApplySteps
  <2>2. CASE job'["run"] = job["run"] /\ job'["reconciler"] = job["reconciler"]
    BY <2>1, <2>2 DEF Charging, Exclusive, Applies, ApplySteps
  <2>3. ASSUME NEW t \in Tasks, NEW d \in Tasks \ {t}, job'[d] = job[d], ~Applies(d, job'[t].id)
        PROVE  FALSE
    BY <2>1, <2>3 DEF Tasks, Applies, ApplySteps
  <2>. QED  BY <1>1, <2>1, <2>2, <2>3 DEF Tasks
<1>3. Charged'
  <2>. SUFFICES ASSUME NEW i \in Ids, NEW e \in claim'[i].epochs, claim'[i].status = "CONFIRMED"
                PROVE  trade'[e].gas[i] > 0
    BY DEF Charged
  <2>1. claim[i].status = "CONFIRMED" /\ i \in Rows
    BY DEF Rows
  <2>2. e \in claim[i].epochs /\ e \in Epochs
    BY <1>1, <2>1 DEF Tame
  <2>. QED  BY <2>1, <2>2 DEF Charging, Charged
<1>4. ASSUME NEW i \in Rows'
      PROVE  Held(i)'
  <2>1. CASE i \notin Rows
    BY <2>1 DEF Held
  <2>2. CASE i \in Rows /\ Hopeless(i)
    BY <2>2, HopelessStays DEF Held
  <2>3. CASE i \in Rows /\ Whole(i)
    <3>1. claim[i].epochs \subseteq Epochs /\ claim'[i].epochs = claim[i].epochs
      BY <1>1, <2>3 DEF Tame, Rows
    <3>2. Whole(i)'
      BY <2>3, <3>1 DEF Whole
    <3>. QED  BY <3>2 DEF Held
  <2>4. CASE i \in Rows /\ job["run"].id = i /\ job["run"].at \in {"prepare", "own"}
    BY <2>4
  <2>. QED  BY <2>1, <2>2, <2>3, <2>4 DEF Charging, Held
<1>5. ASSUME NEW t \in Tasks
      PROVE  Handling(t)'
  <2>1. CASE job'[t] = job[t]
    <3>1. job[t].trades \subseteq Epochs /\ job[t].left \subseteq Epochs
      BY <1>1 DEF Jobs
    <3>2. Handling(t)
      BY DEF Charging
    <3>. QED  BY <2>1, <3>1, <3>2, StillHandling
  <2>2. CASE job'[t].at \notin ApplySteps
    BY <2>2 DEF Handling, ApplySteps
  <2>. QED  BY <2>1, <2>2
<1>. QED  BY <1>2, <1>3, <1>4, <1>5 DEF Charging

\* Outside the task that moves, nothing about trades and claims changes.
LEMMA QuietCharging ==
  ASSUME Inv, Tame, Charging,
         \A e \in Epochs : trade'[e].id = trade[e].id /\ trade'[e].gas = trade[e].gas,
         UNCHANGED <<job, claim>>,
         job["reconciler"].at \in ApplySteps => list' \subseteq list
  PROVE  Charging'
<1>1. Assembled'
  <2>1. job["run"] \in Jobs /\ Assembled
    BY DEF Inv, TypeOK, Tasks, Charging
  <2>. QED  BY <2>1 DEF Assembled, Jobs
<1>2. Rows' = Rows
  BY DEF Rows
<1>3. \A i \in Rows : job["run"].id = i /\ job["run"].at \in {"prepare", "own"} => Held(i)'
  BY DEF Held
<1>. QED  BY <1>1, <1>2, <1>3, Frame

\* A task dies: a claim it was preparing is never sent.
LEMMA DieCharging ==
  ASSUME Inv, Tame, Charging, NEW dead \in SUBSET Tasks, Die(dead)
  PROVE  Charging'
<1>1. /\ \A t \in Tasks : job'[t] = Idle \/ job'[t] = job[t]
      /\ UNCHANGED <<trade, claim, tx>> /\ list' \subseteq list
      /\ "run" \in Tasks
  BY DEF Die, Tasks
<1>2. Idle.at = "idle" /\ Idle.id = 0 /\ "idle" \notin ApplySteps
  BY DEF Idle, ApplySteps
<1>3. Assembled'
  BY <1>1, <1>2 DEF Charging, Assembled
<1>4. Rows' = Rows
  BY <1>1 DEF Rows
<1>5. ASSUME NEW i \in Rows, job["run"].id = i, job["run"].at \in {"prepare", "own"}
      PROVE  Held(i)'
  <2>1. CASE job'["run"] = job["run"]
    BY <1>5, <2>1 DEF Held
  <2>2. CASE job'["run"] = Idle
    <3>1. tx'[i] = "none"
      BY <1>1, <1>5 DEF Inv, Prepared
    <3>2. job'["run"].at \notin Building
      BY <1>2, <2>2 DEF Building
    <3>. QED  BY <3>1, <3>2 DEF Held, Hopeless
  <2>. QED  BY <1>1, <2>1, <2>2
<1>6. \A t \in Tasks : job'[t] = job[t] \/ job'[t].at \notin ApplySteps
  BY <1>1, <1>2
<1>. QED  BY <1>1, <1>3, <1>4, <1>5, <1>6, Frame

\* The run takes the unclaimed trades, which are in no claim, and prepares one.
LEMMA PrepareCharging ==
  ASSUME Inv, Tame, Charging,
         RunStart \/ RunCheck \/ RunMark \/ RunInsert \/ RunPrepare \/ RunUnprepared
  PROVE  Charging'
<1>. DEFINE j == job["run"]
            k == job'["run"]
<1>1. TypeOK /\ job \in [Tasks -> Jobs] /\ Tasks = {"run", "reconciler"}
  BY DEF Inv, TypeOK, Tasks
<1>2. /\ job'["reconciler"] = job["reconciler"] /\ UNCHANGED <<tx, list>>
      /\ \A e \in Epochs : trade'[e].id = trade[e].id /\ trade'[e].gas = trade[e].gas
  BY <1>1, StartEffect, CheckEffect, MarkEffect, InsertEffect, PrepareEffect, UnpreparedEffect
<1>3. Idle.at = "idle" /\ Idle.id = 0
  BY DEF Idle
<1>4. \/ k.at = "check" /\ k.trades = Unclaimed
      \/ /\ k.at \in {"mark", "insert", "prepare"} /\ j.at \in {"check", "mark", "insert"}
         /\ k.trades \subseteq j.trades
      \/ /\ k.at = "own" /\ j.at = "prepare" /\ k.trades = j.trades /\ k.left = j.trades
         /\ k.id = j.id
      \/ k = Idle
  BY <1>1, StartEffect, CheckEffect, MarkEffect, InsertEffect, PrepareEffect, UnpreparedEffect
<1>5. j.trades \subseteq Epochs /\ \A e \in Unclaimed : e \in Epochs /\ trade[e].id = 0
  BY <1>1 DEF Jobs, Unclaimed, Inv, Attached
<1>6. Assembled'
  <2>1. Assembled
    BY DEF Charging
  <2>2. /\ k.at \in {"check", "mark", "insert", "prepare"} => \A e \in k.trades : trade'[e].id = 0
        /\ k.at = "own" => /\ k.left = k.trades
                           /\ \A e \in k.trades : trade'[e].id = 0
        /\ k.at # "broadcast"
    BY <1>2, <1>3, <1>4, <1>5, <2>1 DEF Assembled
  <2>. QED  BY <2>2 DEF Assembled
<1>7. k.at \notin ApplySteps
  BY <1>3, <1>4 DEF ApplySteps
<1>8. \A i \in Ids : claim'[i].status = "CONFIRMED" => claim[i].status = "CONFIRMED"
  <2>1. CASE RunInsert
    BY <2>1, InsertEffect
  <2>2. CASE RunPrepare \/ RunUnprepared
    BY <2>2, PrepareEffect, UnpreparedEffect
  <2>3. CASE UNCHANGED claim
    BY <2>3
  <2>. QED  BY <2>1, <2>2, <2>3 DEF RunStart, RunCheck, RunMark
<1>9. \A i \in Rows' : i \in Rows \/ (k.id = i /\ k.at = "prepare")
  <2>1. CASE RunInsert
    BY <2>1, InsertEffect DEF Rows
  <2>2. CASE RunPrepare \/ RunUnprepared
    <3>1. j.id \in Rows
      BY <2>2 DEF RunPrepare, RunUnprepared, Inv, Prepared, Rows
    <3>2. \A i \in Ids : i # j.id => claim'[i] = claim[i]
      BY <2>2, PrepareEffect, UnpreparedEffect
    <3>. QED  BY <3>1, <3>2 DEF Rows
  <2>3. CASE UNCHANGED claim
    BY <2>3 DEF Rows
  <2>. QED  BY <2>1, <2>2, <2>3 DEF RunStart, RunCheck, RunMark
<1>10. ASSUME NEW i \in Rows, j.id = i, j.at \in {"prepare", "own"}
       PROVE  Held(i)'
  <2>1. CASE k.at = "own" /\ k.id = j.id
    BY <1>10, <2>1 DEF Held
  <2>2. CASE k = Idle
    <3>1. tx'[i] = "none" /\ k.at \notin Building
      BY <1>2, <1>3, <1>10, <2>2 DEF Inv, Prepared, Building
    <3>. QED  BY <3>1 DEF Held, Hopeless
  <2>3. RunPrepare \/ RunUnprepared
    BY <1>10 DEF RunStart, RunCheck, RunMark, RunInsert
  <2>. QED  BY <2>1, <2>2, <2>3, PrepareEffect, UnpreparedEffect
<1>11. \A t \in Tasks : job'[t] = job[t] \/ job'[t].at \notin ApplySteps
  BY <1>1, <1>2, <1>7
<1>. HIDE DEF j, k
<1>. QED
  BY <1>2, <1>6, <1>8, <1>9, <1>10, <1>11, Frame DEF j, k

\* It attaches a trade that was in no claim to its own.
LEMMA OwnCharging ==
  ASSUME Inv, Tame, Charging, RunOwn
  PROVE  Charging'
<1>. DEFINE j == job["run"]
            k == job'["run"]
<1>1. PICK e \in j.left :
         /\ e \in Epochs
         /\ job'["reconciler"] = job["reconciler"]
         /\ j.at = "own"
         /\ k.id = j.id /\ k.trades = j.trades
         /\ \/ k.at = "own" /\ k.left = j.left \ {e}
            \/ k.at = "broadcast" /\ j.left = {e}
         /\ trade'[e].id = j.id /\ trade'[e].gas = trade[e].gas
         /\ \A d \in Epochs : d # e => trade'[d] = trade[d]
         /\ UNCHANGED <<tx, claim, list>>
  BY OwnEffect
<1>2. /\ j.id \in Ids /\ claim[j.id].epochs = j.trades /\ e \in j.trades
      /\ \A d \in j.trades : trade[d].id = IF d \in j.left THEN 0 ELSE j.id
      /\ 0 \notin Ids
  BY <1>1 DEF Inv, Prepared, Charging, Assembled, Ids
<1>3. TypeOK /\ j.trades \subseteq Epochs /\ Tasks = {"run", "reconciler"}
  BY DEF Inv, TypeOK, Tasks, Jobs
<1>. HIDE DEF j, k
<1>4. Assembled'
  <2>1. /\ k.at = "own" => \A d \in k.trades : trade'[d].id = IF d \in k.left THEN 0 ELSE k.id
        /\ k.at = "broadcast" => \A d \in k.trades : trade'[d].id = k.id
    BY <1>1, <1>2, <1>3
  <2>2. k.at \in {"own", "broadcast"}
    BY <1>1
  <2>. QED  BY <2>1, <2>2 DEF Assembled, k
<1>5. k.at \notin ApplySteps
  BY <1>1 DEF ApplySteps
<1>6. Exclusive'
  BY <1>5 DEF Exclusive, Applies, ApplySteps, k
<1>7. Charged'
  <2>1. \A d \in Epochs : trade'[d].gas = trade[d].gas
    BY <1>1
  <2>2. \A i \in Ids : claim[i].epochs \subseteq Epochs
    BY <1>3 DEF TypeOK
  <2>. QED  BY <1>1, <2>1, <2>2 DEF Charging, Charged
<1>8. ASSUME NEW i \in Rows'
      PROVE  Held(i)'
  <2>0. i \in Rows /\ i \in Ids /\ claim'[i].epochs = claim[i].epochs
    BY <1>1 DEF Rows
  <2>1. CASE Hopeless(i)
    BY <2>0, <2>1, HopelessStays DEF Held
  <2>2. CASE Whole(i)
    <3>1. e \notin claim[i].epochs
      BY <1>1, <1>2, <2>0, <2>2 DEF Whole
    <3>2. \A d \in claim[i].epochs : trade'[d] = trade[d]
      BY <1>1, <1>3, <2>0, <3>1 DEF TypeOK
    <3>3. Whole(i)'
      BY <2>0, <2>2, <3>2 DEF Whole
    <3>. QED  BY <3>3 DEF Held
  <2>3. CASE j.id = i
    <3>1. CASE k.at = "own"
      BY <1>1, <2>3, <3>1 DEF Held, j, k
    <3>2. CASE k.at = "broadcast"
      <4>1. \A d \in claim'[i].epochs : trade'[d].id = i
        BY <1>1, <1>2, <1>3, <2>0, <2>3, <3>2
      <4>. QED  BY <4>1 DEF Held, Whole
    <3>. QED  BY <1>1, <3>1, <3>2
  <2>. QED  BY <2>0, <2>1, <2>2, <2>3 DEF Charging, Held, j
<1>9. Handling("run")'
  BY <1>5 DEF Handling, ApplySteps, k
<1>10. Handling("reconciler")'
  <2>1. CASE job["reconciler"].at \notin ApplySteps
    BY <1>1, <2>1 DEF Handling, ApplySteps
  <2>2. CASE job["reconciler"].at \in ApplySteps
    <3>1. /\ job["reconciler"].id \in Ids
          /\ job["reconciler"].trades \subseteq Epochs /\ job["reconciler"].left \subseteq Epochs
      BY <1>3, <2>2, ApplyingRow
    <3>2. \A d \in Epochs : /\ trade'[d].gas = trade[d].gas
                            /\ trade[d].id # 0 => trade'[d].id = trade[d].id
      BY <1>1, <1>2
    <3>3. Handling("reconciler")
      BY <1>3 DEF Charging
    <3>. QED  BY <1>1, <1>2, <1>3, <3>1, <3>2, <3>3, StillHandling
  <2>. QED  BY <2>1, <2>2
<1>. QED  BY <1>3, <1>4, <1>6, <1>7, <1>8, <1>9, <1>10 DEF Charging

\* A refused claim was never sent.
LEMMA BroadcastCharging ==
  ASSUME Inv, Tame, Charging, RunBroadcast
  PROVE  Charging'
<1>. DEFINE j == job["run"]
            k == job'["run"]
<1>1. TypeOK /\ job \in [Tasks -> Jobs] /\ Tasks = {"run", "reconciler"}
  BY DEF Inv, TypeOK, Tasks
<1>2. /\ job'["reconciler"] = job["reconciler"]
      /\ j.at = "broadcast" /\ k.id = j.id /\ k.trades = j.trades
      /\ \/ k.at = "wait"
         \/ k.at = "close" /\ k.out = "FAILED" /\ UNCHANGED tx
      /\ UNCHANGED <<trade, claim, list>>
  BY <1>1, BroadcastEffect
<1>3. /\ tx[j.id] = "none" /\ job["reconciler"].id # j.id
      /\ \A e \in j.trades : trade[e].id = j.id
  BY <1>2 DEF Inv, Prepared, Charging, Assembled
<1>4. Assembled'
  BY <1>2 DEF Assembled
<1>5. Rows' = Rows
  BY <1>2 DEF Rows
<1>6. CASE k.at = "wait"
  <2>1. \A t \in Tasks : job'[t] = job[t] \/ job'[t].at \notin ApplySteps
    BY <1>1, <1>2, <1>6 DEF ApplySteps
  <2>. QED  BY <1>2, <1>4, <1>5, <2>1, Frame
<1>7. CASE k.at = "close" /\ k.out = "FAILED" /\ UNCHANGED tx
  <2>1. Handling("run")'
    BY <1>2, <1>3, <1>7 DEF Handling
  <2>2. ~Applies("reconciler", k.id)
    BY <1>2, <1>3 DEF Applies
  <2>3. \A t \in Tasks : \/ job'[t] = job[t]
                         \/ /\ Handling(t)'
                            /\ \A d \in Tasks \ {t} : job'[d] = job[d] /\ ~Applies(d, job'[t].id)
    BY <1>1, <1>2, <2>1, <2>2
  <2>. QED  BY <1>2, <1>4, <1>5, <2>3, Frame
<1>. QED  BY <1>2, <1>6, <1>7

\* The gas a receipt has read.
LEMMA ReceiptGas ==
  ASSUME NEW i \in Ids, TypeOK
  PROVE  \A e \in TradesOf(i) : Receipt(i).gas[e] = trade[e].gas
<1>. DEFINE j == [Idle EXCEPT !.id = i, !.at = "gas", !.trades = TradesOf(i), !.left = TradesOf(i),
                        !.gas = [e \in Epochs |-> IF e \in TradesOf(i) THEN trade[e].gas ELSE NoGas],
                        !.out = IF tx[i] = "success" THEN "CONFIRMED" ELSE "FAILED"]
<1>1. TradesOf(i) \subseteq Epochs
  BY DEF TypeOK, TradesOf
<1>2. /\ j.gas = [e \in Epochs |-> IF e \in TradesOf(i) THEN trade[e].gas ELSE NoGas]
      /\ j \in Jobs
  <2>1. [e \in Epochs |-> IF e \in TradesOf(i) THEN trade[e].gas ELSE NoGas] \in [Epochs -> Shares]
    BY NoGasType DEF TypeOK, Trades
  <2>. QED  BY <1>1, <2>1 DEF Idle, Jobs, Steps
<1>3. Receipt(i) = Then(j, "close")
  BY Zenon DEF Receipt
<1>. HIDE DEF j
<1>4. Then(j, "close").gas = j.gas
  <2>1. CASE j.left = {}
    <3>1. Then(j, "close") = [j EXCEPT !.at = "close", !.left = @ \cup j.trades]
      BY <2>1, Zenon DEF Then
    <3>. QED  BY <1>2, <3>1 DEF Jobs
  <2>2. CASE j.left # {}
    BY <2>2 DEF Then
  <2>. QED  BY <2>1, <2>2
<1>. QED  BY <1>1, <1>2, <1>3, <1>4

\* A task that takes up a mined claim finds all its trades, unless it reverted.
LEMMA ReceiptHandling ==
  ASSUME Inv, Charging, NEW t \in Tasks, NEW i \in Rows, job'[t] = Receipt(i), Mined(i),
         UNCHANGED <<tx, trade, claim>>,
         ~(job["run"].id = i /\ job["run"].at \in {"prepare", "own"}),
         job["run"].id = i \/ i \in list
  PROVE  Handling(t)'
<1>1. TypeOK /\ i \in Ids
  BY DEF Inv, Rows
<1>. DEFINE r == Receipt(i)
<1>2. /\ r.id = i /\ r.trades = TradesOf(i)
      /\ r.out = IF tx[i] = "success" THEN "CONFIRMED" ELSE "FAILED"
      /\ \/ r.at = "gas" /\ r.left = TradesOf(i) /\ TradesOf(i) # {}
         \/ r.at = "close" /\ TradesOf(i) = {}
      /\ \A e \in TradesOf(i) : r.gas[e] = trade[e].gas
  BY <1>1, ReceiptEffect, ReceiptGas
<1>3. tx[i] = "success" => TradesOf(i) = claim[i].epochs
  <2>. SUFFICES ASSUME tx[i] = "success" PROVE TradesOf(i) = claim[i].epochs
    OBVIOUS
  <2>1. ~Hopeless(i)
    BY DEF Hopeless
  <2>2. Whole(i)
    BY <2>1 DEF Charging, Held
  <2>. QED  BY <2>2 DEF Whole, TradesOf
<1>4. \A e \in TradesOf(i) : trade[e].id = i
  BY DEF TradesOf
<1>5. tx[i] # "success" => tx[i] = "reverted"
  BY DEF Mined
<1>. HIDE DEF r
<1>6. job'[t] = r
  BY DEF r
<1>. QED  BY <1>2, <1>3, <1>4, <1>5, <1>6 DEF Handling

\* The run has a receipt, which the reconciler is not applying, or gives up waiting.
LEMMA WaitCharging ==
  ASSUME Inv, Tame, Charging, RunWait, ~contested'
  PROVE  Charging'
<1>1. /\ TypeOK /\ job \in [Tasks -> Jobs] /\ Tasks = {"run", "reconciler"}
      /\ job["run"].at = "wait" /\ job["run"].id \in Ids
      /\ UNCHANGED <<tx, trade, claim, list>>
  BY DEF Inv, TypeOK, Tasks, RunWait, Prepared
<1>2. job["run"].id \in Rows
  BY <1>1 DEF Inv, NotBefore
<1>3. Rows' = Rows
  BY <1>1 DEF Rows
<1>4. CASE Do("run", Idle)
  <2>1. job'["run"] = Idle /\ job'["reconciler"] = job["reconciler"]
    BY <1>1, <1>4, DoEffect
  <2>2. Assembled'
    BY <2>1 DEF Assembled, Idle
  <2>3. \A t \in Tasks : job'[t] = job[t] \/ job'[t].at \notin ApplySteps
    BY <1>1, <2>1 DEF ApplySteps, Idle
  <2>. QED  BY <1>1, <1>3, <2>2, <2>3, Frame
<1>5. CASE Mined(job["run"].id) /\ Begin("run", Receipt(job["run"].id))
  <2>. DEFINE r == Receipt(job["run"].id)
  <2>1. /\ job'["run"] = r /\ job'["reconciler"] = job["reconciler"]
        /\ ~\E d \in Tasks \ {"run"} : Applies(d, r.id)
    BY <1>1, <1>5, DoEffect, Zenon DEF Begin
  <2>2. r.id = job["run"].id /\ r.at \in {"gas", "close"}
    BY <1>1, ReceiptEffect
  <2>3. Handling("run")'
    BY <1>1, <1>2, <1>5, <2>1, ReceiptHandling
  <2>. HIDE DEF r
  <2>4. Assembled'
    BY <2>1, <2>2 DEF Assembled
  <2>5. \A d \in Tasks \ {"run"} : job'[d] = job[d] /\ ~Applies(d, job'["run"].id)
    BY <1>1, <2>1
  <2>6. \A t \in Tasks : \/ job'[t] = job[t]
                         \/ /\ Handling(t)'
                            /\ \A d \in Tasks \ {t} : job'[d] = job[d] /\ ~Applies(d, job'[t].id)
    BY <1>1, <2>1, <2>3, <2>5
  <2>. QED  BY <1>1, <1>3, <2>4, <2>6, Frame
<1>. QED  BY <1>4, <1>5 DEF RunWait

\* The reconciler takes up an open claim, which the run is not applying.
LEMMA ReconcileCharging ==
  ASSUME Inv, Tame, Charging, ReconcileClaim, ~contested'
  PROVE  Charging'
<1>. DEFINE i == Least(list)
            r == "reconciler"
<1>1. /\ TypeOK /\ job \in [Tasks -> Jobs] /\ Tasks = {"run", "reconciler"}
      /\ i \in Ids /\ i \in list /\ job[r].at = "idle"
      /\ UNCHANGED <<tx, trade>> /\ list' = list \ {i}
  <2>1. i \in Ids /\ i \in list
    BY LeastId DEF ReconcileClaim, Inv, TypeOK
  <2>. QED  BY <2>1 DEF Inv, TypeOK, ReconcileClaim, Tasks
<1>2. \/ /\ UNCHANGED job
         /\ UNCHANGED claim \/ (claim[i].status = "PENDING" /\ claim' = [claim EXCEPT ![i].status = "FAILED"])
      \/ Mined(i) /\ Begin(r, Receipt(i)) /\ UNCHANGED claim
      \/ /\ Dropped(i) /\ ~Mined(i) /\ UNCHANGED claim
         /\ Begin(r, [Idle EXCEPT !.id = i, !.at = "close", !.trades = TradesOf(i)])
  BY DEF ReconcileClaim
<1>. HIDE DEF i
<1>3. CASE /\ UNCHANGED job
           /\ UNCHANGED claim \/ (claim[i].status = "PENDING" /\ claim' = [claim EXCEPT ![i].status = "FAILED"])
  <2>1. /\ \A k \in Ids : claim'[k].status = "CONFIRMED" => claim[k].status = "CONFIRMED"
        /\ Rows' = Rows
    BY <1>1, <1>3 DEF TypeOK, Rows
  <2>2. Assembled'
    BY <1>1, <1>3 DEF Charging, Assembled
  <2>3. \A k \in Rows : job["run"].id = k /\ job["run"].at \in {"prepare", "own"} => Held(k)'
    BY <1>3 DEF Held
  <2>. QED  BY <1>1, <1>3, <2>1, <2>2, <2>3, Frame
<1>4. ASSUME NEW j \in Jobs, j.id = i, j.at \in {"gas", "close"}, Begin(r, j), UNCHANGED claim,
             job'[r] = j => Handling(r)'
      PROVE  Charging'
  <2>1. /\ job'[r] = j /\ job'["run"] = job["run"]
        /\ ~\E d \in Tasks \ {r} : Applies(d, i)
    BY <1>1, <1>4, DoEffect, Zenon DEF Begin
  <2>2. Assembled'
    BY <1>1, <2>1 DEF Charging, Assembled
  <2>3. \A t \in Tasks : \/ job'[t] = job[t]
                         \/ /\ Handling(t)'
                            /\ \A d \in Tasks \ {t} : job'[d] = job[d] /\ ~Applies(d, job'[t].id)
    BY <1>1, <1>4, <2>1
  <2>4. Rows' = Rows
    BY <1>4 DEF Rows
  <2>5. \A k \in Rows : job["run"].id = k /\ job["run"].at \in {"prepare", "own"} => Held(k)'
    BY <2>1 DEF Held
  <2>. QED  BY <1>1, <1>4, <2>2, <2>3, <2>4, <2>5, Frame
<1>5. CASE Mined(i) /\ Begin(r, Receipt(i)) /\ UNCHANGED claim
  <2>1. i \in Rows
    BY <1>1, <1>5 DEF Inv, NotBefore, Mined
  <2>2. ~(job["run"].id = i /\ job["run"].at \in {"prepare", "own"})
    BY <1>5 DEF Inv, Prepared, Mined
  <2>3. job'[r] = Receipt(i) => Handling(r)'
    BY <1>1, <1>5, <2>1, <2>2, ReceiptHandling
  <2>4. Receipt(i) \in Jobs /\ Receipt(i).id = i /\ Receipt(i).at \in {"gas", "close"}
    BY <1>1, ReceiptType, ReceiptEffect
  <2>. QED  BY <1>4, <1>5, <2>3, <2>4
<1>6. CASE /\ Dropped(i) /\ ~Mined(i) /\ UNCHANGED claim
           /\ Begin(r, [Idle EXCEPT !.id = i, !.at = "close", !.trades = TradesOf(i)])
  <2>. DEFINE j == [Idle EXCEPT !.id = i, !.at = "close", !.trades = TradesOf(i)]
  <2>1. TradesOf(i) \subseteq Epochs /\ \A e \in TradesOf(i) : trade[e].id = i
    BY <1>1 DEF TypeOK, TradesOf
  <2>2. /\ j.id = i /\ j.at = "close" /\ j.trades = TradesOf(i) /\ j.out = "FAILED"
        /\ j \in Jobs
    BY <1>1, <2>1, IdleType DEF Idle, Jobs, Steps
  <2>3. job["run"].id # i
    BY <1>6 DEF Dropped, Inv, Prepared
  <2>. HIDE DEF j
  <2>4. ASSUME job'[r] = j PROVE Handling(r)'
    <3>1. job'["run"] = job["run"]
      BY <1>1, <1>6, DoEffect, Zenon DEF Begin
    <3>. QED  BY <1>1, <2>1, <2>2, <2>3, <2>4, <3>1 DEF Handling
  <2>5. Begin(r, j)
    BY <1>6 DEF j
  <2>. QED  BY <1>4, <1>6, <2>2, <2>4, <2>5
<1>. QED  BY <1>2, <1>3, <1>5, <1>6

\* A share of gas is charged: on top of what the trade was charged with when it was read, as
\* nobody else has charged it since.
LEMMA ChargeCharging ==
  ASSUME Inv, Tame, Charging, NEW t \in Tasks, ChargeGas(t)
  PROVE  Charging'
<1>1. PICK e \in job[t].left :
         /\ e \in Epochs
         /\ \A u \in Tasks : u # t => job'[u] = job[u]
         /\ job[t].at = "gas" /\ job'[t].id = job[t].id /\ job'[t].trades = job[t].trades
         /\ job'[t].out = job[t].out /\ job'[t].gas = job[t].gas
         /\ \/ job'[t].at = "gas" /\ job'[t].left = job[t].left \ {e}
            \/ job'[t].at = "close" /\ job[t].left = {e}
         /\ trade'[e].id = trade[e].id /\ trade'[e].gas = [job[t].gas[e] EXCEPT ![job[t].id] = @ + 1]
         /\ \A d \in Epochs : d # e => trade'[d] = trade[d]
         /\ UNCHANGED <<tx, claim, list>>
  BY ChargeEffect
<1>2. /\ TypeOK /\ job \in [Tasks -> Jobs] /\ Tasks = {"run", "reconciler"}
      /\ Handling(t) /\ Applying(t)
  BY DEF Inv, TypeOK, Tasks, Charging
<1>3. PICK i \in Ids : /\ i = job[t].id /\ i \in Rows
                       /\ job[t].trades \subseteq Epochs /\ job[t].left \subseteq job[t].trades
  BY <1>1, <1>2, ApplyingRow DEF Applying, ApplySteps
<1>4. /\ trade[e].id = i /\ job[t].gas[e] = trade[e].gas
      /\ trade[e].gas \in Shares
  BY <1>1, <1>2, <1>3 DEF Handling, TypeOK, Trades
<1>5. /\ trade'[e].gas[i] > 0
      /\ \A k \in Ids : trade[e].gas[k] > 0 => trade'[e].gas[k] > 0
  <2>1. trade'[e].gas = [trade[e].gas EXCEPT ![i] = @ + 1]
    BY <1>1, <1>3, <1>4
  <2>. QED  BY <1>4, <2>1, OneMore, Zenon
<1>6. \A d \in Epochs : /\ trade'[d].id = trade[d].id
                        /\ \A k \in Ids : trade[d].gas[k] > 0 => trade'[d].gas[k] > 0
  BY <1>1, <1>5
<1>7. \A u \in Tasks, k \in Ids : Applies(u, k)' => Applies(u, k)
  BY <1>1, <1>2 DEF Applies
<1>8. Assembled'
  <2>1. CASE t = "run"
    BY <1>1, <2>1 DEF Assembled
  <2>2. CASE t # "run"
    <3>1. job'["run"] = job["run"] /\ job["run"].trades \subseteq Epochs
      BY <1>1, <1>2, <2>2 DEF Jobs
    <3>. QED  BY <1>6, <3>1 DEF Charging, Assembled
  <2>. QED  BY <2>1, <2>2
<1>9. Exclusive'
  BY <1>2, <1>7 DEF Charging, Exclusive
<1>10. Charged'
  <2>1. \A k \in Ids : claim[k].epochs \subseteq Epochs
    BY <1>2 DEF TypeOK
  <2>. QED  BY <1>1, <1>6, <2>1 DEF Charging, Charged
<1>11. ASSUME NEW k \in Rows'
       PROVE  Held(k)'
  <2>0. k \in Rows /\ claim'[k].epochs = claim[k].epochs /\ claim[k].epochs \subseteq Epochs
    BY <1>1, <1>2 DEF Rows, TypeOK
  <2>1. CASE Hopeless(k)
    BY <2>0, <2>1, HopelessStays DEF Held
  <2>2. CASE Whole(k)
    BY <1>6, <2>0, <2>2 DEF Held, Whole
  <2>3. CASE job["run"].id = k /\ job["run"].at \in {"prepare", "own"}
    <3>1. job'["run"] = job["run"]
      BY <1>1, <1>2, <2>3
    <3>. QED  BY <2>3, <3>1 DEF Held
  <2>. QED  BY <2>0, <2>1, <2>2, <2>3 DEF Charging, Held
<1>12. Handling(t)'
  <2>1. /\ \A d \in job[t].trades : trade'[d].id = i
        /\ job[t].out = "CONFIRMED" => job[t].trades = claim'[i].epochs
    BY <1>1, <1>2, <1>3, <1>6 DEF Handling
  <2>2. job'[t].at = "gas" => /\ \A d \in job'[t].left : job[t].gas[d] = trade'[d].gas
                              /\ \A d \in job[t].trades \ job'[t].left : trade'[d].gas[i] > 0
    BY <1>1, <1>2, <1>3, <1>5, <1>6 DEF Handling
  <2>3. job'[t].at = "close" => \A d \in job[t].trades : trade'[d].gas[i] > 0
    BY <1>1, <1>2, <1>3, <1>5, <1>6 DEF Handling
  <2>4. job[t].out = "FAILED" =>
          \/ tx'[i] \in {"none", "reverted"}
          \/ t = "reconciler" /\ job'["run"].id # i /\ i \notin list'
    BY <1>1, <1>2, <1>3 DEF Handling, ApplySteps
  <2>. QED  BY <1>1, <1>3, <2>1, <2>2, <2>3, <2>4 DEF Handling
<1>13. ASSUME NEW u \in Tasks, u # t
       PROVE  Handling(u)'
  <2>1. CASE job[u].at \notin ApplySteps
    BY <1>1, <1>13, <2>1 DEF Handling, ApplySteps
  <2>2. CASE job[u].at \in ApplySteps
    <3>1. job[u].id # i
      BY <1>1, <1>2, <1>3, <1>13, <2>2 DEF Charging, Exclusive, Applies, ApplySteps
    <3>2. /\ job[u].id \in Ids /\ job[u].trades \subseteq Epochs
          /\ job[u].left \subseteq Epochs
      BY <2>2, ApplyingRow
    <3>3. Handling(u)
      BY DEF Charging
    <3>4. job[u].at = "gas" => \A d \in job[u].left : trade'[d].gas = trade[d].gas
      <4>1. job[u].at = "gas" => \A d \in job[u].left : trade[d].id = job[u].id
        BY <3>3 DEF Handling, Inv, Applying
      <4>. QED  BY <1>1, <1>4, <3>1, <3>2, <4>1
    <3>. QED  BY <1>1, <1>6, <1>13, <3>2, <3>3, <3>4, StillHandling
  <2>. QED  BY <2>1, <2>2
<1>. QED  BY <1>8, <1>9, <1>10, <1>11, <1>12, <1>13 DEF Charging

\* A claim is closed: a confirmed one with all its trades charged, a failed one for good.
LEMMA CloseCharging ==
  ASSUME Inv, Tame, Charging, NEW t \in Tasks, CloseClaim(t)
  PROVE  Charging'
<1>1. /\ \A u \in Tasks : u # t => job'[u] = job[u]
      /\ job[t].at = "close"
      /\ \/ job'[t] = Idle /\ job[t].trades = {}
         \/ /\ job'[t].at = "trades" /\ job'[t].id = job[t].id /\ job'[t].out = job[t].out
            /\ job'[t].trades = job[t].trades /\ job'[t].left = job[t].trades
      /\ claim'[job[t].id].status = job[t].out
      /\ \A k \in Ids : claim'[k].epochs = claim[k].epochs
      /\ \A k \in Ids : k # job[t].id => claim'[k] = claim[k]
      /\ UNCHANGED <<tx, trade, list>>
  BY CloseEffect
<1>2. /\ TypeOK /\ job \in [Tasks -> Jobs] /\ Tasks = {"run", "reconciler"}
      /\ Handling(t) /\ Idle.at = "idle" /\ Idle.id = 0
  BY DEF Inv, TypeOK, Tasks, Charging, Idle
<1>3. PICK i \in Ids : i = job[t].id /\ i \in Rows /\ i # 0
  BY <1>1, ApplyingRow DEF ApplySteps, Ids
<1>4. \A u \in Tasks, k \in Ids : Applies(u, k)' => Applies(u, k)
  BY <1>1, <1>2 DEF Applies
<1>5. Assembled'
  <2>1. CASE t = "run"
    BY <1>1, <1>2, <2>1 DEF Assembled
  <2>2. CASE t # "run"
    <3>1. job'["run"] = job["run"]
      BY <1>1, <1>2, <2>2
    <3>. QED  BY <1>1, <3>1 DEF Charging, Assembled
  <2>. QED  BY <2>1, <2>2
<1>6. Exclusive'
  BY <1>2, <1>4 DEF Charging, Exclusive
<1>7. Charged'
  <2>. SUFFICES ASSUME NEW k \in Ids, NEW e \in claim[k].epochs, claim'[k].status = "CONFIRMED"
                PROVE  trade[e].gas[k] > 0
    BY <1>1 DEF Charged
  <2>1. CASE k = i
    BY <1>1, <1>2, <1>3, <2>1 DEF Handling
  <2>2. CASE k # i
    BY <1>1, <1>3, <2>2 DEF Charging, Charged
  <2>. QED  BY <2>1, <2>2
<1>8. ASSUME NEW k \in Rows'
      PROVE  Held(k)'
  <2>0. k \in Rows /\ claim'[k].epochs = claim[k].epochs
    BY <1>1, <1>3 DEF Rows
  <2>1. CASE Hopeless(k)
    BY <2>0, <2>1, HopelessStays DEF Held
  <2>2. CASE Whole(k)
    BY <1>1, <2>0, <2>2 DEF Held, Whole
  <2>3. CASE job["run"].id = k /\ job["run"].at \in {"prepare", "own"}
    <3>1. job'["run"] = job["run"]
      BY <1>1, <1>2, <2>3
    <3>. QED  BY <2>3, <3>1 DEF Held
  <2>. QED  BY <2>0, <2>1, <2>2, <2>3 DEF Charging, Held
<1>9. Handling(t)'
  <2>1. CASE job'[t] = Idle
    BY <1>2, <2>1 DEF Handling, ApplySteps
  <2>2. CASE job'[t].at = "trades" /\ job'[t].id = i /\ job'[t].out = job[t].out
              /\ job'[t].left = job[t].trades
    <3>1. \A e \in job[t].trades : trade'[e].id = i
      BY <1>1, <1>2, <1>3 DEF Handling
    <3>2. ASSUME job[t].out = "FAILED"
          PROVE  /\ Hopeless(i)'
                 /\ \/ tx'[i] \in {"none", "reverted"}
                    \/ t = "reconciler" /\ job'["run"].id # i /\ i \notin list'
      <4>1. CASE tx[i] = "reverted"
        BY <1>1, <4>1 DEF Hopeless
      <4>2. CASE tx[i] = "none"
        <5>1. ~(job'["run"].id = i /\ job'["run"].at \in Building)
          <6>1. CASE t = "run"
            BY <2>2, <6>1 DEF Building
          <6>2. CASE t # "run"
            BY <1>1, <1>2, <1>3, <6>2 DEF Inv, Prepared, Building
          <6>. QED  BY <6>1, <6>2
        <5>. QED  BY <1>1, <4>2, <5>1 DEF Hopeless
      <4>3. CASE t = "reconciler" /\ job["run"].id # i /\ i \notin list
        BY <1>1, <1>2, <1>3, <2>2, <3>2, <4>3 DEF Hopeless
      <4>. QED  BY <1>1, <1>2, <1>3, <3>2, <4>1, <4>2, <4>3 DEF Handling, ApplySteps
    <3>. QED  BY <2>2, <3>1, <3>2 DEF Handling, Hopeless
  <2>. QED  BY <1>1, <1>3, <2>1, <2>2
<1>10. ASSUME NEW u \in Tasks, u # t
       PROVE  Handling(u)'
  <2>1. Handling(u)
    BY DEF Charging
  <2>. QED  BY <1>1, <1>10, <2>1, StillHandling
<1>. QED  BY <1>5, <1>6, <1>7, <1>8, <1>9, <1>10 DEF Charging

\* A trade is resolved: one that is released is in the claim that failed, and in no other.
LEMMA ResolveCharging ==
  ASSUME Inv, Tame, Charging, NEW t \in Tasks, ResolveTrade(t)
  PROVE  Charging'
<1>1. PICK e \in job[t].left :
         /\ e \in Epochs
         /\ \A u \in Tasks : u # t => job'[u] = job[u]
         /\ job[t].at = "trades"
         /\ \/ job'[t] = Idle
            \/ /\ job'[t].at = "trades" /\ job'[t].id = job[t].id /\ job'[t].out = job[t].out
               /\ job'[t].left = job[t].left \ {e}
         /\ trade'[e].id = IF job[t].out = "CONFIRMED" THEN trade[e].id ELSE 0
         /\ trade'[e].gas = trade[e].gas
         /\ \A d \in Epochs : d # e => trade'[d] = trade[d]
         /\ UNCHANGED <<tx, claim, list>>
  BY ResolveEffect
<1>2. /\ TypeOK /\ job \in [Tasks -> Jobs] /\ Tasks = {"run", "reconciler"}
      /\ Handling(t) /\ Idle.at = "idle" /\ Idle.id = 0
  BY DEF Inv, TypeOK, Tasks, Charging, Idle
<1>3. PICK i \in Ids : /\ i = job[t].id /\ i \in Rows /\ i # 0
                       /\ job[t].out \in {"CONFIRMED", "FAILED"} /\ job[t].left \subseteq Epochs
  BY <1>1, ApplyingRow DEF ApplySteps, Ids
<1>4. \A u \in Tasks, k \in Ids : Applies(u, k)' => Applies(u, k)
  BY <1>1, <1>2 DEF Applies
<1>5. Rows' = Rows /\ \A d \in Epochs : trade'[d].gas = trade[d].gas
  BY <1>1 DEF Rows
<1>6. CASE job[t].out = "CONFIRMED"
  <2>1. \A d \in Epochs : trade'[d].id = trade[d].id
    BY <1>1, <1>6
  <2>2. Handling(t)'
    BY <1>1, <1>2, <1>6 DEF Handling, ApplySteps
  <2>3. ASSUME NEW d \in Tasks \ {t}
        PROVE  job'[d] = job[d] /\ (job'[t].at \in ApplySteps => ~Applies(d, job'[t].id))
    BY <1>1, <1>2, <1>3, <2>3 DEF Charging, Exclusive, Applies, ApplySteps
  <2>4. Assembled'
    <3>1. CASE t = "run"
      BY <1>1, <1>2, <3>1 DEF Assembled
    <3>2. CASE t # "run"
      <4>1. job'["run"] = job["run"] /\ job["run"].trades \subseteq Epochs
        BY <1>1, <1>2, <3>2 DEF Jobs
      <4>. QED  BY <2>1, <4>1 DEF Charging, Assembled
    <3>. QED  BY <3>1, <3>2
  <2>5. \A u \in Tasks : \/ job'[u] = job[u] \/ job'[u].at \notin ApplySteps
                         \/ /\ Handling(u)'
                            /\ \A d \in Tasks \ {u} : job'[d] = job[d] /\ ~Applies(d, job'[u].id)
    BY <1>1, <2>2, <2>3
  <2>6. \A k \in Rows : job["run"].id = k /\ job["run"].at \in {"prepare", "own"} => Held(k)'
    BY <1>1, <1>2 DEF Held
  <2>. QED  BY <1>1, <1>5, <2>1, <2>4, <2>5, <2>6, Frame
<1>7. CASE job[t].out = "FAILED"
  <2>1. trade[e].id = i /\ trade'[e].id = 0 /\ Hopeless(i)
    <3>1. trade[e].id = i
      BY <1>1, <1>2, <1>3, <1>7 DEF Handling
    <3>2. Hopeless(i)
      BY <1>1, <1>2, <1>3, <1>7 DEF Handling, Hopeless
    <3>. QED  BY <1>1, <1>7, <3>1, <3>2
  <2>2. Assembled'
    <3>1. CASE t = "run"
      BY <1>1, <1>2, <3>1 DEF Assembled
    <3>2. CASE t # "run"
      <4>1. /\ job'["run"] = job["run"] /\ job["run"].trades \subseteq Epochs
            /\ job["run"].at \in Building => job["run"].id # i
        BY <1>1, <1>2, <1>3, <3>2 DEF Jobs, Inv, Prepared, Building
      <4>. QED  BY <1>1, <2>1, <4>1 DEF Charging, Assembled, Building
    <3>. QED  BY <3>1, <3>2
  <2>3. Exclusive'
    BY <1>2, <1>4 DEF Charging, Exclusive
  <2>4. Charged'
    <3>1. \A k \in Ids : claim[k].epochs \subseteq Epochs
      BY <1>2 DEF TypeOK
    <3>. QED  BY <1>1, <1>5, <3>1 DEF Charging, Charged
  <2>5. ASSUME NEW k \in Rows'
        PROVE  Held(k)'
    <3>0. k \in Rows /\ k \in Ids /\ claim'[k].epochs = claim[k].epochs /\ claim[k].epochs \subseteq Epochs
      BY <1>1, <1>2 DEF Rows, TypeOK
    <3>1. CASE Hopeless(k)
      BY <3>0, <3>1, HopelessStays DEF Held
    <3>2. CASE Whole(k) /\ k # i
      <4>1. e \notin claim[k].epochs
        BY <2>1, <3>2 DEF Whole
      <4>2. \A d \in claim'[k].epochs : trade'[d].id = k
        BY <1>1, <3>0, <3>2, <4>1 DEF Whole
      <4>. QED  BY <4>2 DEF Held, Whole
    <3>3. CASE job["run"].id = k /\ job["run"].at \in {"prepare", "own"}
      <4>1. job'["run"] = job["run"]
        BY <1>1, <1>2, <3>3
      <4>. QED  BY <3>3, <4>1 DEF Held
    <3>. QED  BY <2>1, <3>0, <3>1, <3>2, <3>3 DEF Charging, Held
  <2>6. Handling(t)'
    <3>1. CASE job'[t] = Idle
      BY <1>2, <3>1 DEF Handling, ApplySteps
    <3>2. CASE job'[t].at = "trades" /\ job'[t].id = i /\ job'[t].out = job[t].out
                /\ job'[t].left = job[t].left \ {e}
      <4>1. Hopeless(i)'
        BY <1>3, <2>1, HopelessStays
      <4>2. \A d \in job'[t].left : trade'[d].id = i
        BY <1>1, <1>2, <1>3, <1>7, <3>2 DEF Handling
      <4>3. \/ tx'[i] \in {"none", "reverted"}
            \/ t = "reconciler" /\ job'["run"].id # i /\ i \notin list'
        BY <1>1, <1>2, <1>3, <1>7 DEF Handling, ApplySteps
      <4>. QED  BY <3>2, <4>1, <4>2, <4>3 DEF Handling, Hopeless
    <3>. QED  BY <1>1, <1>3, <3>1, <3>2
  <2>7. ASSUME NEW u \in Tasks, u # t
        PROVE  Handling(u)'
    <3>1. CASE job[u].at \notin ApplySteps
      BY <1>1, <2>7, <3>1 DEF Handling, ApplySteps
    <3>2. CASE job[u].at \in ApplySteps
      <4>1. job[u].id # i
        BY <1>1, <1>2, <1>3, <2>7, <3>2 DEF Charging, Exclusive, Applies, ApplySteps
      <4>2. job[u].trades \subseteq Epochs /\ job[u].left \subseteq Epochs
        BY <3>2, ApplyingRow
      <4>3. Handling(u)
        BY DEF Charging
      <4>. QED  BY <1>1, <1>5, <2>1, <2>7, <4>1, <4>2, <4>3, StillHandling
    <3>. QED  BY <3>1, <3>2
  <2>. QED  BY <2>2, <2>3, <2>4, <2>5, <2>6, <2>7 DEF Charging
<1>. QED  BY <1>3, <1>6, <1>7

\* All the steps.
LEMMA ChargingStep ==
  ASSUME Inv, [Next]_vars, Charging, ~contested'
  PROVE  Charging'
<1>1. Tame
  BY StepTame
<1>2. CASE RunStart \/ RunCheck \/ RunMark \/ RunInsert \/ RunPrepare \/ RunUnprepared
  BY <1>1, <1>2, PrepareCharging
<1>3. CASE RunOwn \/ RunBroadcast \/ RunWait
  BY <1>1, <1>3, OwnCharging, BroadcastCharging, WaitCharging
<1>4. ASSUME NEW t \in Tasks, Apply(t)
      PROVE  Charging'
  BY <1>1, <1>4, ChargeCharging, CloseCharging, ResolveCharging DEF Apply
<1>5. CASE ReconcileClaim
  BY <1>1, <1>5, ReconcileCharging
<1>6. ASSUME NEW dead \in SUBSET Tasks, Die(dead)
      PROVE  Charging'
  BY <1>1, <1>6, DieCharging
<1>7. ASSUME UNCHANGED <<trade, job, claim>>,
             job["reconciler"].at \in ApplySteps => list' \subseteq list
      PROVE  Charging'
  BY <1>1, <1>7, QuietCharging
<1>8. CASE ReconcileStart
  BY <1>7, <1>8 DEF ReconcileStart, ApplySteps
<1>9. CASE Gate \/ UNCHANGED vars
  BY <1>7, <1>9 DEF Gate, vars
<1>10. ASSUME NEW i \in Ids, Mine(i) \/ Age(i)
       PROVE  Charging'
  BY <1>7, <1>10 DEF Mine, Age
<1>11. ASSUME NEW e \in Epochs, Settle(e) \/ ClaimOutside(e) \/ SyncClaimed(e)
       PROVE  Charging'
  <2>1. /\ \A d \in Epochs : trade'[d].id = trade[d].id /\ trade'[d].gas = trade[d].gas
        /\ UNCHANGED <<job, claim, list>>
    <3>1. CASE ClaimOutside(e)
      BY <3>1 DEF ClaimOutside
    <3>2. CASE Settle(e) \/ SyncClaimed(e)
      <4>1. PICK s \in ClaimStatuses : trade' = [trade EXCEPT ![e].status = s]
        BY <3>2 DEF Settle, SyncClaimed, ClaimStatuses
      <4>2. trade \in [Epochs -> Trades]
        BY DEF Inv, TypeOK
      <4>. QED  BY <3>2, <4>1, <4>2 DEF Settle, SyncClaimed, Trades
    <3>. QED  BY <1>11, <3>1, <3>2
  <2>. QED  BY <1>1, <2>1, QuietCharging
<1>. QED
  BY <1>2, <1>3, <1>4, <1>5, <1>6, <1>8, <1>9, <1>10, <1>11 DEF Next, Run, Reconcile, Finished, Tasks

\* As long as the two tasks have never applied the outcome of one claim at the same time, a
\* confirmed claim is charged to each of its trades, whether they are still attached to it or
\* not, and stays so, wherever a task died and whatever other claims the trades were in.
THEOREM ConfirmedWasCharged == Spec => []ConfirmedIsCharged
<1>. DEFINE Ours == ~contested => Charging
<1>1. Init => Ours
  BY DEF Init, Charging, Assembled, Exclusive, Applies, Charged, Held, Handling, Rows, Idle, Tasks,
     ApplySteps
<1>2. Inv /\ Inv' /\ Ours /\ [Next]_vars => Ours'
  <2>1. [Next]_vars => (contested => contested')
    BY DEF Next, vars, Settle, ClaimOutside, SyncClaimed, Mine, Age, Gate, Run, Reconcile, Apply,
       RunStart, RunCheck, RunMark, RunInsert, RunPrepare, RunUnprepared, RunOwn, RunBroadcast,
       RunWait, ReconcileStart, ReconcileClaim, ChargeGas, CloseClaim, ResolveTrade, Begin, Die,
       Finished
  <2>. QED  BY <2>1, ChargingStep
<1>3. Ours => ConfirmedIsCharged
  BY DEF Charging, Charged, ConfirmedIsCharged
<1>. QED  BY <1>1, <1>2, <1>3, Inductive, PTL DEF Spec
=============================================================================
