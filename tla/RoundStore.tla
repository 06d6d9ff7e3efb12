----------------------------- MODULE RoundStore -----------------------------
(***************************************************************************)
(* The rounds table and everybody who writes it: the round monitor         *)
(* (services/roundMonitor.ts), the three kinds of history sync             *)
(* (services/historySync.ts) and the CSV import (services/csvImport.ts).   *)
(* The chain may drop blocks that are not CONFIRMATIONS deep.              *)
(*                                                                         *)
(* RoundsRepo.upsert reads the row and writes it later in a READ COMMITTED *)
(* transaction, so writers overlap inside it; the trigger                  *)
(* rounds_final_immutable has the last word.                               *)
(***************************************************************************)
EXTENDS Naturals, FiniteSets

CONSTANTS
  MaxEpoch,    \* bound: the rounds are 1..MaxEpoch
  Window,      \* GAP_WINDOW, also how far recovery catches up (maxEpochs)
  VerifySweep, \* VERIFY_SWEEP, the rounds verified by one reconciliation
  Ends,        \* bound: how a round that is ended in time may end
  Archive,     \* what the CSV archive says of the rounds it holds
  MaxBusy,     \* bound: how many tasks are under way at once
  MaxFaults    \* bound: how many crashes and failed syncs may happen

Epochs == 1 .. MaxEpoch
Outcomes == {"BULL", "BEAR", "CANCELLED"}   \* TIE is one more, told apart by nothing here
Results == Outcomes \cup {"pending"}

ASSUME BoundsAssumption ==
  /\ MaxEpoch \in Nat \ {0} /\ Window \in Nat /\ VerifySweep \in Nat \ {0}
  /\ MaxBusy \in Nat \ {0} /\ MaxFaults \in Nat
ASSUME EndsAssumption == Ends \subseteq {"BULL", "BEAR"}
ASSUME ArchiveAssumption ==
  DOMAIN Archive \subseteq Epochs /\ Archive \in [DOMAIN Archive -> Outcomes]

Syncs == {"incremental", "reconcile"}
Tasks == Syncs \cup {"monitor", "csv"}

VARIABLES
  \* the chain: the open round, and what became of the earlier ones
  head,      \* at the newest block
  safe,      \* CONFIRMATIONS blocks deeper, out of reach of a reorganisation
  \* the database
  row,       \* row[e]: who wrote the row of round e last, and its outcome
  cursor,    \* sync_state.reconcile_cursor, 0 when it is NULL
  imported,  \* an import of the archive has begun
  \* the processes
  phase,     \* of the worker: down, recovering or ready
  last,      \* lastEpoch of the monitor, 0 when it is null
  job,       \* job[t]: where task t is
  faults

chainVars == <<head, safe>>
vars == <<chainVars, row, cursor, imported, phase, last, job, faults>>

Chains == [open : Epochs, res : [Epochs -> Results]]
Rows == [src : {"none", "CHAIN", "CSV"}, out : Results]
NoRow == [src |-> "none", out |-> "pending"]
Unread == [e \in Epochs |-> "pending"]

\* A task: what it does, the rounds it still has to store, what it read of them, the one
\* it is storing with the row it found, and a round it remembers for its end.
Idle == [part |-> "idle", todo |-> {}, data |-> Unread, at |-> 0, seen |-> NoRow, till |-> 0]

TypeOK ==
  /\ head \in Chains /\ safe \in Chains
  /\ row \in [Epochs -> Rows]
  /\ cursor \in 0 .. MaxEpoch + 1
  /\ imported \in BOOLEAN
  /\ phase \in {"down", "recovering", "ready"}
  /\ last \in 0 .. MaxEpoch
  /\ job \in [Tasks -> [part : {"idle", "tick", "sync", "missed", "stale", "gaps", "sweep", "import"},
                        todo : SUBSET Epochs, data : [Epochs -> Results],
                        at : 0 .. MaxEpoch, seen : Rows, till : 0 .. MaxEpoch]]
  /\ faults \in 0 .. MaxFaults

Final(out) == out # "pending"
Stored == {e \in Epochs : row[e].src # "none"}
NonFinal(upto) == {e \in Stored : ~Final(row[e].out) /\ e <= upto}
Least(S) == CHOOSE x \in S : \A y \in S : x <= y
Greatest(S) == CHOOSE x \in S : \A y \in S : x >= y
Max2(a, b) == IF a < b THEN b ELSE a
Before(n, k) == IF n > k THEN n - k ELSE 1      \* max(1, n - k)

Init ==
  /\ head = [open |-> 1, res |-> Unread] /\ safe = head
  /\ row = [e \in Epochs |-> NoRow]
  /\ cursor = 0 /\ imported = FALSE
  /\ phase = "down" /\ last = 0
  /\ job = [t \in Tasks |-> Idle]
  /\ faults = 0

-----------------------------------------------------------------------------
\* The chain.  executeRound ends the locked round, locks the open one and opens the next;
\* a locked round that is not ended in time is cancelled, and executeRound then stands
\* for the operator's restart.

Locked(c) == {e \in Epochs : e = c.open - 1 /\ ~Final(c.res[e])}
With(c, out) == [e \in Epochs |-> IF e \in Locked(c) THEN out ELSE c.res[e]]

Successors(c) ==
  {[open |-> n, res |-> With(c, out)] : n \in Epochs \cap {c.open + 1}, out \in Ends}
  \cup {[open |-> c.open, res |-> With(c, "CANCELLED")] : e \in Locked(c)}

\* Bound: one such change at a time is not yet CONFIRMATIONS deep.
NewBlock ==
  /\ head = safe
  /\ head' \in Successors(safe)
  /\ UNCHANGED <<safe, row, cursor, imported, phase, last, job, faults>>

Deepen ==
  /\ head # safe
  /\ safe' = head
  /\ UNCHANGED <<head, row, cursor, imported, phase, last, job, faults>>

Reorg ==
  /\ head # safe
  /\ head' = safe
  /\ UNCHANGED <<safe, row, cursor, imported, phase, last, job, faults>>

-----------------------------------------------------------------------------
\* Storing a round: SELECT, then INSERT or UPDATE, committed at once.

Free == Cardinality({t \in Tasks : job[t] # Idle}) < MaxBusy

Source(t) == IF t = "csv" THEN "CSV" ELSE "CHAIN"

\* The monitor starts with the newest round; a sync's batches go upwards.
First(t) == IF t = "monitor" THEN Greatest(job[t].todo) ELSE Least(job[t].todo)

Look(t) ==
  /\ job[t].at = 0
  /\ job[t].todo # {}
  /\ LET e == First(t)
     IN  job' = [job EXCEPT ![t].at = e, ![t].seen = row[e]]
  /\ UNCHANGED <<chainVars, row, cursor, imported, phase, last, faults>>

\* upsert returns without a write: stale, unchanged or conflict.
Keeps(old, new) ==
  /\ Final(old.out)
  /\ ~Final(new.out) \/ old.src = "CHAIN" \/ new.src = "CSV"

\* The trigger lets the update of a row through.
AlwaysPermitted(old, new) == TRUE    \* fault: no trigger
Permitted(old, new) ==
  \/ ~Final(old.out)
  \/ old.src = "CSV" /\ new.src = "CHAIN"
  \/ old.out = new.out

\* UNIQUE(market_id, epoch) refuses a second insert.
Accepted(seen, old, new) ==
  IF seen.src = "none" THEN old.src = "none" ELSE Permitted(old, new)

Stores(t) == [src |-> Source(t), out |-> job[t].data[job[t].at]]

Put(t) ==
  /\ job[t].at # 0
  /\ LET e == job[t].at
         done == [job[t] EXCEPT !.todo = @ \ {e}, !.data[e] = "pending", !.at = 0, !.seen = NoRow]
     IN  IF Keeps(job[t].seen, Stores(t))
           THEN row' = row /\ job' = [job EXCEPT ![t] = done]
         ELSE IF Accepted(job[t].seen, row[e], Stores(t))
           THEN row' = [row EXCEPT ![e] = Stores(t)] /\ job' = [job EXCEPT ![t] = done]
         ELSE row' = row /\ job' = [job EXCEPT ![t] = Idle]     \* the task throws
  /\ UNCHANGED <<chainVars, cursor, imported, phase, last, faults>>

\* Nothing is left to store.
Over(t, part) == job[t].part = part /\ job[t].todo = {} /\ job[t].at = 0

-----------------------------------------------------------------------------
\* The round monitor.

\* Final at the head, not final in the database, and final at the confirmed depth too.
Sure(e) == Final(head.res[e]) /\ ~Final(row[e].out) /\ Final(safe.res[e])
ReadAtHead(e) == head.res[e]    \* fault: the round is stored as the head shows it
ReadBy(e) == IF Sure(e) THEN safe.res[e] ELSE "pending"

MonitorStart ==
  /\ phase # "down"
  /\ job["monitor"] = Idle /\ Free
  /\ job' = [job EXCEPT !["monitor"] =
       [Idle EXCEPT !.part = "tick", !.till = head.open,
                    !.todo = {e \in Epochs : e <= head.open /\ e + 2 >= head.open},
                    !.data = [e \in Epochs |-> ReadBy(e)]]]
  /\ UNCHANGED <<chainVars, row, cursor, imported, phase, last, faults>>

\* The epochs syncEpochs asks the chain for.
Wanted(epochs, includeFinal) ==
  {e \in epochs \cap Epochs : e <= safe.open /\ (includeFinal \/ ~Final(row[e].out))}

\* What a read at the confirmed depth says of them.
SafeData(epochs) == [e \in Epochs |-> IF e \in epochs THEN safe.res[e] ELSE "pending"]

SyncJob(part, epochs, includeFinal, till) ==
  [Idle EXCEPT !.part = part, !.todo = Wanted(epochs, includeFinal),
               !.data = SafeData(Wanted(epochs, includeFinal)), !.till = till]

\* Missed rounds are synced in the background.  Bound: not while an incremental sync runs.
MonitorEnd ==
  /\ Over("monitor", "tick")
  /\ LET open == job["monitor"].till
         missed == IF last = 0 THEN {} ELSE last + 1 .. open - 1
     IN  /\ missed = {} \/ job["incremental"] = Idle
         /\ last' = Max2(last, open)
         /\ job' = [job EXCEPT !["monitor"] = Idle,
                      !["incremental"] = IF missed = {} THEN @
                                         ELSE SyncJob("missed", missed, FALSE, 0)]
  /\ UNCHANGED <<chainVars, row, cursor, imported, phase, faults>>

BackfillEnd ==
  /\ Over("incremental", "missed")
  /\ job' = [job EXCEPT !["incremental"] = Idle]
  /\ UNCHANGED <<chainVars, row, cursor, imported, phase, last, faults>>

-----------------------------------------------------------------------------
\* History sync.

\* A later batch, and a retry, reads at a fresh block.
Repin(t) ==
  /\ job[t].part # "idle" /\ job[t].at = 0 /\ job[t].todo # {}
  /\ job[t].data # SafeData(job[t].todo)
  /\ job' = [job EXCEPT ![t].data = SafeData(job[t].todo)]
  /\ UNCHANGED <<chainVars, row, cursor, imported, phase, last, faults>>

FinalRows == {e \in Epochs : Final(row[e].out)}
NextNew == IF FinalRows = {} THEN Before(head.open, Window) ELSE Greatest(FinalRows) + 1

\* syncIncremental: recovery asks for the most recent window only.
IncrementalFrom ==
  IF phase = "recovering" THEN Max2(NextNew, Before(head.open, Window)) ELSE NextNew

IncrementalStart ==
  /\ phase # "down"
  /\ job["incremental"] = Idle /\ Free
  /\ job' = [job EXCEPT !["incremental"] =
       SyncJob("sync", (IncrementalFrom .. head.open) \cup NonFinal(head.open), FALSE, 0)]
  /\ UNCHANGED <<chainVars, row, cursor, imported, phase, last, faults>>

\* The first one is the recovery's: the loops start after it.
IncrementalEnd ==
  /\ Over("incremental", "sync")
  /\ job' = [job EXCEPT !["incremental"] = Idle]
  /\ phase' = "ready"
  /\ UNCHANGED <<chainVars, row, cursor, imported, last, faults>>

ReconcileStart ==
  /\ phase = "ready"
  /\ job["reconcile"] = Idle /\ Free
  /\ job' = [job EXCEPT !["reconcile"] =
       SyncJob("stale", {e \in NonFinal(head.open) : e + 2 <= head.open}, FALSE, head.open)]
  /\ UNCHANGED <<chainVars, row, cursor, imported, phase, last, faults>>

ReconcileGaps ==
  /\ Over("reconcile", "stale")
  /\ LET open == job["reconcile"].till
     IN  job' = [job EXCEPT !["reconcile"] =
                   SyncJob("gaps", Before(open, Window) .. open - 1, FALSE, open)]
  /\ UNCHANGED <<chainVars, row, cursor, imported, phase, last, faults>>

\* The sweep goes on where the last one stopped, and starts again at the end.
SweepNewest == Greatest(Stored)    \* fault: it does not start again at the first round
SweepFrom ==
  IF cursor = 0 \/ cursor > Greatest(Stored) THEN Least(Stored) ELSE cursor
SweepTo(from) == IF from + VerifySweep - 1 < Greatest(Stored)
                   THEN from + VerifySweep - 1 ELSE Greatest(Stored)

ReconcileSweep ==
  /\ Over("reconcile", "gaps")
  /\ job' = [job EXCEPT !["reconcile"] =
       IF Stored = {} THEN Idle
       ELSE SyncJob("sweep", SweepFrom .. SweepTo(SweepFrom), TRUE, SweepTo(SweepFrom))]
  /\ UNCHANGED <<chainVars, row, cursor, imported, phase, last, faults>>

ReconcileEnd ==
  /\ Over("reconcile", "sweep")
  /\ cursor' = job["reconcile"].till + 1
  /\ job' = [job EXCEPT !["reconcile"] = Idle]
  /\ UNCHANGED <<chainVars, row, imported, phase, last, faults>>

-----------------------------------------------------------------------------
\* The CSV import, from the command line, beside the worker: the archive holds rounds
\* that were over when it was made.  Bound: one import.

CsvStart ==
  /\ ~imported /\ Free
  /\ \A e \in DOMAIN Archive : Final(head.res[e])
  /\ imported' = TRUE
  /\ job' = [job EXCEPT !["csv"] =
       [Idle EXCEPT !.part = "import", !.todo = DOMAIN Archive,
          !.data = [e \in Epochs |-> IF e \in DOMAIN Archive THEN Archive[e] ELSE "pending"]]]
  /\ UNCHANGED <<chainVars, row, cursor, phase, last, faults>>

CsvEnd ==
  /\ Over("csv", "import")
  /\ job' = [job EXCEPT !["csv"] = Idle]
  /\ UNCHANGED <<chainVars, row, cursor, imported, phase, last, faults>>

-----------------------------------------------------------------------------
\* The worker.

Boot ==
  /\ phase = "down"
  /\ phase' = "recovering"
  /\ UNCHANGED <<chainVars, row, cursor, imported, last, job, faults>>

Fault == faults < MaxFaults /\ faults' = faults + 1

Crash ==
  /\ phase # "down"
  /\ Fault
  /\ phase' = "down" /\ last' = 0
  /\ job' = [t \in Tasks |-> IF t = "csv" THEN job[t] ELSE Idle]
  /\ UNCHANGED <<chainVars, row, cursor, imported>>

\* A read fails four times in a row: the sync is given up.
SyncFails(t) ==
  /\ job[t].part # "idle" /\ job[t].at = 0
  /\ Fault
  /\ job' = [job EXCEPT ![t] = Idle]
  /\ UNCHANGED <<chainVars, row, cursor, imported, phase, last>>

Store(t) == Look(t) \/ Put(t)
Monitor == MonitorStart \/ MonitorEnd \/ Store("monitor")
Incremental ==
  IncrementalStart \/ IncrementalEnd \/ BackfillEnd \/ Store("incremental")
Reconcile ==
  \/ ReconcileStart \/ ReconcileGaps \/ ReconcileSweep \/ ReconcileEnd \/ Store("reconcile")
Csv == CsvStart \/ CsvEnd \/ Store("csv")

Next ==
  \/ NewBlock \/ Deepen \/ Reorg
  \/ Monitor \/ Incremental \/ Reconcile \/ Csv
  \/ \E t \in Syncs : Repin(t) \/ SyncFails(t)
  \/ Boot \/ Crash

Spec == Init /\ [][Next]_vars

\* The worker is restarted, its pending calls are served, and its timers start every loop
\* again and again.  The last is strong fairness because a loop here waits for its turn
\* (MaxBusy), which in the program it does not.
Fairness ==
  /\ WF_vars(Boot)
  /\ WF_vars(MonitorEnd \/ Store("monitor"))
  /\ WF_vars(IncrementalEnd \/ BackfillEnd \/ Store("incremental"))
  /\ WF_vars(ReconcileGaps \/ ReconcileSweep \/ ReconcileEnd \/ Store("reconcile"))
  /\ WF_vars(CsvEnd \/ Store("csv"))
  /\ SF_vars(MonitorStart) /\ SF_vars(IncrementalStart) /\ SF_vars(ReconcileStart)

FairSpec == Spec /\ Fairness

-----------------------------------------------------------------------------
\* Properties.

\* A final row read from the chain says what the chain says for good, whatever was
\* reorganised since and in whatever order reads were stored (ARCHITECTURE.md, Round
\* model and finality).
FinalIsTrue ==
  \A e \in Epochs :
    row[e].src = "CHAIN" /\ Final(row[e].out) => row[e].out = safe.res[e]

\* Final chain data never changes, although writers read the row before another's write.
FinalStays ==
  [][\A e \in Epochs :
       row[e].src = "CHAIN" /\ Final(row[e].out) => row'[e].out = row[e].out]_vars

\* Every finished round from the first stored one on is eventually final chain data: the
\* holes of a long outage or a failed sync are filled, imported rows are replaced.
EventuallyComplete ==
  \A e \in Epochs :
    Final(safe.res[e]) /\ (\E d \in Stored : d <= e)
      ~> row[e] = [src |-> "CHAIN", out |-> safe.res[e]]
=============================================================================
