----------------------------- MODULE PoolEvents -----------------------------
(***************************************************************************)
(* The collection of bet events (services/poolEvents.ts,                   *)
(* repositories/poolEvents.ts).  A run follows the confirmed head in       *)
(* chunks of blocks, then lowers the collected range; a range that keeps   *)
(* failing is recorded as a gap.  Collectors are the processes that may    *)
(* run at once: the worker, one that lost its lease, and the command line. *)
(*                                                                         *)
(* The events of a block at or below the confirmed head do not change, so  *)
(* fetching a chunk and appending it in one transaction is one step.       *)
(***************************************************************************)
EXTENDS Integers

CONSTANTS
  Collectors,
  Chunk,           \* poolEvents.chunkBlocks
  BackfillBlocks,  \* poolEvents.backfillBlocks
  ForwardChunks,   \* MAX_FORWARD_CHUNKS
  BackfillChunks,  \* chunks of backfill per run
  MaxFailures,     \* MAX_FAILURES
  FirstSafe,       \* the confirmed head when the first run starts
  LastSafe,        \* bound: how far the confirmed head goes
  MaxFaults        \* bound: how many crashes, database errors and resets may happen

ASSUME BoundsAssumption ==
  /\ Chunk \in Nat \ {0} /\ BackfillBlocks \in Nat
  /\ ForwardChunks \in Nat /\ BackfillChunks \in Nat /\ MaxFailures \in Nat \ {0}
  /\ FirstSafe \in Nat /\ LastSafe \in Nat /\ FirstSafe <= LastSafe
  /\ MaxFaults \in Nat

VARIABLES
  safe,      \* the block CONFIRMATIONS below the head
  stored,    \* the blocks whose events are in round_pool_events
  gaps,      \* the blocks in pool_event_gaps
  row,       \* the row of pool_event_sync
  run,       \* run[c]: the run of collector c
  faults

vars == <<safe, stored, gaps, row, run, faults>>

Blocks == 0 .. LastSafe
Bounds == 0 .. LastSafe + 1    \* an empty range starts above its end
Steps == {"idle", "open", "forward", "skip", "backfill", "stop", "finish"}

NoRow == [exists |-> FALSE, anchor |-> 0, from |-> 0, to |-> 0, done |-> FALSE,
          forwardFailures |-> 0, backfillFailures |-> 0]
Idle == [at |-> "idle", safe |-> 0, to |-> 0, from |-> 0, done |-> FALSE, left |-> 0]

TypeOK ==
  /\ safe \in Blocks
  /\ stored \in SUBSET Blocks /\ gaps \in SUBSET Blocks
  /\ row \in [exists : BOOLEAN, anchor : Bounds, from : Bounds, to : Blocks, done : BOOLEAN,
              forwardFailures : Nat, backfillFailures : Nat]
  /\ run \in [Collectors -> [at : Steps, safe : Blocks, to : Blocks, from : Bounds,
                             done : BOOLEAN, left : Nat]]
  /\ faults \in 0 .. MaxFaults

Min2(a, b) == IF a < b THEN a ELSE b
Max2(a, b) == IF a < b THEN b ELSE a

Init ==
  /\ safe = FirstSafe
  /\ stored = {} /\ gaps = {}
  /\ row = NoRow
  /\ run = [c \in Collectors |-> Idle]
  /\ faults = 0

-----------------------------------------------------------------------------
\* The row.

\* append: the range is widened in the transaction that stores the events.
RaisedTo(hi) == Max2(row.to, hi)
LatestFrom(lo) == lo    \* fault: the range is set, not widened
LoweredFrom(lo) == Min2(row.from, lo)

\* recordFailure counts in the database, over runs and processes.
StartOver(n) == 1    \* fault: every run counts for itself
Counted(n) == n + 1

-----------------------------------------------------------------------------
\* A run.

Go(c, r) == run' = [run EXCEPT ![c] = r]
At(c, step) == run[c].at = step

Start(c) ==
  /\ At(c, "idle")
  /\ Go(c, [Idle EXCEPT !.at = "open", !.safe = safe])
  /\ UNCHANGED <<safe, stored, gaps, row, faults>>

\* The row is read, or made with an empty range above the confirmed head.
Opened(c) ==
  IF row.exists THEN row
  ELSE [NoRow EXCEPT !.exists = TRUE, !.anchor = run[c].safe + 1,
                     !.from = run[c].safe + 1, !.to = run[c].safe]

Open(c) ==
  /\ At(c, "open")
  /\ row' = Opened(c)
  /\ Go(c, [run[c] EXCEPT !.at = "forward", !.to = row'.to, !.from = row'.from,
                          !.done = row'.done, !.left = ForwardChunks])
  /\ UNCHANGED <<safe, stored, gaps, faults>>

ForwardLeft(c) == run[c].left > 0 /\ run[c].to < run[c].safe
High(c) == Min2(run[c].safe, run[c].to + Chunk)

Forward(c) ==
  /\ At(c, "forward") /\ ForwardLeft(c)
  /\ stored' = stored \cup (run[c].to + 1 .. High(c))
  /\ row' = [row EXCEPT !.to = RaisedTo(High(c)), !.forwardFailures = 0]
  /\ Go(c, [run[c] EXCEPT !.to = High(c), !.left = @ - 1])
  /\ UNCHANGED <<safe, gaps, faults>>

\* The chunk cannot be fetched: the forward part is over, or the chunk becomes a gap.
StalledOn(c) ==    \* fault: goes on behind the chunk that failed
  [run[c] EXCEPT !.to = High(c), !.left = @ - 1]
Stalled(c) == [run[c] EXCEPT !.at = "backfill", !.left = BackfillChunks]

ForwardFails(c) ==
  /\ At(c, "forward") /\ ForwardLeft(c)
  /\ row' = [row EXCEPT !.forwardFailures = Counted(@)]
  /\ Go(c, IF row'.forwardFailures < MaxFailures THEN Stalled(c)
           ELSE [run[c] EXCEPT !.at = "skip"])
  /\ UNCHANGED <<safe, stored, gaps, faults>>

SkipGap(c) ==
  /\ At(c, "skip")
  /\ gaps' = gaps \cup (run[c].to + 1 .. High(c))
  /\ row' = [row EXCEPT !.to = RaisedTo(High(c)), !.forwardFailures = 0]
  /\ Go(c, [run[c] EXCEPT !.at = "forward", !.to = High(c), !.left = @ - 1])
  /\ UNCHANGED <<safe, stored, faults>>

ForwardEnd(c) ==
  /\ At(c, "forward") /\ ~ForwardLeft(c)
  /\ Go(c, [run[c] EXCEPT !.at = "backfill", !.left = BackfillChunks])
  /\ UNCHANGED <<safe, stored, gaps, row, faults>>

Floor == Max2(0, row.anchor - BackfillBlocks)
BackfillLeft(c) == run[c].left > 0 /\ ~run[c].done /\ run[c].from > Floor
Low(c) == Max2(Floor, run[c].from - Chunk)

Backfill(c) ==
  /\ At(c, "backfill") /\ BackfillLeft(c)
  /\ stored' = stored \cup (Low(c) .. run[c].from - 1)
  /\ row' = [row EXCEPT !.from = LoweredFrom(Low(c)), !.backfillFailures = 0]
  /\ Go(c, [run[c] EXCEPT !.from = Low(c), !.left = @ - 1])
  /\ UNCHANGED <<safe, gaps, faults>>

BackfillFails(c) ==
  /\ At(c, "backfill") /\ BackfillLeft(c)
  /\ row' = [row EXCEPT !.backfillFailures = Counted(@)]
  /\ Go(c, [run[c] EXCEPT !.at = IF row'.backfillFailures >= MaxFailures THEN "stop"
                                                                         ELSE "finish"])
  /\ UNCHANGED <<safe, stored, gaps, faults>>

BackfillDone(c, done) ==
  row' = IF done THEN [row EXCEPT !.done = TRUE, !.backfillFailures = 0] ELSE row

\* The log node no longer serves older history.
Stop(c) ==
  /\ At(c, "stop")
  /\ BackfillDone(c, TRUE)
  /\ Go(c, [run[c] EXCEPT !.at = "finish", !.done = TRUE])
  /\ UNCHANGED <<safe, stored, gaps, faults>>

BackfillEnd(c) ==
  /\ At(c, "backfill") /\ ~BackfillLeft(c)
  /\ Go(c, [run[c] EXCEPT !.at = "finish"])
  /\ UNCHANGED <<safe, stored, gaps, row, faults>>

PassedFloor(c) == ~run[c].done /\ run[c].from < Floor     \* fault: never, from stops at the floor
ReachedFloor(c) == ~run[c].done /\ run[c].from <= Floor

Finish(c) ==
  /\ At(c, "finish")
  /\ BackfillDone(c, ReachedFloor(c))
  /\ Go(c, Idle)
  /\ UNCHANGED <<safe, stored, gaps, faults>>

Step(c) ==
  \/ Start(c) \/ Open(c)
  \/ Forward(c) \/ ForwardFails(c) \/ SkipGap(c) \/ ForwardEnd(c)
  \/ Backfill(c) \/ BackfillFails(c) \/ Stop(c) \/ BackfillEnd(c) \/ Finish(c)

-----------------------------------------------------------------------------
\* Its surroundings.

Grow ==
  /\ safe < LastSafe
  /\ safe' = safe + 1
  /\ UNCHANGED <<stored, gaps, row, run, faults>>

Fault == faults < MaxFaults /\ faults' = faults + 1

\* A crash, or an error of the database or of the head read, ends a run anywhere.
Die(c) ==
  /\ ~At(c, "idle")
  /\ Fault
  /\ Go(c, Idle)
  /\ UNCHANGED <<safe, stored, gaps, row>>

\* pool-events reset-backfill.
ResetBackfill ==
  /\ row.exists
  /\ Fault
  /\ row' = [row EXCEPT !.done = FALSE, !.backfillFailures = 0]
  /\ UNCHANGED <<safe, stored, gaps, run>>

Next ==
  \/ \E c \in Collectors : Step(c) \/ Die(c)
  \/ Grow \/ ResetBackfill

Spec == Init /\ [][Next]_vars

\* Every collector's timer keeps firing and its pending call is served.  The log node owes
\* nothing: any request may fail, for ever.
Fairness == \A c \in Collectors : WF_vars(Step(c))

FairSpec == Spec /\ Fairness

-----------------------------------------------------------------------------
\* Properties.

\* "The range never claims blocks whose events are missing" (append), but for the gaps:
\* every block of the range is stored or in a gap, whichever runs overlapped or died.
CoveredIsStored ==
  row.exists => row.from .. row.to \subseteq stored \cup gaps

\* The collected range never shrinks, although a slow run writes what it computed from the
\* range as it was long ago.
RangeOnlyGrows ==
  [][row.exists => row'.exists /\ row'.from <= row.from /\ row.to <= row'.to]_vars

\* Collection goes on whatever the log node does: every confirmed block is eventually in
\* the range, as stored or as a gap.
EventuallyCovered ==
  \A b \in Blocks : b <= safe ~> row.exists /\ b <= row.to

\* Backfill ends, at its depth or where the log node gives out, and again after a reset.
BackfillEnds == ~row.done ~> row.done
=============================================================================
