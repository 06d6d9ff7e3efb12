------------------------- MODULE PoolEvents_proofs -------------------------
(***************************************************************************)
(* What PoolEvents guarantees for any chunk size and backfill depth, any   *)
(* number of overlapping collectors and any number of faults.              *)
(***************************************************************************)
EXTENDS PoolEvents, TLAPS

\* The row is widened, never narrowed, whatever block it is widened to.
LEMMA WidenedRow ==
  ASSUME TypeOK, NEW b \in Int
  PROVE  /\ row.to <= RaisedTo(b) /\ b <= RaisedTo(b)
         /\ RaisedTo(b) \in {row.to, b}
         /\ LoweredFrom(b) <= row.from /\ LoweredFrom(b) <= b
         /\ LoweredFrom(b) \in {row.from, b}
<1>1. row.to \in Int /\ row.from \in Int
  BY BoundsAssumption DEF TypeOK, Blocks, Bounds
<1>. QED  BY <1>1 DEF RaisedTo, LoweredFrom, Max2, Min2

\* The next chunk in either direction is not empty and stays among the blocks.
LEMMA ChunkForward ==
  ASSUME TypeOK, NEW c \in Collectors, ForwardLeft(c)
  PROVE  High(c) \in Blocks /\ run[c].to < High(c) /\ run[c].left - 1 \in Nat
<1>1. run[c].to \in Blocks /\ run[c].safe \in Blocks /\ run[c].left \in Nat
  BY DEF TypeOK
<1>. QED  BY <1>1, BoundsAssumption DEF ForwardLeft, High, Min2, Blocks

LEMMA ChunkBack ==
  ASSUME TypeOK, NEW c \in Collectors, BackfillLeft(c)
  PROVE  /\ Low(c) \in Bounds /\ Low(c) < run[c].from
         /\ run[c].from \in Bounds /\ run[c].left - 1 \in Nat
<1>1. run[c].from \in Bounds /\ run[c].left \in Nat /\ row.anchor \in Bounds
  BY DEF TypeOK
<1>2. Floor \in Nat
  BY <1>1, BoundsAssumption DEF Floor, Max2, Bounds
<1>. QED  BY <1>1, <1>2, BoundsAssumption DEF BackfillLeft, Low, Max2, Bounds

LEMMA InitType == Init => TypeOK
  BY BoundsAssumption DEF Init, TypeOK, Blocks, Bounds, NoRow, Idle, Steps

RowType == [exists : BOOLEAN, anchor : Bounds, from : Bounds, to : Blocks, done : BOOLEAN,
            forwardFailures : Nat, backfillFailures : Nat]
RunType == [at : Steps, safe : Blocks, to : Blocks, from : Bounds, done : BOOLEAN, left : Nat]

\* A chunk is given up only while there is one.
Skipping(c) == At(c, "skip") => ForwardLeft(c)

\* What a run remembers of the range lies within the range.
Within(c) ==
  run[c].at \notin {"idle", "open"} =>
    row.exists /\ row.from <= run[c].from /\ run[c].to <= row.to

\* The inductive invariant: CoveredIsStored needs the range remembered to touch the range
\* of the row, which other collectors have widened meanwhile.
Inductive ==
  /\ TypeOK
  /\ CoveredIsStored
  /\ \A c \in Collectors : Skipping(c) /\ Within(c)

LEMMA GoType ==
  ASSUME run \in [Collectors -> RunType], NEW c \in Collectors, NEW r \in RunType, Go(c, r)
  PROVE  run' \in [Collectors -> RunType]
  BY DEF Go

\* What each step of a collector makes of the row and of its run.
LEMMA StepType ==
  ASSUME TypeOK, NEW c \in Collectors, Skipping(c), Step(c)
  PROVE  /\ row' \in RowType /\ run' \in [Collectors -> RunType]
         /\ stored' \in SUBSET Blocks /\ gaps' \in SUBSET Blocks
<1>0. /\ row \in RowType /\ run \in [Collectors -> RunType] /\ run[c] \in RunType
      /\ safe \in Blocks /\ stored \in SUBSET Blocks /\ gaps \in SUBSET Blocks
  BY DEF TypeOK, RowType, RunType
<1>i. Idle \in RunType
  BY BoundsAssumption DEF Idle, RunType, Steps, Blocks, Bounds
<1>f. ForwardLeft(c) => /\ High(c) \in Blocks /\ run[c].left - 1 \in Nat
                        /\ RaisedTo(High(c)) \in Blocks
                        /\ run[c].to + 1 .. High(c) \subseteq Blocks
  BY <1>0, ChunkForward, WidenedRow, BoundsAssumption DEF Blocks, RowType, RunType
<1>b. BackfillLeft(c) => /\ Low(c) \in Bounds /\ run[c].left - 1 \in Nat
                         /\ LoweredFrom(Low(c)) \in Bounds
                         /\ Low(c) .. run[c].from - 1 \subseteq Blocks
  BY <1>0, ChunkBack, WidenedRow, BoundsAssumption DEF Blocks, Bounds, RowType, RunType
<1>. USE GoType
<1>1. CASE Start(c)
  <2>1. [Idle EXCEPT !.at = "open", !.safe = safe] \in RunType
    BY <1>0, <1>i DEF RunType, Steps
  <2>. QED  BY <1>0, <1>1, <2>1 DEF Start
<1>2. CASE Open(c)
  <2>a. NoRow \in RowType
    BY BoundsAssumption DEF NoRow, RowType, Blocks, Bounds
  <2>b. run[c].safe \in Blocks /\ run[c].safe + 1 \in Bounds
    BY <1>0, BoundsAssumption DEF RunType, Blocks, Bounds
  <2>1. Opened(c) \in RowType
    BY <1>0, <2>a, <2>b DEF Opened, RowType
  <2>2. [run[c] EXCEPT !.at = "forward", !.to = row'.to, !.from = row'.from,
                       !.done = row'.done, !.left = ForwardChunks] \in RunType
    BY <1>0, <1>2, <2>1, BoundsAssumption DEF Open, RowType, RunType, Steps
  <2>. QED  BY <1>0, <1>2, <2>1, <2>2 DEF Open
<1>3. CASE Forward(c) \/ SkipGap(c)
  <2>1. ForwardLeft(c)
    BY <1>3 DEF Forward, SkipGap, Skipping
  <2>2. [row EXCEPT !.to = RaisedTo(High(c)), !.forwardFailures = 0] \in RowType
    BY <1>0, <1>f, <2>1 DEF RowType
  <2>3. [run[c] EXCEPT !.to = High(c), !.left = @ - 1] \in RunType
    BY <1>0, <1>f, <2>1 DEF RunType
  <2>4. [run[c] EXCEPT !.at = "forward", !.to = High(c), !.left = @ - 1] \in RunType
    BY <1>0, <1>f, <2>1 DEF RunType, Steps
  <2>. QED  BY <1>0, <1>3, <1>f, <2>1, <2>2, <2>3, <2>4 DEF Forward, SkipGap
<1>4. CASE ForwardFails(c)
  <2>1. [row EXCEPT !.forwardFailures = Counted(@)] \in RowType
    BY <1>0 DEF RowType, Counted
  <2>2. Stalled(c) \in RunType /\ [run[c] EXCEPT !.at = "skip"] \in RunType
    BY <1>0, BoundsAssumption DEF Stalled, RunType, Steps
  <2>. QED  BY <1>0, <1>4, <2>1, <2>2 DEF ForwardFails
<1>5. CASE ForwardEnd(c)
  <2>1. [run[c] EXCEPT !.at = "backfill", !.left = BackfillChunks] \in RunType
    BY <1>0, BoundsAssumption DEF RunType, Steps
  <2>. QED  BY <1>0, <1>5, <2>1 DEF ForwardEnd
<1>6. CASE Backfill(c)
  <2>1. BackfillLeft(c)
    BY <1>6 DEF Backfill
  <2>2. [row EXCEPT !.from = LoweredFrom(Low(c)), !.backfillFailures = 0] \in RowType
    BY <1>0, <1>b, <2>1 DEF RowType
  <2>3. [run[c] EXCEPT !.from = Low(c), !.left = @ - 1] \in RunType
    BY <1>0, <1>b, <2>1 DEF RunType
  <2>. QED  BY <1>0, <1>6, <1>b, <2>1, <2>2, <2>3 DEF Backfill
<1>7. CASE BackfillFails(c)
  <2>1. [row EXCEPT !.backfillFailures = Counted(@)] \in RowType
    BY <1>0 DEF RowType, Counted
  <2>2. \A step \in Steps : [run[c] EXCEPT !.at = step] \in RunType
    BY <1>0 DEF RunType
  <2>3. {"stop", "finish"} \subseteq Steps
    BY DEF Steps
  <2>. QED  BY <1>0, <1>7, <2>1, <2>2, <2>3 DEF BackfillFails
<1>8. CASE Stop(c) \/ BackfillEnd(c) \/ Finish(c)
  <2>1. [row EXCEPT !.done = TRUE, !.backfillFailures = 0] \in RowType
    BY <1>0 DEF RowType
  <2>2. /\ [run[c] EXCEPT !.at = "finish", !.done = TRUE] \in RunType
        /\ [run[c] EXCEPT !.at = "finish"] \in RunType
    BY <1>0 DEF RunType, Steps
  <2>. QED  BY <1>0, <1>8, <1>i, <2>1, <2>2 DEF Stop, BackfillEnd, Finish, BackfillDone
<1>. QED
  BY <1>1, <1>2, <1>3, <1>4, <1>5, <1>6, <1>7, <1>8 DEF Step

LEMMA InitInductive == Init => Inductive
<1>. SUFFICES ASSUME Init PROVE Inductive
  OBVIOUS
<1>1. CoveredIsStored
  BY DEF Init, NoRow, CoveredIsStored
<1>2. ASSUME NEW c \in Collectors PROVE Skipping(c) /\ Within(c)
  BY DEF Init, Idle, Skipping, Within, At
<1>. QED  BY InitType, <1>1, <1>2 DEF Inductive

LEMMA NextType == Inductive /\ [Next]_vars => TypeOK'
<1>. SUFFICES ASSUME Inductive, [Next]_vars PROVE TypeOK'
  OBVIOUS
<1>0. TypeOK /\ row \in RowType /\ run \in [Collectors -> RunType]
  BY DEF Inductive, TypeOK, RowType, RunType
<1>1. ASSUME NEW c \in Collectors, Step(c) PROVE TypeOK'
  <2>1. UNCHANGED <<safe, faults>>
    BY <1>1 DEF Step, Start, Open, Forward, ForwardFails, SkipGap, ForwardEnd, Backfill,
                BackfillFails, Stop, BackfillEnd, Finish
  <2>. QED
    BY <1>0, <1>1, <2>1, StepType DEF Inductive, TypeOK, RowType, RunType
<1>2. ASSUME NEW c \in Collectors, Die(c) PROVE TypeOK'
  <2>1. Idle \in RunType
    BY BoundsAssumption DEF Idle, RunType, Steps, Blocks, Bounds
  <2>2. run' \in [Collectors -> RunType]
    BY <1>0, <1>2, <2>1, GoType DEF Die
  <2>. QED
    BY <1>0, <1>2, <2>2, BoundsAssumption DEF Die, Fault, TypeOK, RowType, RunType
<1>3. CASE Grow
  BY <1>0, <1>3, BoundsAssumption DEF Grow, TypeOK, Blocks
<1>4. CASE ResetBackfill
  <2>1. row' \in RowType
    BY <1>0, <1>4 DEF ResetBackfill, RowType
  <2>. QED
    BY <1>0, <1>4, <2>1, BoundsAssumption DEF ResetBackfill, Fault, TypeOK, RowType
<1>5. CASE UNCHANGED vars
  BY <1>0, <1>5 DEF vars, TypeOK
<1>. QED  BY <1>1, <1>2, <1>3, <1>4, <1>5 DEF Next

\* The row grows in every step, so what other runs remember of it stays within.
LEMMA RowGrows ==
  ASSUME TypeOK, [Next]_vars, row.exists
  PROVE  row'.exists /\ row'.from <= row.from /\ row.to <= row'.to
<1>0. row \in RowType /\ row.from \in Int /\ row.to \in Int
  BY BoundsAssumption DEF TypeOK, RowType, Blocks, Bounds
<1>1. ASSUME NEW c \in Collectors, Forward(c) \/ SkipGap(c)
      PROVE  row'.exists /\ row'.from <= row.from /\ row.to <= row'.to
  <2>1. High(c) \in Int
    BY BoundsAssumption DEF TypeOK, High, Min2, Blocks
  <2>. QED  BY <1>0, <1>1, <2>1, WidenedRow DEF Forward, SkipGap, RowType
<1>2. ASSUME NEW c \in Collectors, Backfill(c)
      PROVE  row'.exists /\ row'.from <= row.from /\ row.to <= row'.to
  <2>1. Low(c) \in Int
    BY BoundsAssumption DEF TypeOK, Low, Floor, Max2, Bounds
  <2>. QED  BY <1>0, <1>2, <2>1, WidenedRow DEF Backfill, RowType
<1>3. ASSUME NEW c \in Collectors, ~(Forward(c) \/ SkipGap(c) \/ Backfill(c)), Step(c)
      PROVE  row'.exists /\ row'.from <= row.from /\ row.to <= row'.to
  <2>1. CASE Start(c) \/ Open(c) \/ ForwardEnd(c) \/ BackfillEnd(c)
    <3>1. row' = row
      BY <2>1 DEF Start, Open, Opened, ForwardEnd, BackfillEnd
    <3>. QED  BY <1>0, <3>1
  <2>2. CASE ForwardFails(c) \/ BackfillFails(c) \/ Stop(c) \/ Finish(c)
    <3>1. row'.exists = row.exists /\ row'.from = row.from /\ row'.to = row.to
      BY <1>0, <2>2 DEF RowType, ForwardFails, BackfillFails, Stop, Finish, BackfillDone
    <3>. QED  BY <1>0, <3>1
  <2>. QED  BY <1>3, <2>1, <2>2 DEF Step
<1>4. CASE ResetBackfill
  BY <1>0, <1>4 DEF ResetBackfill, RowType
<1>5. CASE UNCHANGED row
  BY <1>0, <1>5
<1>. QED
  BY <1>1, <1>2, <1>3, <1>4, <1>5 DEF Next, Grow, Die, vars

\* Storing a chunk next to what is covered covers the wider range.
LEMMA NextCovered == Inductive /\ [Next]_vars => CoveredIsStored'
<1>. SUFFICES ASSUME Inductive, [Next]_vars PROVE CoveredIsStored'
  OBVIOUS
<1>0. TypeOK /\ row \in RowType /\ run \in [Collectors -> RunType] /\ CoveredIsStored
  BY DEF Inductive, TypeOK, RowType, RunType
<1>1. ASSUME NEW c \in Collectors, Forward(c) \/ SkipGap(c) PROVE CoveredIsStored'
  <2>1. row.exists /\ run[c].to <= row.to
    BY <1>1 DEF Inductive, Within, Forward, SkipGap, At
  <2>2. High(c) \in Int /\ run[c].to \in Int /\ row.to \in Int /\ row.from \in Int
    BY <1>0, BoundsAssumption DEF RunType, RowType, High, Min2, Blocks, Bounds
  <2>3. row'.from = row.from /\ row'.to = RaisedTo(High(c))
    BY <1>0, <1>1 DEF Forward, SkipGap, RowType
  <2>4. \A b \in row'.from .. row'.to :
          b \in row.from .. row.to \/ b \in run[c].to + 1 .. High(c)
    BY <1>0, <2>1, <2>2, <2>3, WidenedRow
  <2>5. stored \cup gaps \cup (run[c].to + 1 .. High(c)) = stored' \cup gaps'
    BY <1>1 DEF Forward, SkipGap
  <2>. QED  BY <1>0, <2>1, <2>4, <2>5 DEF CoveredIsStored
<1>2. ASSUME NEW c \in Collectors, Backfill(c) PROVE CoveredIsStored'
  <2>1. row.exists /\ row.from <= run[c].from
    BY <1>2 DEF Inductive, Within, Backfill, At
  <2>2. Low(c) \in Int /\ run[c].from \in Int /\ row.to \in Int /\ row.from \in Int
    BY <1>0, BoundsAssumption DEF RunType, RowType, Low, Floor, Max2, Blocks, Bounds
  <2>3. row'.to = row.to /\ row'.from = LoweredFrom(Low(c))
    BY <1>0, <1>2 DEF Backfill, RowType
  <2>4. \A b \in row'.from .. row'.to :
          b \in row.from .. row.to \/ b \in Low(c) .. run[c].from - 1
    BY <1>0, <2>1, <2>2, <2>3, WidenedRow
  <2>5. stored \cup gaps \cup (Low(c) .. run[c].from - 1) = stored' \cup gaps'
    BY <1>2 DEF Backfill
  <2>. QED  BY <1>0, <2>1, <2>4, <2>5 DEF CoveredIsStored
<1>3. ASSUME NEW c \in Collectors, Open(c) PROVE CoveredIsStored'
  <2>1. run[c].safe \in Int
    BY <1>0, BoundsAssumption DEF RunType, Blocks
  <2>2. CASE row.exists
    BY <1>0, <1>3, <2>2 DEF Open, Opened, CoveredIsStored
  <2>3. CASE ~row.exists
    <3>1. row'.from = run[c].safe + 1 /\ row'.to = run[c].safe
      BY <1>3, <2>3 DEF Open, Opened, NoRow
    <3>2. row'.from .. row'.to = {}
      BY <2>1, <3>1
    <3>. QED  BY <3>2 DEF CoveredIsStored
  <2>. QED  BY <2>2, <2>3
<1>4. CASE UNCHANGED <<stored, gaps>> /\ row'.exists = row.exists
           /\ row'.from = row.from /\ row'.to = row.to
  BY <1>0, <1>4 DEF CoveredIsStored
<1>5. ASSUME NEW c \in Collectors, Step(c),
             ~(Forward(c) \/ SkipGap(c) \/ Backfill(c) \/ Open(c))
      PROVE  CoveredIsStored'
  BY <1>0, <1>4, <1>5 DEF RowType, Step, Start, ForwardFails, ForwardEnd, BackfillFails, Stop,
                          BackfillEnd, Finish, BackfillDone
<1>6. CASE ResetBackfill
  BY <1>0, <1>4, <1>6 DEF ResetBackfill, RowType
<1>. QED
  BY <1>1, <1>2, <1>3, <1>4, <1>5, <1>6 DEF Next, Grow, Die, vars

\* The run of a collector that does not move keeps what it knows, since the row only grows.
LEMMA OthersKeep ==
  ASSUME Inductive, [Next]_vars, NEW d \in Collectors, run'[d] = run[d]
  PROVE  Skipping(d)' /\ Within(d)'
<1>0. /\ TypeOK /\ row \in RowType /\ run[d] \in RunType /\ TypeOK'
      /\ row' \in RowType /\ safe \in Blocks /\ Skipping(d) /\ Within(d)
  BY NextType DEF Inductive, TypeOK, RowType, RunType
<1>1. Skipping(d)'
  BY <1>0 DEF Skipping, ForwardLeft, At
<1>2. Within(d)'
  BY <1>0, RowGrows, BoundsAssumption DEF Within, RowType, RunType, Blocks, Bounds
<1>. QED  BY <1>1, <1>2

\* The run of the collector that moves keeps to the row it has just read or written.
LEMMA MoverKeeps ==
  ASSUME Inductive, NEW c \in Collectors, Step(c)
  PROVE  Skipping(c)' /\ Within(c)'
<1>0. /\ TypeOK /\ row \in RowType /\ run \in [Collectors -> RunType] /\ run[c] \in RunType
      /\ Skipping(c) /\ Within(c)
      /\ row.from \in Int /\ row.to \in Int /\ run[c].from \in Int /\ run[c].to \in Int
  BY BoundsAssumption DEF Inductive, TypeOK, RowType, RunType, Blocks, Bounds
<1>. USE <1>0 DEF Go, At, Skipping, Within, RowType, RunType
<1>1. CASE Start(c) \/ Finish(c)
  <2>1. CASE Start(c)
    BY <2>1 DEF Start, Idle
  <2>2. CASE Finish(c)
    BY <2>2 DEF Finish, Idle
  <2>. QED  BY <1>1, <2>1, <2>2
<1>2. CASE Open(c)
  <2>1. row'.exists
    BY <1>2 DEF Open, Opened, NoRow
  <2>2. run'[c].at = "forward" /\ run'[c].from = row'.from /\ run'[c].to = row'.to
    BY <1>2 DEF Open
  <2>3. row'.from \in Int /\ row'.to \in Int
    BY <1>2, BoundsAssumption DEF Open, Opened, NoRow, Blocks
  <2>. QED  BY <2>1, <2>2, <2>3
<1>3. CASE Forward(c) \/ SkipGap(c)
  <2>1. High(c) \in Int
    BY BoundsAssumption DEF High, Min2, Blocks
  <2>a. run'[c].at = "forward" /\ run'[c].to = High(c) /\ run'[c].from = run[c].from
    <3>1. CASE Forward(c)
      BY <3>1 DEF Forward
    <3>2. CASE SkipGap(c)
      BY <3>2 DEF SkipGap
    <3>. QED  BY <1>3, <3>1, <3>2
  <2>2. row'.exists = row.exists /\ row'.from = row.from /\ row'.to = RaisedTo(High(c))
    BY <1>3 DEF Forward, SkipGap
  <2>3. row.exists /\ row.from <= run[c].from
    BY <1>3 DEF Forward, SkipGap
  <2>. QED  BY <2>1, <2>2, <2>3, <2>a, WidenedRow
<1>4. CASE ForwardFails(c)
  <2>1. /\ run'[c].to = run[c].to /\ run'[c].from = run[c].from
        /\ run'[c].at \in {"backfill", "skip"}
        /\ run'[c].at = "skip" => run'[c].left = run[c].left /\ run'[c].safe = run[c].safe
    BY <1>4 DEF ForwardFails, Stalled
  <2>2. row'.exists = row.exists /\ row'.from = row.from /\ row'.to = row.to
    BY <1>4 DEF ForwardFails
  <2>. QED  BY <1>4, <2>1, <2>2 DEF ForwardFails, ForwardLeft
<1>5. CASE Backfill(c)
  <2>1. Low(c) \in Int
    BY BoundsAssumption DEF Low, Floor, Max2, Bounds
  <2>2. /\ run'[c].at = "backfill" /\ run'[c].to = run[c].to /\ run'[c].from = Low(c)
        /\ row'.exists = row.exists /\ row'.to = row.to /\ row'.from = LoweredFrom(Low(c))
    BY <1>5 DEF Backfill
  <2>3. row.exists /\ run[c].to <= row.to
    BY <1>5 DEF Backfill
  <2>. QED  BY <2>1, <2>2, <2>3, WidenedRow
<1>6. CASE ForwardEnd(c) \/ BackfillFails(c) \/ Stop(c) \/ BackfillEnd(c)
  <2>1. /\ run'[c].to = run[c].to /\ run'[c].from = run[c].from
        /\ run'[c].at \in {"backfill", "stop", "finish"}
    <3>1. CASE ForwardEnd(c)
      BY <3>1 DEF ForwardEnd
    <3>2. CASE BackfillFails(c)
      BY <3>2 DEF BackfillFails
    <3>3. CASE Stop(c)
      BY <3>3 DEF Stop
    <3>4. CASE BackfillEnd(c)
      BY <3>4 DEF BackfillEnd
    <3>. QED  BY <1>6, <3>1, <3>2, <3>3, <3>4
  <2>2. row'.exists = row.exists /\ row'.from = row.from /\ row'.to = row.to
    BY <1>6 DEF ForwardEnd, BackfillFails, Stop, BackfillEnd, BackfillDone
  <2>3. run[c].at \notin {"idle", "open"}
    BY <1>6 DEF ForwardEnd, BackfillFails, Stop, BackfillEnd
  <2>. QED  BY <2>1, <2>2, <2>3
<1>. QED
  BY <1>1, <1>2, <1>3, <1>4, <1>5, <1>6 DEF Step

LEMMA NextInductive == Inductive /\ [Next]_vars => Inductive'
<1>. SUFFICES ASSUME Inductive, [Next]_vars PROVE Inductive'
  OBVIOUS
<1>0. run \in [Collectors -> RunType]
  BY DEF Inductive, TypeOK, RunType
<1>1. ASSUME NEW d \in Collectors PROVE Skipping(d)' /\ Within(d)'
  <2>1. CASE Step(d)
    BY <2>1, MoverKeeps
  <2>2. CASE Die(d)
    BY <1>0, <2>2 DEF Die, Go, Idle, Skipping, Within, At
  <2>3. CASE run'[d] = run[d]
    BY <2>3, OthersKeep
  <2>4. ASSUME NEW c \in Collectors, c # d, Step(c) \/ Die(c) PROVE run'[d] = run[d]
    BY <1>0, <2>4 DEF Step, Die, Start, Open, Forward, ForwardFails, SkipGap, ForwardEnd,
                      Backfill, BackfillFails, Stop, BackfillEnd, Finish, Go
  <2>. QED
    BY <2>1, <2>2, <2>3, <2>4 DEF Next, Grow, ResetBackfill, vars
<1>. QED  BY <1>1, NextType, NextCovered DEF Inductive

LEMMA AlwaysInductive == Spec => []Inductive
  BY InitInductive, NextInductive, PTL DEF Spec

\* Rows, runs and stored blocks stay within their types.
THEOREM TypeCorrect == Spec => []TypeOK
<1>1. Inductive => TypeOK
  BY DEF Inductive
<1>. QED  BY <1>1, AlwaysInductive, PTL

\* Every block of the collected range is stored or recorded as a gap: append and skipGap,
\* with any number of collectors at once.
THEOREM RangeIsCovered == Spec => []CoveredIsStored
<1>1. Inductive => CoveredIsStored
  BY DEF Inductive
<1>. QED  BY <1>1, AlwaysInductive, PTL

\* LEAST and GREATEST in append and skipGap: the collected range never shrinks.
THEOREM RangeNeverShrinks == Spec => RangeOnlyGrows
<1>1. TypeOK /\ [Next]_vars =>
        [row.exists => row'.exists /\ row'.from <= row.from /\ row.to <= row'.to]_vars
  BY RowGrows
<1>. QED  BY <1>1, TypeCorrect, PTL DEF Spec, RangeOnlyGrows
=============================================================================
