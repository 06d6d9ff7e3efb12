------------------------- MODULE RoundStore_proofs -------------------------
(***************************************************************************)
(* What RoundStore guarantees for any number of rounds and faults, any     *)
(* archive and any number of overlapping writers.                          *)
(***************************************************************************)
EXTENDS RoundStore, WellFoundedInduction, TLAPS

\* The inductive invariant: the newest block differs from the confirmed ones by one change at
\* most, and what a task read of the chain is what the confirmed blocks say.
ChainGrows == head = safe \/ head \in Successors(safe)

ReadsAreTrue ==
  \A t \in Tasks \ {"csv"} : \A e \in Epochs :
    Final(job[t].data[e]) => job[t].data[e] = safe.res[e]

Inv == TypeOK /\ ChainGrows /\ ReadsAreTrue /\ FinalIsTrue

-----------------------------------------------------------------------------
\* The least and the greatest of some rounds.

\* A nonempty set of numbers has a least element.
LEMMA LeastExists ==
  ASSUME NEW S \in SUBSET Nat, S # {}
  PROVE  \E x \in S : \A y \in S : x <= y
<1>. DEFINE R == OpToRel(<, Nat)
<1>1. \A a \in Nat, b \in Nat : a < b => <<a, b>> \in R
  BY DEF OpToRel
<1>2. PICK x \in S : \A y \in S : <<y, x>> \notin R
  <2>. HIDE DEF R
  <2>. QED  BY WFMin, NatLessThanWellFounded, Zenon DEF R
<1>3. ASSUME NEW y \in S PROVE x <= y
  <2>1. x \in Nat /\ y \in Nat
    OBVIOUS
  <2>2. y < x => <<y, x>> \in R
    <3>. HIDE DEF R
    <3>. QED  BY <1>1, <2>1, Zenon
  <2>3. ~(y < x)
    <3>. HIDE DEF R
    <3>. QED  BY <2>2, <1>2, Zenon
  <2>. QED  BY <2>1, <2>3
<1>. QED  BY <1>3

\* Least finds it: the round a sync stores first, and the one a sweep begins with.
LEMMA LeastIn ==
  ASSUME NEW S \in SUBSET Epochs, S # {}
  PROVE  Least(S) \in S
<1>1. S \in SUBSET Nat
  BY BoundsAssumption DEF Epochs
<1>2. \E x \in S : \A y \in S : x <= y
  BY <1>1, LeastExists
<1>. QED  BY <1>2 DEF Least

\* Among the rounds there is a newest one too, the one least far from the last.
LEMMA GreatestIn ==
  ASSUME NEW S \in SUBSET Epochs, S # {}
  PROVE  Greatest(S) \in S
<1>. DEFINE Far == {MaxEpoch - e : e \in S}
<1>1. Far \in SUBSET Nat /\ Far # {}
  <2>1. ASSUME NEW e \in S
        PROVE  MaxEpoch - e \in Nat
    BY BoundsAssumption DEF Epochs
  <2>2. PICK e \in S : TRUE
    OBVIOUS
  <2>3. MaxEpoch - e \in Far
    BY <2>2
  <2>. QED  BY <2>1, <2>3
<1>2. PICK d \in Far : \A c \in Far : d <= c
  <2>. HIDE DEF Far
  <2>. QED  BY <1>1, LeastExists
<1>3. PICK x \in S : d = MaxEpoch - x
  BY <1>2
<1>4. \A y \in S : MaxEpoch - x <= MaxEpoch - y
  BY <1>2, <1>3
<1>5. \A y \in S : x >= y
  BY <1>4, BoundsAssumption DEF Epochs
<1>. QED  BY <1>5 DEF Greatest

-----------------------------------------------------------------------------
\* Types.

Jobs == [part : {"idle", "tick", "sync", "missed", "stale", "gaps", "sweep", "import"},
         todo : SUBSET Epochs, data : [Epochs -> Results],
         at : 0 .. MaxEpoch, seen : Rows, till : 0 .. MaxEpoch]

\* A task that does nothing is one.
LEMMA IdleType == Idle \in Jobs
<1>1. Unread \in [Epochs -> Results] /\ NoRow \in Rows
  BY DEF Unread, Results, NoRow, Rows
<1>2. 0 \in 0 .. MaxEpoch
  BY BoundsAssumption
<1>. QED  BY <1>1, <1>2 DEF Idle, Jobs

\* What a sync is to do is a job, and its data are those of the confirmed blocks.
LEMMA SyncJobType ==
  ASSUME TypeOK, NEW epochs, NEW all \in BOOLEAN, NEW till \in 0 .. MaxEpoch,
         NEW part \in {"sync", "missed", "stale", "gaps", "sweep"}
  PROVE  /\ SyncJob(part, epochs, all, till) \in Jobs
         /\ SyncJob(part, epochs, all, till).data = SafeData(Wanted(epochs, all))
<1>1. Wanted(epochs, all) \in SUBSET Epochs
  BY DEF Wanted
<1>2. SafeData(Wanted(epochs, all)) \in [Epochs -> Results]
  BY DEF SafeData, TypeOK, Chains, Results
<1>. QED  BY <1>1, <1>2, IdleType DEF SyncJob, Jobs, Idle

\* What a sync read of a round is what the confirmed blocks say.
LEMMA SafeDataTrue ==
  ASSUME NEW epochs, NEW e \in Epochs, Final(SafeData(epochs)[e])
  PROVE  SafeData(epochs)[e] = safe.res[e]
BY DEF SafeData, Final

\* One block later the rounds that were over are over with the same outcome.
LEMMA SuccessorsType ==
  ASSUME NEW c \in Chains, NEW d \in Successors(c)
  PROVE  /\ d \in Chains
         /\ \A e \in Epochs : Final(c.res[e]) => d.res[e] = c.res[e]
<1>1. \A out \in Results :
        /\ With(c, out) \in [Epochs -> Results]
        /\ \A e \in Epochs : Final(c.res[e]) => With(c, out)[e] = c.res[e]
  BY DEF With, Locked, Chains, Final
<1>2. /\ d.open \in Epochs
      /\ \E out \in Results : d = [open |-> d.open, res |-> With(c, out)]
  BY EndsAssumption DEF Successors, Chains, Results, Outcomes
<1>. QED  BY <1>1, <1>2 DEF Chains

-----------------------------------------------------------------------------
\* The steps.

\* A job that holds true reads.
Sound(j) == j \in Jobs /\ \A e \in Epochs : Final(j.data[e]) => j.data[e] = safe.res[e]

\* A sync starts with one,
LEMMA SyncSound ==
  ASSUME TypeOK, NEW epochs, NEW all \in BOOLEAN, NEW till \in 0 .. MaxEpoch,
         NEW part \in {"sync", "missed", "stale", "gaps", "sweep"}
  PROVE  Sound(SyncJob(part, epochs, all, till))
BY SyncJobType, SafeDataTrue DEF Sound

\* and so it does when it has nothing to do.
LEMMA IdleSound == Sound(Idle)
<1>1. Idle.data = Unread
  BY DEF Idle
<1>. QED  BY <1>1, IdleType DEF Sound, Unread, Final

\* A step that moves one task, or none, keeps the jobs if it leaves that task sound.
LEMMA OneMoves ==
  ASSUME Inv, NEW t \in Tasks, NEW j \in Jobs, job' = [job EXCEPT ![t] = j], UNCHANGED safe,
         t # "csv" => \A e \in Epochs : Final(j.data[e]) => j.data[e] = safe.res[e]
  PROVE  job' \in [Tasks -> Jobs] /\ ReadsAreTrue'
<1>1. job \in [Tasks -> Jobs] /\ ReadsAreTrue
  BY DEF Inv, TypeOK, Jobs
<1>2. \A u \in Tasks : job'[u] = IF u = t THEN j ELSE job[u]
  BY <1>1
<1>. QED  BY <1>1, <1>2 DEF ReadsAreTrue

\* New blocks, deeper ones and a reorganisation: a round that was final when a task read it
\* stays what the task read.
LEMMA BlocksKeep ==
  ASSUME Inv, NewBlock \/ Deepen \/ Reorg
  PROVE  Inv'
<1>1. TypeOK /\ ChainGrows /\ ReadsAreTrue /\ FinalIsTrue /\ safe \in Chains
  BY DEF Inv, TypeOK
<1>2. /\ safe' \in Chains /\ head' \in Chains
      /\ \A e \in Epochs : Final(safe.res[e]) => safe'.res[e] = safe.res[e]
      /\ UNCHANGED <<row, cursor, imported, phase, last, job, faults>>
  BY <1>1, SuccessorsType DEF NewBlock, Deepen, Reorg, ChainGrows, TypeOK
<1>3. TypeOK'
  BY <1>1, <1>2 DEF TypeOK
<1>4. ChainGrows'
  BY <1>1 DEF ChainGrows, NewBlock, Deepen, Reorg
<1>5. ReadsAreTrue'
  BY <1>1, <1>2 DEF ReadsAreTrue, Final
<1>6. FinalIsTrue'
  BY <1>1, <1>2 DEF FinalIsTrue, Final
<1>. QED  BY <1>3, <1>4, <1>5, <1>6 DEF Inv

\* The task stores next one of the rounds it has left.
LEMMA FirstIn ==
  ASSUME TypeOK, NEW t \in Tasks, job[t].todo # {}
  PROVE  First(t) \in job[t].todo /\ First(t) \in Epochs
<1>1. job[t].todo \in SUBSET Epochs
  BY DEF TypeOK
<1>. QED  BY <1>1, LeastIn, GreatestIn DEF First

\* A task reads the row of its next round.
LEMMA LookKeeps ==
  ASSUME Inv, NEW t \in Tasks, Look(t)
  PROVE  Inv'
<1>1. TypeOK /\ job \in [Tasks -> Jobs] /\ job[t] \in Jobs
  BY DEF Inv, TypeOK, Jobs
<1>. DEFINE j == [job[t] EXCEPT !.at = First(t), !.seen = row[First(t)]]
<1>2. First(t) \in 0 .. MaxEpoch /\ row[First(t)] \in Rows
  BY <1>1, FirstIn, BoundsAssumption DEF Look, TypeOK, Epochs
<1>3. j \in Jobs /\ j.data = job[t].data
  BY <1>1, <1>2 DEF Jobs
<1>4. job' = [job EXCEPT ![t] = j] /\ UNCHANGED <<chainVars, row, cursor, imported, phase, last, faults>>
  BY <1>1 DEF Look
<1>5. job' \in [Tasks -> Jobs] /\ ReadsAreTrue'
  <2>1. t # "csv" => \A e \in Epochs : Final(j.data[e]) => j.data[e] = safe.res[e]
    BY <1>3 DEF Inv, ReadsAreTrue
  <2>. HIDE DEF j
  <2>. QED  BY <1>3, <1>4, <2>1, OneMoves DEF chainVars
<1>. QED
  BY <1>1, <1>4, <1>5 DEF Inv, TypeOK, Jobs, ChainGrows, FinalIsTrue, chainVars

\* It writes the row, over whatever was written since: the data are true, the row need not be
\* the one it read.
LEMMA PutKeeps ==
  ASSUME Inv, NEW t \in Tasks, Put(t)
  PROVE  Inv'
<1>. DEFINE e == job[t].at
            done == [job[t] EXCEPT !.todo = @ \ {e}, !.data = [@ EXCEPT ![e] = "pending"],
                                   !.at = 0, !.seen = NoRow]
<1>1. TypeOK /\ job \in [Tasks -> Jobs] /\ job[t] \in Jobs /\ ReadsAreTrue /\ FinalIsTrue
  BY DEF Inv, TypeOK, Jobs
<1>2. e \in Epochs
  BY <1>1, BoundsAssumption DEF Put, Jobs, Epochs
<1>3. done \in Jobs /\ \A d \in Epochs : Final(done.data[d]) => done.data[d] = job[t].data[d]
  <2>1. 0 \in 0 .. MaxEpoch /\ NoRow \in Rows /\ "pending" \in Results
    BY BoundsAssumption DEF NoRow, Rows, Results
  <2>2. [job[t].data EXCEPT ![e] = "pending"] \in [Epochs -> Results]
    BY <1>1, <1>2, <2>1 DEF Jobs
  <2>3. done \in Jobs /\ done.data = [job[t].data EXCEPT ![e] = "pending"]
    BY <1>1, <2>1, <2>2 DEF Jobs
  <2>4. job[t].data \in [Epochs -> Results]
    BY <1>1 DEF Jobs
  <2>. QED  BY <2>3, <2>4 DEF Final
<1>4. /\ job' = [job EXCEPT ![t] = done] \/ job' = [job EXCEPT ![t] = Idle]
      /\ row' = row \/ row' = [row EXCEPT ![e] = Stores(t)]
      /\ UNCHANGED <<chainVars, cursor, imported, phase, last, faults>>
  BY DEF Put
<1>5. job' \in [Tasks -> Jobs] /\ ReadsAreTrue'
  <2>1. t # "csv" => \A d \in Epochs : Final(done.data[d]) => done.data[d] = safe.res[d]
    BY <1>1, <1>3 DEF ReadsAreTrue
  <2>2. Sound(Idle)
    BY IdleSound
  <2>. HIDE DEF done
  <2>. QED  BY <1>3, <1>4, <2>1, <2>2, OneMoves DEF chainVars, Sound
<1>6. row' \in [Epochs -> Rows]
  <2>1. Stores(t) \in Rows
    BY <1>1, <1>2 DEF Stores, Source, Rows, Jobs
  <2>. QED  BY <1>1, <1>4, <2>1 DEF TypeOK
<1>7. FinalIsTrue'
  <2>1. Stores(t).src = "CHAIN" /\ Final(Stores(t).out) => Stores(t).out = safe.res[e]
    BY <1>1, <1>2 DEF Stores, Source, ReadsAreTrue
  <2>2. row \in [Epochs -> Rows] /\ UNCHANGED safe
    BY <1>1, <1>4 DEF TypeOK, chainVars
  <2>. QED  BY <1>1, <1>2, <1>4, <2>1, <2>2 DEF FinalIsTrue
<1>. QED
  BY <1>1, <1>4, <1>5, <1>6, <1>7 DEF Inv, TypeOK, Jobs, ChainGrows, chainVars

\* The rest of the steps store nothing: they set one task, or the monitor and the task that
\* fills what it missed, to a sound job.
LEMMA StartKeeps ==
  ASSUME Inv, NEW t \in Tasks, NEW j, Sound(j), job' = [job EXCEPT ![t] = j],
         phase' \in {"down", "recovering", "ready"}, imported' \in BOOLEAN,
         cursor' \in 0 .. MaxEpoch + 1, last' \in 0 .. MaxEpoch, faults' \in 0 .. MaxFaults,
         UNCHANGED <<chainVars, row>>
  PROVE  Inv'
<1>1. job' \in [Tasks -> Jobs] /\ ReadsAreTrue'
  BY OneMoves DEF chainVars, Sound
<1>. QED  BY <1>1 DEF Inv, TypeOK, Jobs, ChainGrows, FinalIsTrue, chainVars

\* The monitor starts a tick and ends it, the rounds it missed going to the incremental sync.
LEMMA MonitorKeeps ==
  ASSUME Inv, MonitorStart \/ MonitorEnd
  PROVE  Inv'
<1>1. TypeOK /\ job \in [Tasks -> Jobs] /\ head.open \in Epochs /\ "monitor" \in Tasks
  BY DEF Inv, TypeOK, Jobs, Chains, Tasks
<1>2. CASE MonitorStart
  <2>. DEFINE j == [Idle EXCEPT !.part = "tick", !.till = head.open,
                      !.todo = {e \in Epochs : e <= head.open /\ e + 2 >= head.open},
                      !.data = [e \in Epochs |-> ReadBy(e)]]
  <2>1. /\ [e \in Epochs |-> ReadBy(e)] \in [Epochs -> Results]
        /\ \A e \in Epochs : Final(ReadBy(e)) => ReadBy(e) = safe.res[e]
    BY <1>1 DEF ReadBy, TypeOK, Chains, Results, Final
  <2>2. head.open \in 0 .. MaxEpoch
    BY <1>1, BoundsAssumption DEF Epochs
  <2>3. j \in Jobs /\ j.data = [e \in Epochs |-> ReadBy(e)]
    BY <2>1, <2>2, IdleType DEF Jobs
  <2>4. Sound(j)
    BY <2>1, <2>3 DEF Sound
  <2>5. job' = [job EXCEPT !["monitor"] = j]
    BY <1>2 DEF MonitorStart
  <2>. HIDE DEF j
  <2>. QED  BY <1>1, <1>2, <2>4, <2>5, StartKeeps DEF MonitorStart, TypeOK, chainVars
<1>3. CASE MonitorEnd
  <2>. DEFINE open == job["monitor"].till
              j == SyncJob("missed", last + 1 .. open - 1, FALSE, 0)
  <2>1. open \in 0 .. MaxEpoch
    BY <1>1 DEF Jobs
  <2>2. last' \in 0 .. MaxEpoch
    BY <1>1, <1>3, <2>1 DEF MonitorEnd, Max2, TypeOK
  <2>3. Sound(j)
    <3>1. 0 \in 0 .. MaxEpoch
      BY BoundsAssumption
    <3>. QED  BY <1>1, <3>1, SyncSound
  <2>4. /\ job' = [job EXCEPT !["monitor"] = Idle, !["incremental"] = j]
           \/ job' = [job EXCEPT !["monitor"] = Idle]
        /\ UNCHANGED <<chainVars, row, cursor, imported, phase, faults>>
    <3>1. CASE last = 0 \/ last + 1 .. open - 1 = {}
      BY <1>1, <1>3, <3>1 DEF MonitorEnd, Tasks, Syncs
    <3>2. CASE last # 0 /\ last + 1 .. open - 1 # {}
      BY <1>1, <1>3, <3>2 DEF MonitorEnd, Tasks, Syncs
    <3>. QED  BY <3>1, <3>2
  <2>. HIDE DEF j
  <2>5. \A u \in Tasks : job'[u] \in {job[u], Idle, j} /\ job' \in [Tasks -> Jobs]
    BY <1>1, <2>3, <2>4, IdleSound DEF Sound
  <2>6. ReadsAreTrue'
    BY <2>3, <2>4, <2>5, IdleSound DEF Inv, ReadsAreTrue, Sound, chainVars
  <2>. QED  BY <1>1, <2>2, <2>4, <2>5, <2>6 DEF Inv, TypeOK, Jobs, ChainGrows, FinalIsTrue, chainVars
<1>. QED  BY <1>2, <1>3

\* The incremental sync.
LEMMA IncrementalKeeps ==
  ASSUME Inv, IncrementalStart \/ IncrementalEnd \/ BackfillEnd
  PROVE  Inv'
<1>1. TypeOK /\ "incremental" \in Tasks /\ 0 \in 0 .. MaxEpoch
  BY BoundsAssumption DEF Inv, Tasks, Syncs
<1>2. CASE IncrementalStart
  <2>. DEFINE j == SyncJob("sync", (IncrementalFrom .. head.open) \cup NonFinal(head.open), FALSE, 0)
  <2>1. Sound(j)
    BY <1>1, SyncSound
  <2>2. job' = [job EXCEPT !["incremental"] = j]
    BY <1>2 DEF IncrementalStart
  <2>. HIDE DEF j
  <2>. QED  BY <1>1, <1>2, <2>1, <2>2, StartKeeps DEF IncrementalStart, TypeOK, chainVars
<1>3. CASE IncrementalEnd \/ BackfillEnd
  BY <1>1, <1>3, IdleSound, StartKeeps DEF IncrementalEnd, BackfillEnd, TypeOK, chainVars
<1>. QED  BY <1>2, <1>3

\* A sweep ends at a round.
LEMMA SweepType ==
  ASSUME TypeOK, Stored # {}
  PROVE  SweepTo(SweepFrom) \in 0 .. MaxEpoch
<1>1. Least(Stored) \in Epochs /\ Greatest(Stored) \in Epochs
  BY LeastIn, GreatestIn DEF Stored
<1>2. SweepFrom \in Nat
  BY <1>1, BoundsAssumption DEF SweepFrom, TypeOK, Epochs
<1>. QED  BY <1>1, <1>2, BoundsAssumption DEF SweepTo, Epochs

\* The reconciliation, part by part.
LEMMA ReconcileKeeps ==
  ASSUME Inv, ReconcileStart \/ ReconcileGaps \/ ReconcileSweep \/ ReconcileEnd
  PROVE  Inv'
<1>1. /\ TypeOK /\ "reconcile" \in Tasks /\ head.open \in 0 .. MaxEpoch
      /\ job["reconcile"].till \in 0 .. MaxEpoch
  BY BoundsAssumption DEF Inv, TypeOK, Tasks, Syncs, Chains, Epochs
<1>2. CASE ReconcileStart
  <2>. DEFINE j == SyncJob("stale", {e \in NonFinal(head.open) : e + 2 <= head.open}, FALSE, head.open)
  <2>1. Sound(j)
    BY <1>1, SyncSound
  <2>2. job' = [job EXCEPT !["reconcile"] = j]
    BY <1>2 DEF ReconcileStart
  <2>. HIDE DEF j
  <2>. QED  BY <1>1, <1>2, <2>1, <2>2, StartKeeps DEF ReconcileStart, TypeOK, chainVars
<1>3. CASE ReconcileGaps
  <2>. DEFINE open == job["reconcile"].till
              j == SyncJob("gaps", Before(open, Window) .. open - 1, FALSE, open)
  <2>1. Sound(j)
    BY <1>1, SyncSound
  <2>2. job' = [job EXCEPT !["reconcile"] = j]
    BY <1>3 DEF ReconcileGaps
  <2>. HIDE DEF j
  <2>. QED  BY <1>1, <1>3, <2>1, <2>2, StartKeeps DEF ReconcileGaps, TypeOK, chainVars
<1>4. CASE ReconcileSweep
  <2>. DEFINE j == IF Stored = {} THEN Idle
                   ELSE SyncJob("sweep", SweepFrom .. SweepTo(SweepFrom), TRUE, SweepTo(SweepFrom))
  <2>1. Sound(j)
    BY <1>1, SyncSound, IdleSound, SweepType
  <2>2. job' = [job EXCEPT !["reconcile"] = j]
    BY <1>4 DEF ReconcileSweep
  <2>. HIDE DEF j
  <2>. QED  BY <1>1, <1>4, <2>1, <2>2, StartKeeps DEF ReconcileSweep, TypeOK, chainVars
<1>5. CASE ReconcileEnd
  <2>1. cursor' \in 0 .. MaxEpoch + 1
    BY <1>1, <1>5, BoundsAssumption DEF ReconcileEnd
  <2>. QED  BY <1>1, <1>5, <2>1, IdleSound, StartKeeps DEF ReconcileEnd, TypeOK, chainVars
<1>. QED  BY <1>2, <1>3, <1>4, <1>5

\* The archive may be wrong: its rows are no chain data.
LEMMA CsvKeeps ==
  ASSUME Inv, CsvStart \/ CsvEnd
  PROVE  Inv'
<1>1. TypeOK /\ "csv" \in Tasks
  BY DEF Inv, Tasks
<1>2. CASE CsvStart
  <2>. DEFINE j == [Idle EXCEPT !.part = "import", !.todo = DOMAIN Archive,
          !.data = [e \in Epochs |-> IF e \in DOMAIN Archive THEN Archive[e] ELSE "pending"]]
  <2>1. [e \in Epochs |-> IF e \in DOMAIN Archive THEN Archive[e] ELSE "pending"]
          \in [Epochs -> Results]
    BY ArchiveAssumption DEF Results
  <2>2. j \in Jobs
    BY <2>1, IdleType, ArchiveAssumption DEF Jobs
  <2>3. job' = [job EXCEPT !["csv"] = j]
    BY <1>2 DEF CsvStart
  <2>. HIDE DEF j
  <2>4. job' \in [Tasks -> Jobs] /\ ReadsAreTrue'
    BY <1>1, <1>2, <2>2, <2>3, OneMoves DEF CsvStart, chainVars
  <2>. QED  BY <1>1, <1>2, <2>4 DEF CsvStart, Inv, TypeOK, Jobs, ChainGrows, FinalIsTrue, chainVars
<1>3. CASE CsvEnd
  BY <1>1, <1>3, IdleSound, StartKeeps DEF CsvEnd, TypeOK, chainVars
<1>. QED  BY <1>2, <1>3

\* Restarts, crashes, failed and repeated reads.
LEMMA WorkerKeeps ==
  ASSUME Inv, Boot \/ Crash \/ \E t \in Syncs : Repin(t) \/ SyncFails(t)
  PROVE  Inv'
<1>1. TypeOK /\ job \in [Tasks -> Jobs] /\ Syncs \subseteq Tasks
  BY DEF Inv, TypeOK, Jobs, Tasks
<1>2. CASE Boot
  BY <1>1, <1>2 DEF Boot, Inv, TypeOK, ChainGrows, ReadsAreTrue, FinalIsTrue, chainVars
<1>3. CASE Crash
  <2>1. \A u \in Tasks : job'[u] \in {job[u], Idle} /\ job' \in [Tasks -> Jobs]
    BY <1>1, <1>3, IdleType DEF Crash
  <2>2. ReadsAreTrue' /\ faults' \in 0 .. MaxFaults /\ 0 \in 0 .. MaxEpoch
    BY <1>1, <1>3, <2>1, IdleSound, BoundsAssumption
    DEF Crash, Fault, Inv, TypeOK, ReadsAreTrue, Sound, chainVars
  <2>. QED  BY <1>1, <1>3, <2>1, <2>2 DEF Crash, Inv, TypeOK, Jobs, ChainGrows, FinalIsTrue, chainVars
<1>4. ASSUME NEW t \in Syncs, SyncFails(t)
      PROVE  Inv'
  <2>1. faults' \in 0 .. MaxFaults
    BY <1>1, <1>4, BoundsAssumption DEF SyncFails, Fault, TypeOK
  <2>. QED  BY <1>1, <1>4, <2>1, IdleSound, StartKeeps DEF SyncFails, TypeOK, chainVars
<1>5. ASSUME NEW t \in Syncs, Repin(t)
      PROVE  Inv'
  <2>. DEFINE j == [job[t] EXCEPT !.data = SafeData(job[t].todo)]
  <2>1. job[t] \in Jobs /\ SafeData(job[t].todo) \in [Epochs -> Results]
    BY <1>1 DEF SafeData, TypeOK, Chains, Results
  <2>2. j \in Jobs /\ j.data = SafeData(job[t].todo)
    BY <2>1 DEF Jobs
  <2>3. Sound(j)
    BY <2>2, SafeDataTrue DEF Sound
  <2>4. job' = [job EXCEPT ![t] = j]
    BY <1>1, <1>5 DEF Repin
  <2>. HIDE DEF j
  <2>. QED  BY <1>1, <1>5, <2>3, <2>4, StartKeeps DEF Repin, TypeOK, chainVars
<1>. QED  BY <1>2, <1>3, <1>4, <1>5

-----------------------------------------------------------------------------
\* Together.

\* The invariant holds at first,
LEMMA InvInit == Init => Inv
<1>. SUFFICES ASSUME Init PROVE Inv
  OBVIOUS
<1>1. NoRow \in Rows /\ 1 \in Epochs /\ Unread \in [Epochs -> Results]
  BY BoundsAssumption DEF NoRow, Rows, Epochs, Unread, Results
<1>2. TypeOK
  <2>1. head \in Chains /\ safe \in Chains
    BY <1>1 DEF Init, Chains
  <2>2. 0 \in 0 .. MaxEpoch /\ 0 \in 0 .. MaxEpoch + 1 /\ 0 \in 0 .. MaxFaults
    BY BoundsAssumption
  <2>. QED  BY <1>1, <2>1, <2>2, IdleType DEF Init, TypeOK, Jobs
<1>3. ChainGrows /\ ReadsAreTrue /\ FinalIsTrue
  BY IdleSound DEF Init, ChainGrows, ReadsAreTrue, FinalIsTrue, NoRow, Sound
<1>. QED  BY <1>2, <1>3 DEF Inv

\* after every step,
LEMMA InvStep == Inv /\ [Next]_vars => Inv'
<1>. SUFFICES ASSUME Inv, [Next]_vars PROVE Inv'
  OBVIOUS
<1>1. CASE UNCHANGED vars
  BY <1>1 DEF vars, chainVars, Inv, TypeOK, ChainGrows, ReadsAreTrue, FinalIsTrue
<1>2. ASSUME NEW t \in Tasks, Store(t)
      PROVE  Inv'
  BY <1>2, LookKeeps, PutKeeps DEF Store
<1>3. CASE Monitor
  BY <1>2, <1>3, MonitorKeeps DEF Monitor, Tasks
<1>4. CASE Incremental
  BY <1>2, <1>4, IncrementalKeeps DEF Incremental, Tasks, Syncs
<1>5. CASE Reconcile
  BY <1>2, <1>5, ReconcileKeeps DEF Reconcile, Tasks, Syncs
<1>6. CASE Csv
  BY <1>2, <1>6, CsvKeeps DEF Csv, Tasks
<1>. QED  BY <1>1, <1>3, <1>4, <1>5, <1>6, BlocksKeep, WorkerKeeps DEF Next

\* and so always.
LEMMA Inductive == Spec => []Inv
  BY InvInit, InvStep, PTL DEF Spec

\* Every variable keeps its type: tasks store rounds that exist, and a sweep ends at one.
THEOREM TypeCorrect == Spec => []TypeOK
<1>1. Inv => TypeOK
  BY DEF Inv
<1>. QED  BY <1>1, Inductive, PTL

\* A final row read from the chain says what the confirmed blocks say, for any number of
\* overlapping writers, reorganisations, crashes and failed syncs (RoundsRepo.upsert).
THEOREM FinalRowsAreTrue == Spec => []FinalIsTrue
<1>1. Inv => FinalIsTrue
  BY DEF Inv
<1>. QED  BY <1>1, Inductive, PTL

\* No write changes final chain data, whatever row its writer read (the trigger
\* rounds_final_immutable).
THEOREM FinalRowsStay == Spec => FinalStays
<1>1. ASSUME Inv, [Next]_vars, NEW e \in Epochs, row[e].src = "CHAIN", Final(row[e].out)
      PROVE  row'[e].out = row[e].out
  <2>1. CASE UNCHANGED row
    BY <2>1
  <2>2. ASSUME NEW t \in Tasks, Put(t)
        PROVE  row'[e].out = row[e].out
    <3>1. CASE row' = row
      BY <3>1
    <3>2. CASE row' # row
      <4>1. /\ row' = [row EXCEPT ![job[t].at] = Stores(t)]
            /\ Accepted(job[t].seen, row[job[t].at], Stores(t))
        BY <2>2, <3>2 DEF Put
      <4>2. row \in [Epochs -> Rows]
        BY <1>1 DEF Inv, TypeOK
      <4>. QED  BY <1>1, <4>1, <4>2 DEF Accepted, Permitted, Final
    <3>. QED  BY <3>1, <3>2
  <2>3. UNCHANGED row \/ \E t \in Tasks : Put(t)
    BY <1>1 DEF Next, NewBlock, Deepen, Reorg, Monitor, MonitorStart, MonitorEnd, Incremental,
      IncrementalStart, IncrementalEnd, BackfillEnd, Reconcile, ReconcileStart, ReconcileGaps,
      ReconcileSweep, ReconcileEnd, Csv, CsvStart, CsvEnd, Store, Look, Repin, SyncFails, Boot,
      Crash, Tasks, Syncs, vars
  <2>. QED  BY <2>1, <2>2, <2>3
<1>2. Inv /\ [Next]_vars =>
        (\A e \in Epochs : row[e].src = "CHAIN" /\ Final(row[e].out) => row'[e].out = row[e].out)
  BY <1>1
<1>. QED  BY <1>2, Inductive, PTL DEF Spec, FinalStays
=============================================================================
