------------------------------ MODULE Processes ------------------------------
(***************************************************************************)
(* The processes that share one database: servers, of which only the       *)
(* holder of the worker lease may run the loops, and command lines         *)
(* (apps/server/src/main.ts, app.ts, services/worker.ts, the lease in      *)
(* db/database.ts, services/recovery.ts), and the backtests any of them    *)
(* may be computing (services/backtest.ts, repositories/misc.ts), and the  *)
(* experiments (services/research.ts, repositories/research.ts).           *)
(*                                                                         *)
(* The lease is a session lock of the database: it is free as soon as the  *)
(* session is gone, and its holder learns so only at its next look.  What  *)
(* the loops do is in the other modules: here it is a job that takes time. *)
(***************************************************************************)
EXTENDS Naturals, FiniteSets

CONSTANTS
  Processes,
  Servers,       \* the others are command lines: they never start a worker
  Backtests,     \* bound: the runs that may be requested
  Experiments,   \* bound: the experiments registered
  MaxDetached,   \* bound: what runs at once without anybody awaiting it
  MaxFaults      \* bound: signals, crashes, lost connections and failed recoveries

ASSUME ProcessesAssumption == Servers \subseteq Processes /\ {"none", "ghost"} \cap Processes = {}
ASSUME IdsAssumption == "none" \notin Backtests \cup Experiments
ASSUME BoundAssumption == MaxFaults \in Nat /\ MaxDetached \in Nat

VARIABLES
  phase,     \* of a process: DOWN, UP, and the steps of its shutdown
  session,   \* whose session holds the advisory lock; a ghost: a dead host's, not yet timed out
  leased,    \* what the process believes
  loop,      \* where its lease loop is
  work,      \* its loops: none, recovering (collecting data only) or trading
  jobs,      \* the calls its loops have under way, of this lease (new) or an earlier one (old), and
             \* what such calls began and nobody awaits (detached)
  dropped,   \* history: the lease connection failed under this lease
  runs,      \* backtest_runs: status, and the age of the heartbeat in half stale times
  active,    \* the run a process is computing
  studies,   \* research_experiments: status, and how often its hypotheses entered the ledger
  studied,   \* the experiment a process is computing
  faults

processVars == <<phase, session, leased, loop, work, jobs, dropped, runs, active, studies, studied, faults>>
lease == <<session, leased, loop, dropped>>
backtest == <<runs, active>>
research == <<studies, studied>>

Jobs == {"recovery", "recovered", "loop", "detached"} \X {"new", "old"}
Awaited(p) == {j \in jobs[p] : j[1] # "detached"}
Unawaited == UNION {{<<p, j>> : j \in jobs[p] \ Awaited(p)} : p \in Processes}

stopped(p) == phase[p] \in {"drain", "release", "close"}

Fault == faults < MaxFaults /\ faults' = faults + 1

FreedBy(p) == IF session = p THEN "none" ELSE session

\* stopWork: the timers are cleared, and what is under way belongs to an earlier generation now.
StopWork(p) ==
  /\ work' = [work EXCEPT ![p] = "none"]
  /\ jobs' = [jobs EXCEPT ![p] = {<<j[1], "old">> : j \in @}]

NotAwaited(p) == TRUE     \* fault: without waiting for what is under way

\* The end of stopWork: every call it knows of has settled.
Drained(p) == Awaited(p) = {}

-----------------------------------------------------------------------------
\* The lease loop.

Acquire(p) ==
  /\ phase[p] = "UP" /\ loop[p] = "look" /\ ~leased[p]
  /\ session = "none"
  /\ session' = p
  /\ loop' = [loop EXCEPT ![p] = "granted"]
  /\ UNCHANGED <<phase, leased, work, jobs, dropped, backtest, research, faults>>

\* The answer arrives.  A process told to stop meanwhile leaves its session to the process's end.
Granted(p) ==
  /\ loop[p] = "granted"
  /\ IF stopped(p)
     THEN /\ loop' = [loop EXCEPT ![p] = "ended"]
          /\ UNCHANGED <<leased, work, dropped>>
     ELSE /\ leased' = [leased EXCEPT ![p] = TRUE]
          /\ work' = [work EXCEPT ![p] = "recovering"]
          /\ dropped' = [dropped EXCEPT ![p] = session # p]
          /\ loop' = [loop EXCEPT ![p] = "look"]
  /\ UNCHANGED <<phase, session, jobs, backtest, research, faults>>

\* checkWorkerLease finds the connection gone.
CheckFails(p) ==
  /\ phase[p] = "UP" /\ loop[p] = "look" /\ leased[p]
  /\ session # p
  /\ loop' = [loop EXCEPT ![p] = "lost"]
  /\ UNCHANGED <<phase, session, leased, work, jobs, dropped, backtest, research, faults>>

\* Or its query times out: the connection is ended, and the lock with it, before the loops are.
CheckTimesOut(p) ==
  /\ phase[p] = "UP" /\ loop[p] = "look" /\ leased[p]
  /\ session = p
  /\ Fault
  /\ session' = "none"
  /\ dropped' = [dropped EXCEPT ![p] = TRUE]
  /\ loop' = [loop EXCEPT ![p] = "lost"]
  /\ UNCHANGED <<phase, leased, work, jobs, backtest, research>>

Lost(p) ==
  /\ loop[p] = "lost"
  /\ leased' = [leased EXCEPT ![p] = FALSE]
  /\ StopWork(p)
  /\ loop' = [loop EXCEPT ![p] = "drain"]
  /\ UNCHANGED <<phase, session, dropped, backtest, research, faults>>

GivesUp == "ended"     \* fault: the loop ends with its first lease
AfterLoss == "look"

LoopDrained(p) ==
  /\ loop[p] = "drain" /\ Drained(p)
  /\ loop' = [loop EXCEPT ![p] = AfterLoss]
  /\ UNCHANGED <<phase, session, leased, work, jobs, dropped, backtest, research, faults>>

LoopEnds(p) ==
  /\ loop[p] = "look" /\ stopped(p)
  /\ loop' = [loop EXCEPT ![p] = "ended"]
  /\ UNCHANGED <<phase, session, leased, work, jobs, dropped, backtest, research, faults>>

-----------------------------------------------------------------------------
\* The loops of the holder, and recovery before them.

Begun(p, kind) == jobs' = [jobs EXCEPT ![p] = @ \cup {<<kind, "new">>}]

StartRecovery(p) ==
  /\ work[p] = "recovering"
  /\ \A j \in Awaited(p) : j[1] = "loop"
  /\ Begun(p, "recovery")
  /\ UNCHANGED <<phase, lease, work, backtest, research, faults>>

AnyRunning(r) == runs[r].status = "RUNNING"     \* fault: whatever its heartbeat
Interrupted(r) == runs[r].status = "RUNNING" /\ runs[r].age = 2

\* Its first writes: failInterrupted fails the backtests nobody beats for.
RecoverBacktests(p, generation) ==
  /\ <<"recovery", generation>> \in jobs[p]
  /\ runs' = [r \in Backtests |-> IF Interrupted(r) THEN [runs[r] EXCEPT !.status = "FAILED"] ELSE runs[r]]
  /\ jobs' = [jobs EXCEPT ![p] = (@ \ {<<"recovery", generation>>}) \cup {<<"recovered", generation>>}]
  /\ UNCHANGED <<phase, lease, work, active, research, faults>>

\* The trading loops start when it succeeds, if the lease it ran under still stands.
RecoveryEnds(p, generation) ==
  /\ <<"recovered", generation>> \in jobs[p]
  /\ jobs' = [jobs EXCEPT ![p] = @ \ {<<"recovered", generation>>}]
  /\ work' = [work EXCEPT ![p] = IF generation = "new" THEN "trading" ELSE @]
  /\ UNCHANGED <<phase, lease, backtest, research, faults>>

\* A step of it throws: it is tried again later.
RecoveryThrows(p, generation) ==
  /\ <<"recovered", generation>> \in jobs[p]
  /\ Fault
  /\ jobs' = [jobs EXCEPT ![p] = @ \ {<<"recovered", generation>>}]
  /\ UNCHANGED <<phase, lease, work, backtest, research>>

\* The monitor and the collector run from the start, the others from the end of recovery.
LoopRuns(p) ==
  /\ work[p] # "none" /\ <<"loop", "new">> \notin jobs[p]
  /\ Begun(p, "loop")
  /\ UNCHANGED <<phase, lease, work, backtest, research, faults>>

LoopReturns(p, generation) ==
  /\ <<"loop", generation>> \in jobs[p]
  /\ jobs' = [jobs EXCEPT ![p] = @ \ {<<"loop", generation>>}]
  /\ UNCHANGED <<phase, lease, work, backtest, research, faults>>

\* A call of the loops begins what track does not know of: the engine the submission of a live bet,
\* the monitor the backfill of rounds it missed.
Detach(p, generation) ==
  /\ <<"loop", generation>> \in jobs[p] /\ Cardinality(Unawaited) < MaxDetached
  /\ jobs' = [jobs EXCEPT ![p] = @ \cup {<<"detached", generation>>}]
  /\ UNCHANGED <<phase, lease, work, backtest, research, faults>>

DetachedEnds(p, generation) ==
  /\ <<"detached", generation>> \in jobs[p]
  /\ jobs' = [jobs EXCEPT ![p] = @ \ {<<"detached", generation>>}]
  /\ UNCHANGED <<phase, lease, work, backtest, research, faults>>

-----------------------------------------------------------------------------
\* Start, shutdown and death of a process.

\* A running study belonged to a process that stopped, or so it is taken.
failInterrupted(all) ==
  [x \in Experiments |-> IF all[x].status = "RUNNING" THEN [all[x] EXCEPT !.status = "FAILED"] ELSE all[x]]

\* createApp fails every experiment marked running, this process's or another's.
Boot(p) ==
  /\ phase[p] = "DOWN"
  /\ phase' = [phase EXCEPT ![p] = "UP"]
  /\ loop' = [loop EXCEPT ![p] = IF p \in Servers THEN "look" ELSE "ended"]
  /\ studies' = failInterrupted(studies)
  /\ UNCHANGED <<session, leased, work, jobs, dropped, backtest, studied, faults>>

\* A signal: the worker is stopped first.
Stop(p) ==
  /\ phase[p] = "UP"
  /\ Fault
  /\ phase' = [phase EXCEPT ![p] = "drain"]
  /\ StopWork(p)
  /\ UNCHANGED <<lease, backtest, research>>

StopDrained(p) ==
  /\ phase[p] = "drain" /\ Drained(p)
  /\ phase' = [phase EXCEPT ![p] = IF leased[p] THEN "release" ELSE "close"]
  /\ leased' = [leased EXCEPT ![p] = FALSE]
  /\ UNCHANGED <<session, loop, work, jobs, dropped, backtest, research, faults>>

Release(p) ==
  /\ phase[p] = "release"
  /\ session' = FreedBy(p)
  /\ phase' = [phase EXCEPT ![p] = "close"]
  /\ UNCHANGED <<leased, loop, work, jobs, dropped, backtest, research, faults>>

Gone(p) ==
  /\ phase' = [phase EXCEPT ![p] = "DOWN"]
  /\ leased' = [leased EXCEPT ![p] = FALSE]
  /\ loop' = [loop EXCEPT ![p] = "ended"]
  /\ work' = [work EXCEPT ![p] = "none"]
  /\ jobs' = [jobs EXCEPT ![p] = {}]
  /\ active' = [active EXCEPT ![p] = "none"]
  /\ studied' = [studied EXCEPT ![p] = "none"]
  /\ UNCHANGED <<dropped, studies>>

\* The run under way is aborted, and the experiments are waited for, before the database is closed
\* and the process ends, whatever nobody awaits.
Exit(p) ==
  /\ phase[p] = "close" /\ active[p] = "none" /\ studied[p] = "none"
  /\ Gone(p)
  /\ session' = FreedBy(p)
  /\ UNCHANGED <<runs, faults>>

\* The process is killed, or its host dies and its session stays until it times out.
Crash(p) ==
  /\ phase[p] # "DOWN"
  /\ Fault
  /\ Gone(p)
  /\ session' \in IF session = p THEN {"none", "ghost"} ELSE {session}
  /\ UNCHANGED runs

GhostTimesOut ==
  /\ session = "ghost"
  /\ session' = "none"
  /\ UNCHANGED <<phase, leased, loop, work, jobs, dropped, backtest, research, faults>>

\* The lease connection fails: Postgres frees the lock at once.
ConnectionDrops(p) ==
  /\ session = p
  /\ Fault
  /\ session' = "none"
  /\ dropped' = [dropped EXCEPT ![p] = TRUE]
  /\ UNCHANGED <<phase, leased, loop, work, jobs, backtest, research>>

-----------------------------------------------------------------------------
\* Backtests: one at a time in a process, chunk by chunk between which it yields.

\* start and launch: `starting` keeps a second request out until the row is there.
StartRun(p, r) ==
  /\ phase[p] = "UP" /\ active[p] = "none"
  /\ runs[r].status = "NONE"
  /\ runs' = [runs EXCEPT ![r] = [status |-> "RUNNING", age |-> 0]]
  /\ active' = [active EXCEPT ![p] = r]
  /\ UNCHANGED <<phase, lease, work, jobs, research, faults>>

\* A chunk is done; progress is also the heartbeat.
Progress(p) ==
  /\ active[p] # "none" /\ phase[p] # "close"
  /\ runs[active[p]].age # 0
  /\ runs' = [runs EXCEPT ![active[p]].age = 0]
  /\ UNCHANGED <<phase, lease, work, jobs, active, research, faults>>

\* The row is written whatever it says by now: finished, or failed in a step or by the shutdown.
EndRun(p) ==
  /\ active[p] # "none"
  /\ \E status \in {"DONE", "FAILED"} :
       /\ status = "DONE" => phase[p] # "close"
       /\ runs' = [runs EXCEPT ![active[p]].status = status]
  /\ active' = [active EXCEPT ![p] = "none"]
  /\ UNCHANGED <<phase, lease, work, jobs, research, faults>>

\* Half the stale time passes: no run that is being computed goes so long without a heartbeat.
Tick ==
  /\ \A p \in Processes : active[p] # "none" => runs[active[p]].age = 0
  /\ \E r \in Backtests : runs[r].status = "RUNNING" /\ runs[r].age < 2
  /\ runs' = [r \in Backtests |-> [runs[r] EXCEPT !.age = IF @ < 2 THEN @ + 1 ELSE @]]
  /\ UNCHANGED <<phase, lease, work, jobs, active, research, faults>>

-----------------------------------------------------------------------------
\* Experiments: one at a time in a process, each run once.

WheneverAsked(x) == studies[x].status # "RUNNING"     \* fault: an experiment can be run again
Runnable(x) == studies[x].status = "REGISTERED"

\* markRunning: an UPDATE that only one of two processes can win.
StartStudy(p, x) ==
  /\ phase[p] = "UP" /\ studied[p] = "none"
  /\ Runnable(x)
  /\ studies' = [studies EXCEPT ![x].status = "RUNNING"]
  /\ studied' = [studied EXCEPT ![p] = x]
  /\ UNCHANGED <<phase, lease, work, jobs, backtest, faults>>

\* finish: the hypotheses and the result in one transaction, the result only in a row still running.
FinishStudy(p) ==
  /\ studied[p] # "none"
  /\ studies' = [studies EXCEPT ![studied[p]] =
                   [status |-> IF @.status = "RUNNING" THEN "DONE" ELSE @.status, tested |-> @.tested + 1]]
  /\ studied' = [studied EXCEPT ![p] = "none"]
  /\ UNCHANGED <<phase, lease, work, jobs, backtest, faults>>

FailStudy(p) ==
  /\ studied[p] # "none"
  /\ studies' = [studies EXCEPT ![studied[p]].status = IF @ \in {"REGISTERED", "RUNNING"} THEN "FAILED" ELSE @]
  /\ studied' = [studied EXCEPT ![p] = "none"]
  /\ UNCHANGED <<phase, lease, work, jobs, backtest, faults>>

-----------------------------------------------------------------------------

ProcessesInit ==
  /\ phase = [p \in Processes |-> "DOWN"]
  /\ session = "none"
  /\ leased = [p \in Processes |-> FALSE]
  /\ loop = [p \in Processes |-> "ended"]
  /\ work = [p \in Processes |-> "none"]
  /\ jobs = [p \in Processes |-> {}]
  /\ dropped = [p \in Processes |-> FALSE]
  /\ runs = [r \in Backtests |-> [status |-> "NONE", age |-> 0]]
  /\ active = [p \in Processes |-> "none"]
  /\ studies = [x \in Experiments |-> [status |-> "REGISTERED", tested |-> 0]]
  /\ studied = [p \in Processes |-> "none"]
  /\ faults = 0

Leasing(p) == Acquire(p) \/ Granted(p) \/ CheckFails(p) \/ Lost(p) \/ LoopDrained(p) \/ LoopEnds(p)

JobEnds(p) ==
  \E generation \in {"new", "old"} :
    RecoverBacktests(p, generation) \/ RecoveryEnds(p, generation) \/ LoopReturns(p, generation)

Leaving(p) ==
  \E generation \in {"new", "old"} : Detach(p, generation) \/ DetachedEnds(p, generation)

Closing(p) == StopDrained(p) \/ Release(p) \/ Exit(p)

Failing(p) ==
  \/ Stop(p) \/ Crash(p) \/ ConnectionDrops(p) \/ CheckTimesOut(p)
  \/ \E generation \in {"new", "old"} : RecoveryThrows(p, generation)

Running(p) == Progress(p) \/ EndRun(p) \/ \E r \in Backtests : StartRun(p, r)

Studying(p) == FinishStudy(p) \/ FailStudy(p) \/ \E x \in Experiments : StartStudy(p, x)

ProcessesNext ==
  \/ \E p \in Processes : \/ Leasing(p) \/ JobEnds(p) \/ Closing(p) \/ Failing(p) \/ Running(p) \/ Studying(p)
                          \/ Leaving(p) \/ StartRecovery(p) \/ LoopRuns(p) \/ Boot(p)
  \/ GhostTimesOut \/ Tick

ProcessesSpec == ProcessesInit /\ [][ProcessesNext]_processVars

\* A process that is up is scheduled: its lease loop, timers and shutdown proceed, calls return (they
\* time out), a run's process goes on with it.  Nobody has to start a process or a backtest.
FairSpec ==
  /\ ProcessesSpec
  /\ \A p \in Processes :
       /\ WF_processVars(Leasing(p)) /\ WF_processVars(StartRecovery(p)) /\ WF_processVars(Closing(p))
       /\ WF_processVars(EndRun(p)) /\ WF_processVars(FinishStudy(p) \/ FailStudy(p))
       /\ \A generation \in {"new", "old"} :
            /\ WF_processVars(RecoverBacktests(p, generation))
            /\ WF_processVars(RecoveryEnds(p, generation))
            /\ WF_processVars(LoopReturns(p, generation))
  /\ WF_processVars(GhostTimesOut)

-----------------------------------------------------------------------------
\* Properties.

\* "At most one active worker per database" (database.ts), as far as the worker sees to it: the calls of
\* a process's loops are under the lock until they have returned, and so is all they begin when they
\* begin it, unless the connection failed, which the process cannot know before it looks; and none runs
\* beside work under a later lease.  Not so what nobody awaits: a submission (engine.ts) begun under a
\* lease may sign and broadcast its bet after the lock was given back, beside another process's work or
\* its own process's under a new lease.  What then holds is in LiveExecution: one bet a round, by uid.
WorkUnderLease ==
  \A p \in Processes :
    /\ Awaited(p) # {} \/ <<"detached", "new">> \in jobs[p] => session = p \/ dropped[p]
    /\ work[p] # "none" => \A j \in Awaited(p) : j[2] = "new"

\* A recovery never fails a backtest another process is still computing (misc.ts:516-519).
LiveRunsKept ==
  \A p \in Processes : active[p] # "none" => runs[active[p]].status = "RUNNING"

\* An experiment's hypotheses enter the ledger at most once, however many processes are asked to run
\* it, and a result is never without them (services/research.ts: every test ever made is counted).
TestedOnce ==
  \A x \in Experiments : /\ studies[x].tested <= 1
                         /\ studies[x].status = "DONE" => studies[x].tested = 1

SomeUp == \E p \in Servers : phase[p] = "UP"
SomeTrading == \E p \in Servers : work[p] = "trading"

\* Through lost connections, crashes, shutdowns and dead hosts, a server that stays up does not stand
\* by for ever: some process comes to trade.
SomeoneWorks == SomeUp ~> (SomeTrading \/ ~SomeUp)
=============================================================================
