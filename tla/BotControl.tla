----------------------------- MODULE BotControl -----------------------------
(***************************************************************************)
(* The bot's persisted control state (services/bot.ts over BotStateRepo of *)
(* repositories/misc.ts) and the arming rule of restart recovery           *)
(* (services/recovery.ts).                                                 *)
(*                                                                         *)
(* BotStateRepo.update reads the row, awaits, and writes every column      *)
(* back, so each update is two steps here, and calls of the dashboard, of  *)
(* the execution outcomes and of recovery interleave between them.         *)
(***************************************************************************)
EXTENDS Naturals, Sequences

CONSTANTS
  Callers,       \* bound: how many API requests and execution outcomes run at once
  Recovery,      \* the task that runs startup recovery
  OpsOf,         \* OpsOf[c]: the operations caller c asks for
  MaxFailures,   \* MAX_EXECUTION_FAILURES
  AutoResume,    \* BOT_AUTO_RESUME_LIVE
  FailureCap     \* bound: the counter stays there once it is reached

AllOps == {"start", "stop", "pause", "resume", "emergencyStop", "resetEmergency",
           "armLive", "disarmLive", "recordFailure", "recordSuccess"}

ASSUME OpsAssumption == OpsOf \in [Callers -> SUBSET AllOps]
ASSUME RecoveryAssumption == Recovery \notin Callers
ASSUME FailuresAssumption ==
  MaxFailures \in Nat \ {0} /\ FailureCap \in Nat /\ MaxFailures <= FailureCap /\ AutoResume \in BOOLEAN

Tasks == Callers \cup {Recovery}

VARIABLES
  row,       \* bot_state: status, armed (live_armed), failures (consecutive_failures)
  phase,     \* the in-memory phase, "DOWN" while no process runs
  todo,      \* todo[t]: the steps task t still has to take
  read,      \* read[t]: the row the update in progress has read, or NoRow
  count,     \* count[t]: the failure count recordFailure computed
  \* history, to state the properties
  stopped,   \* an emergency stop took effect and nobody asked to reset it since
  fresh,     \* the busy tasks that started after that
  lost,      \* since the last restart an update wrote over a change made after it read the row
  confirmed, \* since the last restart live trading was armed
  undone     \* no arming since the last restart, but an update that had read the row armed
             \* wrote it back over a disarming

codeVars == <<row, phase, todo, read, count>>
history  == <<stopped, fresh, confirmed, undone, lost>>
vars     == <<codeVars, history>>

Statuses == {"STOPPED", "RUNNING", "PAUSED", "EMERGENCY_STOPPED"}
Rows == [status : Statuses, armed : BOOLEAN, failures : 0 .. FailureCap]
NoRow == [status |-> "unread", armed |-> FALSE, failures |-> 0]

Checks == {"canStart", "notEmergency", "isRunning", "isPaused", "isEmergency",
           "isArmed", "hasFailures"}
Updates == {"run", "pause", "halt", "release", "emergency", "disarm", "arm", "clear", "count"}
Others == {"tally", "review", "ready"}

TypeOK ==
  /\ row \in Rows
  /\ phase \in {"DOWN", "RECOVERING", "READY"}
  /\ todo \in [Tasks -> Seq(Checks \cup Updates \cup Others)]
  /\ read \in [Tasks -> Rows \cup {NoRow}]
  /\ count \in [Tasks -> 0 .. FailureCap]
  /\ stopped \in BOOLEAN /\ confirmed \in BOOLEAN /\ undone \in BOOLEAN /\ lost \in BOOLEAN
  /\ fresh \in SUBSET Tasks

-----------------------------------------------------------------------------
\* The operations, as the reads and updates they await.

ScriptOf ==
  [start          |-> <<"canStart", "run">>,
   stop           |-> <<"notEmergency", "disarm", "halt">>,
   pause          |-> <<"isRunning", "pause">>,
   resume         |-> <<"isPaused", "run">>,
   emergencyStop  |-> <<"disarm", "emergency">>,
   resetEmergency |-> <<"isEmergency", "clear", "release">>,
   armLive        |-> <<"notEmergency", "arm">>,
   disarmLive     |-> <<"isArmed", "disarm">>,
   recordFailure  |-> <<"tally">>,
   recordSuccess  |-> <<"hasFailures", "clear">>]

\* fault: the breaker trips one failure late
TripsLate(n) ==
  IF n > MaxFailures THEN <<"count", "disarm", "isRunning", "pause">> ELSE <<"count">>

\* What recordFailure does once it has counted n failures.
AfterTally(n) ==
  IF n >= MaxFailures THEN <<"count", "disarm", "isRunning", "pause">> ELSE <<"count">>

\* fault: start and arming look only at whether the bot runs already
EmergencyIgnored(check, r) ==
  CASE check \in {"canStart", "notEmergency"} -> r.status # "RUNNING"
    [] check = "isRunning"    -> r.status = "RUNNING"
    [] check = "isPaused"     -> r.status = "PAUSED"
    [] check = "isEmergency"  -> r.status = "EMERGENCY_STOPPED"
    [] check = "isArmed"      -> r.armed
    [] check = "hasFailures"  -> r.failures > 0

\* The condition a call goes on under; otherwise it returns or throws.
Holds(check, r) ==
  CASE check = "canStart"     -> r.status \notin {"EMERGENCY_STOPPED", "RUNNING"}
    [] check = "notEmergency" -> r.status # "EMERGENCY_STOPPED"
    [] check = "isRunning"    -> r.status = "RUNNING"
    [] check = "isPaused"     -> r.status = "PAUSED"
    [] check = "isEmergency"  -> r.status = "EMERGENCY_STOPPED"
    [] check = "isArmed"      -> r.armed
    [] check = "hasFailures"  -> r.failures > 0

\* The row an update writes, given the row it read and the tally of its task.
Patched(update, r, n) ==
  CASE update = "run"       -> [r EXCEPT !.status = "RUNNING"]
    [] update = "pause"     -> [r EXCEPT !.status = "PAUSED"]
    [] update \in {"halt", "release"} -> [r EXCEPT !.status = "STOPPED"]
    [] update = "emergency" -> [r EXCEPT !.status = "EMERGENCY_STOPPED"]
    [] update = "disarm"    -> [r EXCEPT !.armed = FALSE]
    [] update = "arm"       -> [r EXCEPT !.armed = TRUE, !.failures = 0]
    [] update = "clear"     -> [r EXCEPT !.failures = 0]
    [] update = "count"     -> [r EXCEPT !.failures = n]

-----------------------------------------------------------------------------

Idle(t) == todo[t] = <<>>
At(t, steps) == ~Idle(t) /\ Head(todo[t]) \in steps
Done(t) == todo' = [todo EXCEPT ![t] = Tail(@)]

Finished == {t \in Tasks : todo'[t] = <<>>}

Init ==
  /\ row = [status |-> "STOPPED", armed |-> FALSE, failures |-> 0]
  /\ phase = "DOWN"
  /\ todo = [t \in Tasks |-> <<>>]
  /\ read = [t \in Tasks |-> NoRow]
  /\ count = [t \in Tasks |-> 0]
  /\ stopped = FALSE /\ fresh = {} /\ confirmed = FALSE /\ undone = FALSE /\ lost = FALSE

\* A request or an execution outcome starts an operation.
Begin(t, op) ==
  /\ phase # "DOWN"
  /\ Idle(t)
  /\ todo' = [todo EXCEPT ![t] = ScriptOf[op]]
  /\ stopped' = (stopped /\ op # "resetEmergency")
  /\ fresh' = IF stopped THEN fresh \cup {t} ELSE fresh
  /\ UNCHANGED <<row, phase, read, count, confirmed, undone, lost>>

Check(t) ==
  /\ At(t, Checks)
  /\ IF Holds(Head(todo[t]), row) THEN Done(t) ELSE todo' = [todo EXCEPT ![t] = <<>>]
  /\ fresh' = fresh \ Finished
  /\ UNCHANGED <<row, phase, read, count, stopped, confirmed, undone, lost>>

OneMore(n) == IF n < FailureCap THEN n + 1 ELSE FailureCap

\* recordFailure computes the new count from a read of its own.
Tally(t) ==
  /\ At(t, {"tally"})
  /\ count' = [count EXCEPT ![t] = OneMore(row.failures)]
  /\ todo' = [todo EXCEPT ![t] = AfterTally(OneMore(row.failures))]
  /\ UNCHANGED <<row, phase, read, history>>

\* update: SELECT the row ...
UpdateRead(t) ==
  /\ At(t, Updates)
  /\ read[t] = NoRow
  /\ read' = [read EXCEPT ![t] = row]
  /\ UNCHANGED <<row, phase, todo, count, history>>

\* ... and write all of its columns.
UpdateWrite(t) ==
  /\ At(t, Updates)
  /\ read[t] # NoRow
  /\ row' = Patched(Head(todo[t]), read[t], count[t])
  /\ read' = [read EXCEPT ![t] = NoRow]
  /\ Done(t)
  /\ stopped' = (row'.status = "EMERGENCY_STOPPED" /\ (stopped \/ Head(todo[t]) = "emergency"))
  /\ fresh' = IF Head(todo[t]) = "emergency" THEN {} ELSE fresh \ Finished
  /\ lost' = (lost \/ read[t] # row)
  /\ confirmed' = (confirmed \/ Head(todo[t]) = "arm")
  /\ undone' = (~confirmed' /\ (undone \/ (row'.armed /\ ~row.armed)))
  /\ count' = [count EXCEPT ![t] = 0]
  /\ UNCHANGED <<phase>>

-----------------------------------------------------------------------------
\* The process.

Boot ==
  /\ phase = "DOWN"
  /\ phase' = "RECOVERING"
  /\ todo' = [todo EXCEPT ![Recovery] = <<"review">>]
  /\ confirmed' = FALSE /\ undone' = FALSE /\ lost' = FALSE
  /\ fresh' = IF stopped THEN fresh \cup {Recovery} ELSE fresh
  /\ UNCHANGED <<row, read, count, stopped>>

StaysArmed == FALSE    \* fault: a restart leaves live trading armed
DisarmOnRestart == row.armed /\ ~AutoResume

\* The end of recovery: live trading is disarmed, then the phase becomes READY.
Review ==
  /\ At(Recovery, {"review"})
  /\ todo' = [todo EXCEPT ![Recovery] =
                IF DisarmOnRestart THEN <<"disarm", "ready">> ELSE <<"ready">>]
  /\ UNCHANGED <<row, phase, read, count, history>>

Ready ==
  /\ At(Recovery, {"ready"})
  /\ phase' = "READY"
  /\ Done(Recovery)
  /\ fresh' = fresh \ Finished
  /\ UNCHANGED <<row, read, count, stopped, confirmed, undone, lost>>

Crash ==
  /\ phase # "DOWN"
  /\ phase' = "DOWN"
  /\ todo' = [t \in Tasks |-> <<>>]
  /\ read' = [t \in Tasks |-> NoRow]
  /\ count' = [t \in Tasks |-> 0]
  /\ fresh' = {}
  /\ UNCHANGED <<row, stopped, confirmed, undone, lost>>

Next ==
  \/ \E t \in Callers : \E op \in OpsOf[t] : Begin(t, op)
  \/ \E t \in Tasks : Check(t) \/ Tally(t) \/ UpdateRead(t) \/ UpdateWrite(t)
  \/ Boot \/ Review \/ Ready \/ Crash

Spec == Init /\ [][Next]_vars

-----------------------------------------------------------------------------
\* Properties.

Resetting == \E t \in Tasks : \E i \in DOMAIN todo[t] : todo[t][i] = "release"
Busy == {t \in Tasks : ~Idle(t)}

\* The engine lets a live bet through (LIVE_ARMED and the other gates of engine.ts).
GateOpen ==
  /\ phase = "READY" /\ row.status = "RUNNING" /\ row.armed
  /\ row.failures < MaxFailures

\* Once the calls that were under way when the emergency stop took effect are over, no
\* sequence of later calls, restarts or execution outcomes ends it: only a reset does.
StopHoldsOnceQuiet ==
  [][stopped /\ Busy \subseteq fresh =>
       row'.status = "EMERGENCY_STOPPED" \/ Resetting]_vars

\* What the documentation says: an emergency stop blocks new executions immediately, and
\* is left by an explicit reset only.
EmergencyStopHolds ==
  [][stopped => row'.status = "EMERGENCY_STOPPED" \/ Resetting]_vars

\* Live bets pass the gate only after an arming since the last restart, wherever the
\* process died, or after an update that overlapped a disarming put the arming it had read
\* back.  The second case is real: a start or resume of the dashboard that read the row
\* before recovery disarmed it writes live_armed back (BotStateRepo.update), although
\* recovery.ts says that live trading needs a fresh confirmation after every restart.
LiveNeedsConfirmation == GateOpen /\ ~AutoResume => confirmed \/ undone

\* After too many consecutive failures live trading is disarmed, once the calls that
\* count them are done and whichever of them died half way.  Updates that overlap can
\* write the old row back, the disarming with it: the claim is about the time before one
\* did.
BreakerDisarms ==
  /\ phase = "READY" /\ ~AutoResume /\ ~lost
  /\ row.failures >= MaxFailures
  /\ \A t \in Tasks : \A i \in DOMAIN todo[t] : todo[t][i] # "disarm"
  => ~row.armed
=============================================================================
