-------------------------- MODULE BotControl_proofs --------------------------
(***************************************************************************)
(* What BotControl guarantees for any number of callers that ask for any   *)
(* operation at any moment, and crashes anywhere.                          *)
(***************************************************************************)
EXTENDS BotControl, TLAPS

-----------------------------------------------------------------------------
\* What a task may still have to do: a script, or the end of one.  The fresh plans are those
\* that a call begun under an emergency stop can be left with: its checks fail.

FreshPlans ==
  {<<>>,
   <<"canStart", "run">>,
   <<"notEmergency", "disarm", "halt">>,
   <<"isRunning", "pause">>,
   <<"isPaused", "run">>,
   <<"disarm", "emergency">>, <<"emergency">>,
   <<"notEmergency", "arm">>,
   <<"isArmed", "disarm">>, <<"disarm">>,
   <<"tally">>, <<"count">>,
   <<"count", "disarm", "isRunning", "pause">>, <<"disarm", "isRunning", "pause">>,
   <<"hasFailures", "clear">>, <<"clear">>,
   <<"review">>, <<"disarm", "ready">>, <<"ready">>}

Plans ==
  FreshPlans \cup
  {<<"run">>, <<"disarm", "halt">>, <<"halt">>, <<"pause">>, <<"arm">>,
   <<"isEmergency", "clear", "release">>, <<"clear", "release">>, <<"release">>}

\* Those of startup recovery.
RecoveryPlans == {<<>>, <<"review">>, <<"disarm", "ready">>, <<"ready">>}

\* The two ends of a short sequence,
LEMMA Ends ==
  /\ \A a : Head(<<a>>) = a /\ Tail(<<a>>) = <<>>
  /\ \A a, b : Head(<<a, b>>) = a /\ Tail(<<a, b>>) = <<b>>
  /\ \A a, b, c : Head(<<a, b, c>>) = a /\ Tail(<<a, b, c>>) = <<b, c>>
  /\ \A a, b, c, d : Head(<<a, b, c, d>>) = a /\ Tail(<<a, b, c, d>>) = <<b, c, d>>
<1>1. \A a : Head(<<a>>) = a /\ Tail(<<a>>) = <<>>
  OBVIOUS
<1>2. \A a, b : Head(<<a, b>>) = a /\ Tail(<<a, b>>) = <<b>>
  OBVIOUS
<1>3. \A a, b, c : Head(<<a, b, c>>) = a /\ Tail(<<a, b, c>>) = <<b, c>>
  OBVIOUS
<1>4. \A a, b, c, d : Head(<<a, b, c, d>>) = a /\ Tail(<<a, b, c, d>>) = <<b, c, d>>
  OBVIOUS
<1>. QED  BY <1>1, <1>2, <1>3, <1>4

\* Every operation starts with a plan.
LEMMA ScriptPlans ==
  ASSUME NEW op \in AllOps
  PROVE  /\ ScriptOf[op] \in Plans /\ ScriptOf[op] # <<>>
         /\ op # "resetEmergency" => ScriptOf[op] \in FreshPlans
         /\ ScriptOf[op] # <<"count">>
BY DEF AllOps, ScriptOf, Plans, FreshPlans

\* and so of each plan.
LEMMA Parts ==
  /\ Head(<<"canStart", "run">>) = "canStart"
  /\ Tail(<<"canStart", "run">>) = <<"run">>
  /\ Head(<<"notEmergency", "disarm", "halt">>) = "notEmergency"
  /\ Tail(<<"notEmergency", "disarm", "halt">>) = <<"disarm", "halt">>
  /\ Head(<<"isRunning", "pause">>) = "isRunning"
  /\ Tail(<<"isRunning", "pause">>) = <<"pause">>
  /\ Head(<<"isPaused", "run">>) = "isPaused"
  /\ Tail(<<"isPaused", "run">>) = <<"run">>
  /\ Head(<<"disarm", "emergency">>) = "disarm"
  /\ Tail(<<"disarm", "emergency">>) = <<"emergency">>
  /\ Head(<<"emergency">>) = "emergency"
  /\ Tail(<<"emergency">>) = <<>>
  /\ Head(<<"notEmergency", "arm">>) = "notEmergency"
  /\ Tail(<<"notEmergency", "arm">>) = <<"arm">>
  /\ Head(<<"isArmed", "disarm">>) = "isArmed"
  /\ Tail(<<"isArmed", "disarm">>) = <<"disarm">>
  /\ Head(<<"disarm">>) = "disarm"
  /\ Tail(<<"disarm">>) = <<>>
  /\ Head(<<"tally">>) = "tally"
  /\ Tail(<<"tally">>) = <<>>
  /\ Head(<<"count">>) = "count"
  /\ Tail(<<"count">>) = <<>>
  /\ Head(<<"count", "disarm", "isRunning", "pause">>) = "count"
  /\ Tail(<<"count", "disarm", "isRunning", "pause">>) = <<"disarm", "isRunning", "pause">>
  /\ Head(<<"disarm", "isRunning", "pause">>) = "disarm"
  /\ Tail(<<"disarm", "isRunning", "pause">>) = <<"isRunning", "pause">>
  /\ Head(<<"hasFailures", "clear">>) = "hasFailures"
  /\ Tail(<<"hasFailures", "clear">>) = <<"clear">>
  /\ Head(<<"clear">>) = "clear"
  /\ Tail(<<"clear">>) = <<>>
  /\ Head(<<"review">>) = "review"
  /\ Tail(<<"review">>) = <<>>
  /\ Head(<<"disarm", "ready">>) = "disarm"
  /\ Tail(<<"disarm", "ready">>) = <<"ready">>
  /\ Head(<<"ready">>) = "ready"
  /\ Tail(<<"ready">>) = <<>>
  /\ Head(<<"run">>) = "run"
  /\ Tail(<<"run">>) = <<>>
  /\ Head(<<"disarm", "halt">>) = "disarm"
  /\ Tail(<<"disarm", "halt">>) = <<"halt">>
  /\ Head(<<"halt">>) = "halt"
  /\ Tail(<<"halt">>) = <<>>
  /\ Head(<<"pause">>) = "pause"
  /\ Tail(<<"pause">>) = <<>>
  /\ Head(<<"arm">>) = "arm"
  /\ Tail(<<"arm">>) = <<>>
  /\ Head(<<"isEmergency", "clear", "release">>) = "isEmergency"
  /\ Tail(<<"isEmergency", "clear", "release">>) = <<"clear", "release">>
  /\ Head(<<"clear", "release">>) = "clear"
  /\ Tail(<<"clear", "release">>) = <<"release">>
  /\ Head(<<"release">>) = "release"
  /\ Tail(<<"release">>) = <<>>
BY Ends

\* One step later a plan is left,
LEMMA TailPlans ==
  ASSUME NEW p \in Plans, p # <<>>
  PROVE  Tail(p) \in Plans
BY Parts, Zenon DEF Plans, FreshPlans

\* never a lone `count`, which only a tally below the limit makes;
LEMMA NoLoneCount ==
  ASSUME NEW p \in Plans, p # <<>>, Tail(p) = <<"count">>
  PROVE  FALSE
<1>. DEFINE Rests == {<<>>, <<"run">>, <<"disarm", "halt">>, <<"halt">>, <<"pause">>,
                      <<"emergency">>, <<"arm">>, <<"disarm">>, <<"disarm", "isRunning", "pause">>,
                      <<"isRunning", "pause">>, <<"clear">>, <<"ready">>, <<"clear", "release">>,
                      <<"release">>}
<1>1. Tail(p) \in Rests
  BY Parts, Zenon DEF Plans, FreshPlans
<1>2. <<"count">> \notin Rests
  OBVIOUS
<1>. QED  BY <1>1, <1>2

\* of a fresh plan a fresh one, unless a check holds that fails under an emergency stop,
LEMMA FreshTail ==
  ASSUME NEW p \in FreshPlans, p # <<>>
  PROVE  \/ Tail(p) \in FreshPlans
         \/ Head(p) \in {"canStart", "notEmergency", "isRunning", "isPaused"}
BY Parts, Zenon DEF FreshPlans

\* and its updates leave the status or stop.
LEMMA FreshUpdates ==
  ASSUME NEW p \in FreshPlans, p # <<>>, Head(p) \in Updates
  PROVE  Head(p) \in {"emergency", "disarm", "count", "clear"}
BY Ends DEF FreshPlans, Updates

\* Plans are sequences of steps.
LEMMA PlanType == Plans \subseteq Seq(Checks \cup Updates \cup Others)
BY DEF Plans, FreshPlans, Checks, Updates, Others

\* Recovery reviews, disarms and gets ready, in this order.
LEMMA RecoveryTail ==
  ASSUME NEW p \in RecoveryPlans, p # <<>>
  PROVE  /\ Tail(p) \in RecoveryPlans
         /\ Head(p) \in {"review", "disarm", "ready"}
         /\ Head(p) = "ready" => Tail(p) = <<>>
         /\ p = <<"review">> \/ p = <<"disarm", "ready">> \/ p = <<"ready">>
<1>1. Tail(p) \in RecoveryPlans
  BY Parts, Zenon DEF RecoveryPlans
<1>2. Head(p) \in {"review", "disarm", "ready"}
  BY Ends DEF RecoveryPlans
<1>3. p = <<"disarm", "ready">> \/ Tail(p) = <<>>
  BY Parts, Zenon DEF RecoveryPlans
<1>4. Head(<<"disarm", "ready">>) # "ready"
  BY Ends
<1>. QED  BY <1>1, <1>2, <1>3, <1>4 DEF RecoveryPlans

-----------------------------------------------------------------------------

\* Plans, what was read and what was counted fit together and fit the phase.
Planned ==
  /\ \A t \in Tasks : todo[t] \in Plans
  /\ \A t \in Tasks : read[t] # NoRow => At(t, Updates)
  /\ \A t \in Tasks : todo[t] = <<"count">> => count[t] < MaxFailures
  /\ todo[Recovery] \in RecoveryPlans
  /\ phase = "READY" => todo[Recovery] = <<>>
  /\ phase = "DOWN" => \A t \in Tasks : todo[t] = <<>>

\* Recovery has yet to look at the row.
ToReview == phase = "DOWN" \/ todo[Recovery] = <<"review">>

\* An armed row that nobody confirmed, and that no update wrote back over a disarming, is one
\* recovery will still disarm.
Unconfirmed ==
  row.armed /\ ~AutoResume /\ ~confirmed /\ ~undone =>
    ToReview \/ todo[Recovery] = <<"disarm", "ready">>

\* An armed row with too many failures is one that a task, or recovery, is about to disarm.
Tripped ==
  row.armed /\ row.failures >= MaxFailures /\ ~AutoResume /\ ~lost =>
    ToReview \/ \E t \in Tasks : At(t, {"disarm"})

\* Under an emergency stop the calls begun since have seen nothing else.
Held ==
  stopped =>
    /\ row.status = "EMERGENCY_STOPPED"
    /\ \A t \in fresh : /\ todo[t] \in FreshPlans
                        /\ read[t] # NoRow => read[t].status = "EMERGENCY_STOPPED"

\* The inductive invariant.
Inv == TypeOK /\ Planned /\ Unconfirmed /\ Tripped /\ Held

\* What an update writes: it arms only if it is the arming, it disarms if it is the disarming,
\* it brings failures only by counting them, and it changes the status only by name.
LEMMA PatchedType ==
  ASSUME NEW r \in Rows, NEW n \in 0 .. FailureCap, NEW u \in Updates
  PROVE  /\ Patched(u, r, n) \in Rows
         /\ Patched(u, r, n).armed => r.armed \/ u = "arm"
         /\ u = "disarm" => ~Patched(u, r, n).armed
         /\ Patched(u, r, n).failures >= MaxFailures =>
              IF u = "count" THEN n >= MaxFailures ELSE u # "arm" /\ r.failures >= MaxFailures
         /\ u \in {"disarm", "count", "clear", "arm"} => Patched(u, r, n).status = r.status
         /\ u = "emergency" => Patched(u, r, n).status = "EMERGENCY_STOPPED"
<1>1. CASE u \in {"run", "pause", "halt", "release", "emergency"}
  <2>1. PICK st \in Statuses : /\ Patched(u, r, n) = [r EXCEPT !.status = st]
                               /\ u = "emergency" => st = "EMERGENCY_STOPPED"
    BY <1>1 DEF Patched, Statuses
  <2>. QED  BY <1>1, <2>1 DEF Rows
<1>2. CASE u \in {"disarm", "arm", "clear", "count"}
  <2>1. CASE u = "disarm"
    BY <2>1 DEF Patched, Rows
  <2>2. CASE u = "arm"
    <3>1. Patched(u, r, n) = [r EXCEPT !.armed = TRUE, !.failures = 0]
      BY <2>2 DEF Patched
    <3>2. 0 \in 0 .. FailureCap /\ ~(0 >= MaxFailures)
      BY FailuresAssumption
    <3>. QED  BY <2>2, <3>1, <3>2 DEF Rows
  <2>3. CASE u = "clear"
    BY <2>3, FailuresAssumption DEF Patched, Rows
  <2>4. CASE u = "count"
    BY <2>4 DEF Patched, Rows
  <2>. QED  BY <1>2, <2>1, <2>2, <2>3, <2>4
<1>. QED  BY <1>1, <1>2 DEF Updates

\* Only the step of task t changes its plan.
LEMMA Moved ==
  ASSUME Inv, NEW t \in Tasks, NEW p, todo' = [todo EXCEPT ![t] = p]
  PROVE  todo'[t] = p /\ \A u \in Tasks : u # t => todo'[u] = todo[u]
BY DEF Inv, TypeOK

\* Its new plan has a type.
LEMMA PlanTypes ==
  ASSUME Inv, NEW t \in Tasks, NEW p \in Plans, todo' = [todo EXCEPT ![t] = p]
  PROVE  todo' \in [Tasks -> Seq(Checks \cup Updates \cup Others)]
BY PlanType DEF Inv, TypeOK

-----------------------------------------------------------------------------
\* The steps.

\* A call begins.
LEMMA BeginKeeps ==
  ASSUME Inv, NEW t \in Callers, NEW op \in OpsOf[t], Begin(t, op)
  PROVE  Inv'
<1>1. op \in AllOps /\ t \in Tasks /\ t # Recovery /\ Recovery \in Tasks
  BY OpsAssumption, RecoveryAssumption DEF Tasks
<1>2. /\ ScriptOf[op] \in Plans /\ ScriptOf[op] # <<>> /\ ScriptOf[op] # <<"count">>
      /\ op # "resetEmergency" => ScriptOf[op] \in FreshPlans
  BY <1>1, ScriptPlans
<1>3. /\ todo'[t] = ScriptOf[op] /\ todo[t] = <<>>
      /\ \A u \in Tasks : u # t => todo'[u] = todo[u]
      /\ todo' \in [Tasks -> Seq(Checks \cup Updates \cup Others)]
  BY <1>1, <1>2, Moved, PlanTypes DEF Begin, Idle
<1>4. TypeOK'
  BY <1>1, <1>3 DEF Begin, Inv, TypeOK
<1>5. read[t] = NoRow
  BY <1>1, <1>3 DEF Inv, Planned, At, Idle
<1>6. Planned'
  BY <1>1, <1>2, <1>3, <1>5 DEF Begin, Inv, Planned, At, Idle
<1>7. Unconfirmed'
  BY <1>1, <1>3 DEF Begin, Inv, Unconfirmed, ToReview
<1>8. Tripped'
  BY <1>1, <1>3 DEF Begin, Inv, Tripped, ToReview, At, Idle
<1>9. Held'
  BY <1>1, <1>2, <1>3, <1>5 DEF Begin, Inv, Held, TypeOK
<1>. QED  BY <1>4, <1>6, <1>7, <1>8, <1>9 DEF Inv

\* A check lets it go on or ends it.
LEMMA CheckKeeps ==
  ASSUME Inv, NEW t \in Tasks, Check(t)
  PROVE  Inv'
<1>1. /\ todo[t] \in Plans /\ todo[t] # <<>> /\ Head(todo[t]) \in Checks
      /\ t # Recovery /\ Recovery \in Tasks
  <2>1. todo[t] \in Plans /\ todo[t] # <<>> /\ Head(todo[t]) \in Checks
    BY DEF Inv, Planned, Check, At, Idle
  <2>2. {"review", "disarm", "ready"} \cap Checks = {}
    BY DEF Checks
  <2>. QED  BY <2>1, <2>2, RecoveryTail DEF Inv, Planned, Tasks
<1>. DEFINE p == IF Holds(Head(todo[t]), row) THEN Tail(todo[t]) ELSE <<>>
<1>2. /\ p \in Plans /\ p # <<"count">>
      /\ todo' = [todo EXCEPT ![t] = p]
      /\ p # <<>> => p = Tail(todo[t]) /\ Holds(Head(todo[t]), row)
  <2>1. Tail(todo[t]) \in Plans /\ Tail(todo[t]) # <<"count">>
    BY <1>1, TailPlans, NoLoneCount
  <2>2. <<>> \in Plans /\ <<>> # <<"count">>
    BY DEF Plans, FreshPlans
  <2>3. todo' = [todo EXCEPT ![t] = p]
    <3>1. CASE Holds(Head(todo[t]), row)
      <4>1. todo' = [todo EXCEPT ![t] = Tail(todo[t])]
        BY <3>1 DEF Check, Done, Inv, TypeOK
      <4>. QED  BY <3>1, <4>1
    <3>2. CASE ~Holds(Head(todo[t]), row)
      <4>1. todo' = [todo EXCEPT ![t] = <<>>]
        BY <3>2 DEF Check
      <4>. QED  BY <3>2, <4>1
    <3>. QED  BY <3>1, <3>2
  <2>. QED  BY <2>1, <2>2, <2>3
<1>. HIDE DEF p
<1>3. /\ todo'[t] = p
      /\ \A u \in Tasks : u # t => todo'[u] = todo[u]
      /\ todo' \in [Tasks -> Seq(Checks \cup Updates \cup Others)]
  BY <1>2, Moved, PlanTypes
<1>4. TypeOK'
  BY <1>3 DEF Check, Inv, TypeOK
<1>5. read[t] = NoRow
  <2>1. Checks \cap Updates = {}
    BY DEF Checks, Updates
  <2>. QED  BY <1>1, <2>1 DEF Inv, Planned, At
<1>6. Planned'
  BY <1>1, <1>2, <1>3, <1>5 DEF Check, Inv, Planned, At, Idle
<1>7. Unconfirmed'
  BY <1>1, <1>3 DEF Check, Inv, Unconfirmed, ToReview
<1>8. Tripped'
  <2>1. "disarm" \notin Checks
    BY DEF Checks
  <2>. QED  BY <1>1, <1>3, <2>1 DEF Check, Inv, Tripped, ToReview, At, Idle
<1>9. Held'
  <2>1. ASSUME stopped, t \in fresh
        PROVE  p \in FreshPlans
    <3>1. CASE p = <<>>
      BY <3>1 DEF FreshPlans
    <3>2. CASE p # <<>>
      <4>0. p = Tail(todo[t]) /\ Holds(Head(todo[t]), row)
        BY <1>2, <3>2
      <4>1. Head(todo[t]) \notin {"canStart", "notEmergency", "isRunning", "isPaused"}
        BY <2>1, <4>0 DEF Inv, Held, Holds
      <4>. QED  BY <1>1, <2>1, <4>0, <4>1, FreshTail DEF Inv, Held
    <3>. QED  BY <3>1, <3>2
  <2>. QED  BY <1>3, <2>1 DEF Check, Inv, Held, TypeOK
<1>. QED  BY <1>4, <1>6, <1>7, <1>8, <1>9 DEF Inv

\* A failure is tallied: from the limit on, the disarming is planned.
LEMMA TallyKeeps ==
  ASSUME Inv, NEW t \in Tasks, Tally(t)
  PROVE  Inv'
<1>. DEFINE n == OneMore(row.failures)
<1>1. n \in 0 .. FailureCap
  BY FailuresAssumption DEF Inv, TypeOK, Rows, OneMore
<1>2. /\ todo[t] \in Plans /\ todo[t] # <<>> /\ Head(todo[t]) = "tally"
      /\ t # Recovery /\ Recovery \in Tasks
  BY RecoveryTail DEF Inv, Planned, Tally, At, Idle, Tasks
<1>3. /\ AfterTally(n) \in Plans /\ AfterTally(n) \in FreshPlans
      /\ AfterTally(n) = <<"count">> => n < MaxFailures
  <2>1. <<"count", "disarm", "isRunning", "pause">> # <<"count">>
    OBVIOUS
  <2>. QED  BY <1>1, <2>1, FailuresAssumption DEF AfterTally, Plans, FreshPlans
<1>. HIDE DEF n
<1>4. /\ todo' = [todo EXCEPT ![t] = AfterTally(n)] /\ count' = [count EXCEPT ![t] = n]
      /\ UNCHANGED <<row, phase, read, history>>
  BY DEF Tally, n
<1>5. /\ todo'[t] = AfterTally(n)
      /\ \A u \in Tasks : u # t => todo'[u] = todo[u]
      /\ todo' \in [Tasks -> Seq(Checks \cup Updates \cup Others)]
  BY <1>3, <1>4, Moved, PlanTypes
<1>6. /\ count' \in [Tasks -> 0 .. FailureCap]
      /\ count'[t] = n /\ \A u \in Tasks : u # t => count'[u] = count[u]
  BY <1>1, <1>4 DEF Inv, TypeOK
<1>7. TypeOK'
  BY <1>4, <1>5, <1>6 DEF Inv, TypeOK, history
<1>8. read[t] = NoRow
  <2>1. "tally" \notin Updates
    BY DEF Updates
  <2>. QED  BY <1>2, <2>1 DEF Inv, Planned, At
<1>9. Planned'
  BY <1>2, <1>3, <1>4, <1>5, <1>6, <1>8 DEF Inv, Planned, At, Idle
<1>10. Unconfirmed' /\ Held'
  BY <1>2, <1>3, <1>4, <1>5 DEF Inv, Unconfirmed, Held, ToReview, TypeOK, history
<1>11. Tripped'
  BY <1>2, <1>4, <1>5 DEF Inv, Tripped, ToReview, At, Idle, history
<1>. QED  BY <1>7, <1>9, <1>10, <1>11 DEF Inv

\* An update reads the row.
LEMMA ReadKeeps ==
  ASSUME Inv, NEW t \in Tasks, UpdateRead(t)
  PROVE  Inv'
<1>1. /\ read' \in [Tasks -> Rows \cup {NoRow}]
      /\ read'[t] = row /\ \A u \in Tasks : u # t => read'[u] = read[u]
  BY DEF UpdateRead, Inv, TypeOK
<1>2. TypeOK'
  BY <1>1 DEF UpdateRead, Inv, TypeOK, history
<1>3. Planned'
  BY <1>1 DEF UpdateRead, Inv, Planned, At, Idle
<1>4. Unconfirmed' /\ Tripped'
  BY DEF UpdateRead, Inv, Unconfirmed, Tripped, ToReview, At, Idle, history
<1>5. Held'
  BY <1>1 DEF UpdateRead, Inv, Held, TypeOK, history
<1>. QED  BY <1>2, <1>3, <1>4, <1>5 DEF Inv

\* It writes it: what it read is the row, or an update is lost.
LEMMA WriteKeeps ==
  ASSUME Inv, NEW t \in Tasks, UpdateWrite(t)
  PROVE  Inv'
<1>. DEFINE u == Head(todo[t])
            r == read[t]
<1>1. /\ todo[t] \in Plans /\ todo[t] # <<>> /\ u \in Updates
      /\ r \in Rows /\ count[t] \in 0 .. FailureCap
  BY DEF UpdateWrite, At, Idle, Inv, TypeOK, Planned
<1>2. /\ row' = Patched(u, r, count[t]) /\ row' \in Rows
      /\ row'.armed => r.armed \/ u = "arm"
      /\ u = "disarm" => ~row'.armed
      /\ row'.failures >= MaxFailures =>
           IF u = "count" THEN count[t] >= MaxFailures ELSE u # "arm" /\ r.failures >= MaxFailures
      /\ u \in {"disarm", "count", "clear", "arm"} => row'.status = r.status
      /\ u = "emergency" => row'.status = "EMERGENCY_STOPPED"
  BY <1>1, PatchedType DEF UpdateWrite
<1>3. Tail(todo[t]) \in Plans /\ Tail(todo[t]) # <<"count">>
  BY <1>1, TailPlans, NoLoneCount
<1>4. /\ todo'[t] = Tail(todo[t])
      /\ \A v \in Tasks : v # t => todo'[v] = todo[v]
      /\ todo' \in [Tasks -> Seq(Checks \cup Updates \cup Others)]
  <2>1. todo' = [todo EXCEPT ![t] = Tail(todo[t])]
    BY DEF UpdateWrite, Done, Inv, TypeOK
  <2>. QED  BY <1>3, <2>1, Moved, PlanTypes
<1>5. /\ read' \in [Tasks -> Rows \cup {NoRow}]
      /\ read'[t] = NoRow /\ \A v \in Tasks : v # t => read'[v] = read[v]
      /\ count' \in [Tasks -> 0 .. FailureCap]
      /\ \A v \in Tasks : v # t => count'[v] = count[v]
  BY FailuresAssumption DEF UpdateWrite, Inv, TypeOK
<1>6. /\ stopped' = (row'.status = "EMERGENCY_STOPPED" /\ (stopped \/ u = "emergency"))
      /\ fresh' = IF u = "emergency" THEN {} ELSE fresh \ Finished
      /\ lost' = (lost \/ r # row)
      /\ confirmed' = (confirmed \/ u = "arm")
      /\ undone' = (~confirmed' /\ (undone \/ (row'.armed /\ ~row.armed)))
      /\ UNCHANGED phase
  BY DEF UpdateWrite
<1>. HIDE DEF r, u
<1>7. TypeOK'
  BY <1>2, <1>4, <1>5, <1>6 DEF Inv, TypeOK
<1>8. Planned'
  <2>1. /\ todo'[Recovery] \in RecoveryPlans /\ Recovery \in Tasks
        /\ phase = "READY" => todo'[Recovery] = <<>>
        /\ phase # "DOWN"
    BY <1>1, <1>4, RecoveryTail DEF Inv, Planned, Tasks
  <2>. QED  BY <1>3, <1>4, <1>5, <1>6, <2>1 DEF Inv, Planned, At, Idle
<1>9. Unconfirmed'
  <2>. SUFFICES ASSUME row'.armed, ~AutoResume, ~confirmed', ~undone'
                PROVE  (ToReview \/ todo[Recovery] = <<"disarm", "ready">>)'
    BY <1>6 DEF Unconfirmed
  <2>1. /\ row.armed /\ ~confirmed /\ ~undone /\ u # "arm" /\ u # "disarm"
    BY <1>2, <1>6
  <2>2. phase = "DOWN" \/ todo[Recovery] = <<"review">> \/ todo[Recovery] = <<"disarm", "ready">>
    BY <2>1 DEF Inv, Unconfirmed, ToReview
  <2>3. t # Recovery
    <3>1. Head(<<"review">>) \notin Updates /\ Head(<<"disarm", "ready">>) = "disarm"
      BY Ends DEF Updates
    <3>. QED  BY <1>1, <2>1, <2>2, <3>1 DEF Inv, Planned, u
  <2>. QED  BY <1>4, <1>6, <2>2, <2>3 DEF ToReview, Tasks
<1>10. Tripped'
  <2>. SUFFICES ASSUME row'.armed, row'.failures >= MaxFailures, ~AutoResume, ~lost'
                PROVE  (ToReview \/ \E v \in Tasks : At(v, {"disarm"}))'
    BY DEF Tripped
  <2>1. r = row /\ ~lost /\ u # "disarm"
    BY <1>2, <1>6
  <2>2. CASE u = "count"
    <3>1. count[t] >= MaxFailures
      BY <1>2, <2>2
    <3>2. todo[t] # <<"count">>
      BY <3>1, FailuresAssumption DEF Inv, Planned, TypeOK
    <3>3. todo[t] = <<"count", "disarm", "isRunning", "pause">>
      BY <1>1, <2>2, <3>2, Parts DEF Plans, FreshPlans, u
    <3>4. At(t, {"disarm"})'
      <4>1. todo'[t] = <<"disarm", "isRunning", "pause">>
        BY <1>4, <3>3, Parts
      <4>2. /\ <<"disarm", "isRunning", "pause">> # <<>>
            /\ Head(<<"disarm", "isRunning", "pause">>) = "disarm"
        BY Ends
      <4>. QED  BY <4>1, <4>2 DEF At, Idle
    <3>. QED  BY <3>4
  <2>3. CASE u # "count"
    <3>1. u # "arm" /\ row.armed /\ row.failures >= MaxFailures
      BY <1>2, <2>1, <2>3
    <3>2. ToReview \/ \E v \in Tasks : At(v, {"disarm"})
      BY <2>1, <3>1 DEF Inv, Tripped
    <3>3. ASSUME NEW v \in Tasks, At(v, {"disarm"})
          PROVE  At(v, {"disarm"})'
      BY <1>4, <2>1, <3>3 DEF At, Idle, u
    <3>4. todo[Recovery] = <<"review">> => t # Recovery
      <4>1. Head(<<"review">>) \notin Updates
        BY Ends DEF Updates
      <4>. QED  BY <1>1, <4>1 DEF u
    <3>. QED  BY <1>4, <1>6, <3>2, <3>3, <3>4 DEF ToReview, Tasks
  <2>. QED  BY <2>2, <2>3
<1>11. Held'
  <2>. SUFFICES ASSUME stopped', NEW v \in fresh'
                PROVE  /\ todo'[v] \in FreshPlans
                       /\ read'[v] # NoRow => read'[v].status = "EMERGENCY_STOPPED"
    BY <1>6 DEF Held
  <2>1. stopped /\ v \in fresh /\ v \in Tasks /\ u # "emergency"
    BY <1>6 DEF Inv, TypeOK
  <2>2. CASE v # t
    BY <1>4, <1>5, <2>1, <2>2 DEF Inv, Held
  <2>3. CASE v = t
    <3>1. Tail(todo[t]) \in FreshPlans
      <4>1. {"canStart", "notEmergency", "isRunning", "isPaused"} \cap Updates = {}
        BY DEF Updates
      <4>. QED  BY <1>1, <2>1, <2>3, <4>1, FreshTail DEF Inv, Held, u
    <3>. QED  BY <1>4, <1>5, <2>3, <3>1
  <2>. QED  BY <2>2, <2>3
<1>. QED  BY <1>7, <1>8, <1>9, <1>10, <1>11 DEF Inv

\* The process starts,
LEMMA BootKeeps ==
  ASSUME Inv, Boot
  PROVE  Inv'
<1>1. Recovery \in Tasks /\ <<"review">> \in Plans /\ <<"review">> \in FreshPlans
      /\ <<"review">> \in RecoveryPlans /\ <<"review">> # <<"count">>
  BY DEF Tasks, Plans, FreshPlans, RecoveryPlans
<1>2. /\ todo'[Recovery] = <<"review">>
      /\ \A u \in Tasks : u # Recovery => todo'[u] = todo[u]
      /\ todo' \in [Tasks -> Seq(Checks \cup Updates \cup Others)]
  BY <1>1, Moved, PlanTypes DEF Boot
<1>3. \A t \in Tasks : todo[t] = <<>> /\ read[t] = NoRow
  BY DEF Boot, Inv, Planned, At, Idle
<1>4. TypeOK'
  BY <1>1, <1>2 DEF Boot, Inv, TypeOK
<1>5. Planned'
  BY <1>1, <1>2, <1>3 DEF Boot, Inv, Planned, At, Idle
<1>6. Unconfirmed' /\ Tripped'
  BY <1>2 DEF Boot, Unconfirmed, Tripped, ToReview
<1>7. Held'
  BY <1>1, <1>2, <1>3 DEF Boot, Inv, Held, TypeOK
<1>. QED  BY <1>4, <1>5, <1>6, <1>7 DEF Inv

\* recovery plans to disarm an armed row,
LEMMA ReviewKeeps ==
  ASSUME Inv, Review
  PROVE  Inv'
<1>1. todo[Recovery] = <<"review">> /\ Recovery \in Tasks /\ phase # "READY" /\ phase # "DOWN"
  <2>1. todo[Recovery] # <<>> /\ Head(todo[Recovery]) = "review"
    BY DEF Review, At, Idle
  <2>2. todo[Recovery] = <<"review">>
    BY <2>1, Parts, RecoveryTail DEF Inv, Planned
  <2>. QED  BY <2>1, <2>2 DEF Inv, Planned, Tasks
<1>2. PICK p \in {<<"disarm", "ready">>, <<"ready">>} :
        /\ todo' = [todo EXCEPT ![Recovery] = p]
        /\ row.armed /\ ~AutoResume => p = <<"disarm", "ready">>
  BY DEF Review, DisarmOnRestart
<1>3. p \in Plans /\ p \in FreshPlans /\ p \in RecoveryPlans /\ p # <<"count">> /\ p # <<>>
  BY <1>2 DEF Plans, FreshPlans, RecoveryPlans
<1>4. /\ todo'[Recovery] = p
      /\ \A u \in Tasks : u # Recovery => todo'[u] = todo[u]
      /\ todo' \in [Tasks -> Seq(Checks \cup Updates \cup Others)]
  BY <1>1, <1>2, <1>3, Moved, PlanTypes
<1>5. read[Recovery] = NoRow
  <2>1. Head(<<"review">>) \notin Updates
    BY Ends DEF Updates
  <2>. QED  BY <1>1, <2>1 DEF Inv, Planned, At
<1>6. TypeOK'
  BY <1>4 DEF Review, Inv, TypeOK, history
<1>7. Planned'
  BY <1>1, <1>3, <1>4, <1>5 DEF Review, Inv, Planned, At, Idle
<1>8. Unconfirmed'
  BY <1>2, <1>4 DEF Review, Inv, Unconfirmed, history
<1>9. Tripped'
  <2>. SUFFICES ASSUME row.armed, ~AutoResume
                PROVE  \E t \in Tasks : At(t, {"disarm"})'
    BY DEF Tripped, Review
  <2>1. todo'[Recovery] = <<"disarm", "ready">>
    BY <1>2, <1>4
  <2>2. At(Recovery, {"disarm"})'
    <3>1. Head(<<"disarm", "ready">>) = "disarm" /\ <<"disarm", "ready">> # <<>>
      BY Ends
    <3>. QED  BY <2>1, <3>1 DEF At, Idle
  <2>. QED  BY <1>1, <2>2
<1>10. Held'
  BY <1>3, <1>4, <1>5 DEF Review, Inv, Held, TypeOK, history
<1>. QED  BY <1>6, <1>7, <1>8, <1>9, <1>10 DEF Inv

\* and is over.
LEMMA ReadyKeeps ==
  ASSUME Inv, Ready
  PROVE  Inv'
<1>1. /\ todo[Recovery] = <<"ready">> /\ Recovery \in Tasks
      /\ phase # "READY" /\ phase # "DOWN"
  <2>1. todo[Recovery] # <<>> /\ Head(todo[Recovery]) = "ready"
    BY DEF Ready, At, Idle
  <2>2. todo[Recovery] = <<"ready">>
    BY <2>1, Parts, RecoveryTail DEF Inv, Planned
  <2>. QED  BY <2>1, <2>2 DEF Inv, Planned, Tasks
<1>2. <<>> \in Plans /\ <<>> \in FreshPlans /\ <<>> \in RecoveryPlans /\ <<>> # <<"count">>
  BY DEF Plans, FreshPlans, RecoveryPlans
<1>3. /\ todo'[Recovery] = <<>>
      /\ \A u \in Tasks : u # Recovery => todo'[u] = todo[u]
      /\ todo' \in [Tasks -> Seq(Checks \cup Updates \cup Others)]
  <2>1. todo' = [todo EXCEPT ![Recovery] = <<>>]
    <3>1. todo' = [todo EXCEPT ![Recovery] = Tail(todo[Recovery])]
      BY <1>1 DEF Ready, Done, Inv, TypeOK
    <3>2. Tail(todo[Recovery]) = <<>>
      BY <1>1, Parts
    <3>. QED  BY <3>1, <3>2, Zenon
  <2>. QED  BY <1>1, <1>2, <2>1, Moved, PlanTypes
<1>4. read[Recovery] = NoRow
  <2>1. Head(<<"ready">>) \notin Updates
    BY Ends DEF Updates
  <2>. QED  BY <1>1, <2>1 DEF Inv, Planned, At
<1>5. TypeOK'
  BY <1>3 DEF Ready, Inv, TypeOK
<1>6. Planned'
  BY <1>1, <1>2, <1>3, <1>4 DEF Ready, Inv, Planned, At, Idle
<1>7. <<"ready">> # <<"review">> /\ <<"ready">> # <<"disarm", "ready">>
      /\ Head(<<"ready">>) # "disarm"
  BY Ends
<1>8. Unconfirmed'
  BY <1>1, <1>7 DEF Ready, Inv, Unconfirmed, ToReview
<1>9. Tripped'
  <2>. SUFFICES ASSUME row.armed, row.failures >= MaxFailures, ~AutoResume, ~lost
                PROVE  \E t \in Tasks : At(t, {"disarm"})'
    BY DEF Ready, Tripped
  <2>1. PICK t \in Tasks : At(t, {"disarm"})
    BY <1>1, <1>7 DEF Inv, Tripped, ToReview
  <2>2. t # Recovery
    BY <1>1, <1>7, <2>1 DEF At
  <2>3. At(t, {"disarm"})'
    BY <1>3, <2>1, <2>2 DEF At, Idle
  <2>. QED  BY <2>3
<1>10. Held'
  BY <1>2, <1>3, <1>4 DEF Ready, Inv, Held, TypeOK
<1>. QED  BY <1>5, <1>6, <1>8, <1>9, <1>10 DEF Inv

\* A crash ends every plan.
LEMMA CrashKeeps ==
  ASSUME Inv, Crash
  PROVE  Inv'
<1>1. <<>> \in Plans /\ <<>> \in RecoveryPlans /\ <<>> # <<"count">> /\ Recovery \in Tasks
  BY DEF Plans, FreshPlans, RecoveryPlans, Tasks
<1>2. <<>> \in Seq(Checks \cup Updates \cup Others) /\ 0 \in 0 .. FailureCap
  BY FailuresAssumption
<1>3. TypeOK'
  BY <1>2 DEF Crash, Inv, TypeOK
<1>4. Planned'
  BY <1>1 DEF Crash, Planned, At
<1>5. Unconfirmed' /\ Tripped' /\ Held'
  BY DEF Crash, Inv, Unconfirmed, Tripped, Held, ToReview
<1>. QED  BY <1>3, <1>4, <1>5 DEF Inv

-----------------------------------------------------------------------------
\* Together.

\* The invariant holds at first,
LEMMA InvInit == Init => Inv
<1>. SUFFICES ASSUME Init PROVE Inv
  OBVIOUS
<1>1. <<>> \in Plans /\ <<>> \in RecoveryPlans /\ <<>> # <<"count">> /\ Recovery \in Tasks
  BY DEF Plans, FreshPlans, RecoveryPlans, Tasks
<1>2. <<>> \in Seq(Checks \cup Updates \cup Others) /\ 0 \in 0 .. FailureCap
  BY FailuresAssumption
<1>3. row \in Rows
  BY <1>2 DEF Init, Rows, Statuses
<1>4. TypeOK
  BY <1>2, <1>3 DEF Init, TypeOK
<1>5. Planned
  BY <1>1 DEF Init, Planned, At
<1>6. Unconfirmed /\ Tripped /\ Held
  BY DEF Init, Unconfirmed, Tripped, Held, ToReview
<1>. QED  BY <1>4, <1>5, <1>6 DEF Inv

\* after every step,
LEMMA InvStep == Inv /\ [Next]_vars => Inv'
<1>. SUFFICES ASSUME Inv, [Next]_vars PROVE Inv'
  OBVIOUS
<1>1. CASE UNCHANGED vars
  BY <1>1 DEF vars, codeVars, history, Inv, TypeOK, Planned, Unconfirmed, Tripped, Held, ToReview,
              At, Idle
<1>2. CASE \E t \in Callers : \E op \in OpsOf[t] : Begin(t, op)
  BY <1>2, BeginKeeps
<1>3. CASE \E t \in Tasks : Check(t) \/ Tally(t) \/ UpdateRead(t) \/ UpdateWrite(t)
  BY <1>3, CheckKeeps, TallyKeeps, ReadKeeps, WriteKeeps
<1>. QED  BY <1>1, <1>2, <1>3, BootKeeps, ReviewKeeps, ReadyKeeps, CrashKeeps DEF Next

\* and so always.
LEMMA Inductive == Spec => []Inv
  BY InvInit, InvStep, PTL DEF Spec

\* Every variable keeps its type, the plans of the calls in progress included.
THEOREM TypeCorrect == Spec => []TypeOK
<1>1. Inv => TypeOK
  BY DEF Inv
<1>. QED  BY <1>1, Inductive, PTL

\* For any callers and crashes, the gate for live bets opens only on an arming since the last
\* restart, or on an update that wrote back over a disarming the armed row it had read
\* (BotStateRepo.update, the disarming of recovery.ts).
THEOREM LiveWasConfirmed == Spec => []LiveNeedsConfirmation
<1>1. Inv => LiveNeedsConfirmation
  <2>1. <<>> # <<"review">> /\ <<>> # <<"disarm", "ready">>
    OBVIOUS
  <2>. QED  BY <2>1 DEF Inv, Planned, Unconfirmed, ToReview, LiveNeedsConfirmation, GateOpen
<1>. QED  BY <1>1, Inductive, PTL

\* Once the calls that count failures are over, too many of them have disarmed live trading,
\* wherever one of the calls died (recordFailure, then the disarming of recovery.ts).
THEOREM BreakerHasDisarmed == Spec => []BreakerDisarms
<1>1. Inv => BreakerDisarms
  <2>. SUFFICES ASSUME Inv, phase = "READY", ~AutoResume, ~lost, row.failures >= MaxFailures,
                       \A t \in Tasks : \A i \in DOMAIN todo[t] : todo[t][i] # "disarm",
                       row.armed
                PROVE  FALSE
    BY DEF BreakerDisarms, Inv, TypeOK, Rows
  <2>1. <<>> # <<"review">>
    OBVIOUS
  <2>2. PICK t \in Tasks : At(t, {"disarm"})
    BY <2>1 DEF Inv, Planned, Tripped, ToReview
  <2>3. /\ todo[t] \in Seq(Checks \cup Updates \cup Others)
        /\ todo[t] # <<>> /\ Head(todo[t]) = "disarm"
    BY <2>2 DEF At, Idle, Inv, TypeOK
  <2>4. 1 \in DOMAIN todo[t] /\ todo[t][1] = "disarm"
    BY <2>3
  <2>. QED  BY <2>4
<1>. QED  BY <1>1, Inductive, PTL

\* An emergency stop holds against every later call, outcome and restart but the reset.
THEOREM StopHolds == Spec => StopHoldsOnceQuiet
<1>1. ASSUME Inv, [Next]_vars, stopped, Busy \subseteq fresh
      PROVE  row'.status = "EMERGENCY_STOPPED"
  <2>1. CASE UNCHANGED row
    BY <1>1, <2>1 DEF Inv, Held
  <2>2. ASSUME NEW t \in Tasks, UpdateWrite(t)
        PROVE  row'.status = "EMERGENCY_STOPPED"
    <3>1. /\ t \in fresh /\ todo[t] \in Plans /\ todo[t] # <<>> /\ Head(todo[t]) \in Updates
          /\ read[t] \in Rows /\ count[t] \in 0 .. FailureCap
          /\ row' = Patched(Head(todo[t]), read[t], count[t])
      BY <1>1, <2>2 DEF UpdateWrite, At, Busy, Inv, TypeOK, Planned, Idle
    <3>2. todo[t] \in FreshPlans /\ read[t].status = "EMERGENCY_STOPPED"
      BY <1>1, <2>2, <3>1 DEF Inv, Held, UpdateWrite
    <3>3. Head(todo[t]) \in {"emergency", "disarm", "count", "clear"}
      BY <3>1, <3>2, FreshUpdates
    <3>. QED  BY <3>1, <3>2, <3>3, PatchedType
  <2>3. UNCHANGED row \/ \E t \in Tasks : UpdateWrite(t)
    BY <1>1 DEF Next, Begin, Check, Tally, UpdateRead, Boot, Review, Ready, Crash, vars, codeVars
  <2>. QED  BY <2>1, <2>2, <2>3
<1>2. Inv /\ [Next]_vars =>
        (stopped /\ Busy \subseteq fresh => row'.status = "EMERGENCY_STOPPED" \/ Resetting)
  BY <1>1
<1>. QED  BY <1>2, Inductive, PTL DEF Spec, StopHoldsOnceQuiet
=============================================================================
