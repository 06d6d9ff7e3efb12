---------------------------- MODULE MCBotControl ----------------------------
(* Finite instances of BotControl for TLC. *)
EXTENDS BotControl

CONSTANTS c1, c2

TwoCallers == {c1, c2}

\* The operator at the dashboard, beside the outcomes of executions and a second client.
EveryOp ==
  [c \in TwoCallers |->
     IF c = c1 THEN {"start", "stop", "emergencyStop", "resetEmergency", "armLive"}
               ELSE {"pause", "resume", "disarmLive", "recordFailure", "recordSuccess"}]

\* An emergency stop while the outcome of an execution is recorded.
StopAndOutcome ==
  [c \in TwoCallers |->
     IF c = c1 THEN {"start", "armLive", "emergencyStop"}
               ELSE {"recordFailure", "recordSuccess"}]
=============================================================================
