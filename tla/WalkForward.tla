---------------------------- MODULE WalkForward -----------------------------
(***************************************************************************)
(* Walk-forward validation (packages/core/src/walkForward.ts): in every    *)
(* fold a candidate is chosen by its replay over the training window and   *)
(* then traded over the test window that follows.  A replay is a function  *)
(* of the rounds, and so is the out-of-sample record.                      *)
(***************************************************************************)
EXTENDS Backtest

CONSTANTS
  Base,          \* the configuration the candidates start from
  Grid,          \* the values searched, parameter by parameter: a sequence of <<key, values>>
  TrainRounds, TestRounds, StepRounds,
  Anchored,      \* every training window starts at the first round
  Objective      \* what the candidates are compared by

\* The constructor's checks.
ASSUME WindowsAssumption ==
  TrainRounds \in Nat /\ TrainRounds >= 10 /\ TestRounds \in Nat \ {0}
  /\ StepRounds \in Nat /\ StepRounds >= TestRounds
ASSUME ObjectiveAssumption == Anchored \in BOOLEAN /\ Objective \in {"netPnl", "roi"}

MAX_WALK_FORWARD_CANDIDATES == 64

-----------------------------------------------------------------------------

\* Every combination of the grid's values over the base parameters, the first parameter slowest.
expandGrid(base, grid) ==
  LET Widen(out, dimension) ==
        IF dimension[2] = <<>> THEN out
        ELSE FlattenSeq([n \in DOMAIN out |->
               [v \in DOMAIN dimension[2] |-> [out[n] EXCEPT ![dimension[1]] = dimension[2][v]]]])
  IN  FoldLeft(Widen, <<base>>, grid)

Candidates == LET all == expandGrid(Base.params, Grid)
              IN  [c \in DOMAIN all |-> [Base EXCEPT !.params = all[c]]]

ASSUME CandidatesAssumption ==
  /\ DOMAIN Candidates = 1 .. Len(Candidates)
  /\ Len(Candidates) \in 1 .. MAX_WALK_FORWARD_CANDIDATES
  /\ \A c \in DOMAIN Candidates : ValidConfig(Candidates[c])

\* History before each window, so that a strategy sees its full lookback.
Warm == 2 + Max({lookbackFor(Candidates[c]) : c \in DOMAIN Candidates})

TrainingAndFirst(start) == start + TrainRounds + 1     \* fault: the first round of the test is trained on
TrainingEnd(start) == start + TrainRounds

\* Fold n of the rounds `all` trains on trainFrom .. trainTo and trades testFrom .. testTo.
Fold(n) ==
  LET start == (n - 1) * StepRounds
  IN  [trainFrom |-> IF Anchored THEN 1 ELSE start + 1, trainTo |-> TrainingEnd(start),
       testFrom |-> start + TrainRounds + 1, testTo |-> start + TrainRounds + TestRounds]

Folds(all) == {n \in 1 .. Len(all) : Fold(n).testTo <= Len(all)}

\* The simulation of cfg once the rounds of a window have been replayed, the first ones as history
\* only: with a fresh bankroll and no trades of its own.
Simulated(cfg, window, history) ==
  LET sim[n \in 0 .. Len(window)] ==
        IF n <= history THEN NewSim
        ELSE IF Timed(window[n]) THEN Evaluate(cfg, sim[n - 1], SubSeq(window, 1, n)) ELSE sim[n - 1]
  IN  sim[Len(window)]

\* Replays cfg over the rounds from .. to of `all`, and settles what is pending at the end.
Replay(cfg, all, from, to) ==
  LET first == Max({1, from - Warm})
      window == SubSeq(all, first, to)
      end == (Last(window).epoch + 2) * Interval + BufferSeconds
  IN  settleUpTo(Simulated(cfg, window, from - first), window, end)

\* The return on what was wagered; one who wagered nothing has none, which is less than any.
MoreReturn(a, b) ==
  /\ a.totalWagered # 0
  /\ b.totalWagered # 0 => a.netPnl * b.totalWagered > b.netPnl * a.totalWagered

Better(a, b) == IF Objective = "roi" THEN MoreReturn(a, b) ELSE a.netPnl > b.netPnl

\* The best of the results on the training window, ties to the earlier candidate.
pick(results) ==
  CHOOSE c \in DOMAIN results : /\ \A d \in DOMAIN results : ~Better(results[d], results[c])
                                /\ \A d \in 1 .. c - 1 : Better(results[c], results[d])

Chosen(all, n) ==
  LET f == Fold(n)
  IN  pick([c \in DOMAIN Candidates |->
              computeSummary(Replay(Candidates[c], all, f.trainFrom, f.trainTo).entries, Null)])

-----------------------------------------------------------------------------
\* Properties.

\* What was bet, without what became of it.
Bets(entries) == [n \in DOMAIN entries |-> <<entries[n].epoch, entries[n].direction, entries[n].amount>>]

\* The part of the out-of-sample record that a fold adds: its candidate and that candidate's bets.
Tested(all, fold, chosen) ==
  <<chosen, Bets(Replay(Candidates[chosen], all, fold.testFrom, fold.testTo).entries)>>

Record(all, n) == Tested(all, Fold(n), Chosen(all, n))

\* The out-of-sample record is out of sample: whatever the last round of a test window turns out to
\* be, its fold chooses the same candidate and makes the same bets (walkForward.ts:2-4).
OutOfSample ==
  LET m == Len(rounds)
      others == {Append(Front(rounds), FinalRound(rounds[m].epoch, shape)) : shape \in Shapes}
  IN  ~finished /\ m > TrainRounds /\ Timed(rounds[m]) =>
        \A n \in Folds(rounds) :
          Fold(n).testTo = m => Cardinality({Record(all, n) : all \in others \cup {rounds}}) = 1
=============================================================================
