------------------------------ MODULE Research ------------------------------
(***************************************************************************)
(* The research studies (packages/core/src/research.ts) that look for      *)
(* rules in the outcomes of final rounds: how the rounds and their bets    *)
(* reach the study's thread (apps/server/src/research/columns.ts), which   *)
(* hypotheses are tested on the training split, which rules follow, which  *)
(* held-out rounds a rule is scored on, and which rules, given their       *)
(* p-values, are called an edge (statistics.ts).  The p-values themselves, *)
(* the intervals and the correlations are left out.                        *)
(***************************************************************************)
EXTENDS Backtest

CONSTANTS
  TrainPercent,     \* trainFraction, in hundredths
  StudyStake,       \* stakeWei of the cost model; its gas is the backtest's
  DecisionOffset,   \* decisionOffsets: seconds before the lock, one of them
  EarlyPools,       \* bound: what the pool may look like before that, in turn
  LowBits,          \* LOW_BITS
  PValues, MaxTests \* bound: p-values, in hundredths, and tests corrected together

ASSUME SplitAssumption == TrainPercent \in 1 .. 99
ASSUME StakeAssumption == StudyStake \in Nat \ {0}
ASSUME OffsetAssumption == DecisionOffset \in Nat \ {0}
ASSUME ColumnsAssumption == LowBits \in Nat
ASSUME TestsAssumption == PValues \subseteq Nat /\ MaxTests \in Nat \ {0}

MaxOrder == 4

isDecided(r) == r.outcome \in Directions

\* External: the contract's record of what the winning side shares.
Rewarded(r) ==
  r @@ [rewardBase   |-> IF isDecided(r) THEN SideOf(r, r.outcome) ELSE 0,
        rewardAmount |-> IF isDecided(r) THEN Reward(r.bullAmount + r.bearAmount) ELSE 0]

-----------------------------------------------------------------------------
\* The columns rounds travel in: an amount as its high and its low bits.

OUTCOMES == <<"BULL", "BEAR", "TIE", "CANCELLED">>
Fields == <<"total", "bullAmount", "bearAmount", "rewardAmount", "rewardBase">>

putWei(wei) == <<wei \div 2 ^ LowBits, wei % 2 ^ LowBits>>
getWei(source, slot) == source[2 * slot - 1] * 2 ^ LowBits + source[2 * slot]

\* The rounds with a lock time, column by column.
roundColumns(all) ==
  LET kept == SelectSeq(all, LAMBDA r : r.lockTime # Null)
      Sent(r) == [total |-> r.bullAmount + r.bearAmount] @@ Rewarded(r)
  IN  [n        |-> Len(kept),
       epoch    |-> [j \in DOMAIN kept |-> kept[j].epoch],
       lockTime |-> [j \in DOMAIN kept |-> kept[j].lockTime],
       outcome  |-> [j \in DOMAIN kept |-> CHOOSE o \in DOMAIN OUTCOMES : OUTCOMES[o] = kept[j].outcome],
       amounts  |-> FlattenSeq([n \in 1 .. Len(kept) * Len(Fields) |->
                      putWei(Sent(kept[((n - 1) \div Len(Fields)) + 1])[Fields[((n - 1) % Len(Fields)) + 1]])])]

decodeRounds(c) ==
  [j \in 1 .. c.n |->
     [epoch |-> c.epoch[j], lockTime |-> c.lockTime[j], outcome |-> OUTCOMES[c.outcome[j]]]
     @@ [a \in {Fields[n] : n \in DOMAIN Fields} |->
           getWei(c.amounts, (j - 1) * Len(Fields) + CHOOSE n \in DOMAIN Fields : Fields[n] = a)]]

\* External: the log of a round's bets, those before the decision and the rest in its very second.
events(r) ==
  LET early == EarlyPools[(r.epoch % Len(EarlyPools)) + 1]
      Rest(total, before) == Max({0, total - before})
      cutoff == r.lockTime - DecisionOffset
      Bet(time, side, amount) == [epoch |-> r.epoch, time |-> time, side |-> side, amount |-> amount]
  IN  <<Bet(cutoff - 1, "BULL", early.bull), Bet(cutoff - 1, "BEAR", early.bear),
        Bet(cutoff, "BULL", Rest(r.bullAmount, early.bull)), Bet(cutoff, "BEAR", Rest(r.bearAmount, early.bear))>>

\* The bets of the rounds, column by column.
eventColumns(all) ==
  LET log == FlattenSeq([j \in DOMAIN all |-> events(all[j])])
  IN  [n       |-> Len(log),
       epoch   |-> [i \in DOMAIN log |-> log[i].epoch],
       time    |-> [i \in DOMAIN log |-> log[i].time],
       side    |-> [i \in DOMAIN log |-> IF log[i].side = "BULL" THEN 0 ELSE 1],
       amounts |-> FlattenSeq([i \in DOMAIN log |-> putWei(log[i].amount)])]

\* The bets of every round that has any.
decodeEvents(c) ==
  [epoch \in {c.epoch[i] : i \in 1 .. c.n} |->
     LET there == SelectSeq([i \in 1 .. c.n |-> i], LAMBDA i : c.epoch[i] = epoch)
     IN  [k \in DOMAIN there |->
            [time |-> c.time[there[k]], side |-> IF c.side[there[k]] = 0 THEN "BULL" ELSE "BEAR",
             amount |-> getWei(c.amounts, there[k])]]]

\* The rows a study is given, and the bets.
Rows(all) == decodeRounds(roundColumns(all))
Logs(all) == decodeEvents(eventColumns(all))

Split(all) == (Len(all) * TrainPercent) \div 100

-----------------------------------------------------------------------------
\* What is counted of some rows, in the training split, and the rule that follows.

Bulls(all, S) == Cardinality({j \in S : all[j].outcome = "BULL"})

Decided(all, S) == {j \in S : isDecided(all[j])}

Training(all) == 1 .. Split(all)
HeldOut(all) == (Split(all) + 1) .. Len(all)

\* The hypothesis that the rows of S are not like the others, and the direction to bet on them.
Hypothesis(all, S) ==
  LET train == Decided(all, S \cap Training(all))
      everywhere == Decided(all, Training(all))
  IN  [n |-> Cardinality(train), bulls |-> Bulls(all, train),
       p0 |-> <<Bulls(all, everywhere), Cardinality(everywhere)>>]

Predicted(all, S) ==
  LET h == Hypothesis(all, S)
  IN  IF h.n = 0 THEN Null ELSE IF 2 * h.bulls > h.n THEN "BULL" ELSE "BEAR"

\* The bets of the rule: on the held-out rows of S.
RuleBets(all, S) ==
  LET side == Predicted(all, S)
  IN  IF side = Null THEN {} ELSE {<<j, side>> : j \in S \cap HeldOut(all)}

ChargedToWinners(r, side, payout) == r.outcome = side     \* fault: a refund is claimed for free

\* Whether a bet has to be claimed: it is worth something.
ClaimCharged(r, side, payout) == payout > 0

\* Their net result, the stake added to the pool and all gas charged.
summarizeBets(all, bets) ==
  LET Payout(b) == simulatedPayout(all[b[1]], all[b[1]].outcome, b[2], StudyStake)
      Net(b) == Payout(b) - StudyStake - GasPerBet
                - (IF ClaimCharged(all[b[1]], b[2], Payout(b)) THEN GasPerClaim ELSE 0)
      resolved == {b \in bets : all[b[1]].outcome # "CANCELLED"}
  IN  [bets |-> Cardinality(bets), resolved |-> Cardinality(resolved),
       wins |-> Cardinality({b \in resolved : Payout(b) > 0}),
       net  |-> Sum([b \in bets |-> Net(b)], bets)]

-----------------------------------------------------------------------------
\* The families of hypotheses.

SameEpochBack(r, lag) == r.epoch - lag + 1     \* fault: one round too many is looked at

\* The newest epoch whose outcome a rule of this lag may use for round r.
LatestUsed(r, lag) == r.epoch - lag

\* The decided outcomes a bet on row j is conditioned on, oldest first.
History(all, j, lag) ==
  LET used == SelectSeq(SubSeq(all, 1, j - 1), LAMBDA r : isDecided(r) /\ r.epoch <= LatestUsed(all[j], lag))
  IN  [n \in DOMAIN used |-> used[n].outcome]

\* sequenceStudy: the rows by the last outcomes before them.
Following(all, lag, context) ==
  {j \in DOMAIN all : LET h == History(all, j, lag)
                      IN  Len(h) >= Len(context) /\ LastN(h, Len(context)) = context}

Contexts == UNION {[1 .. k -> Directions] : k \in 1 .. MaxOrder}

\* hourStudy: the rows by the hour of the day they locked in.
Hour(r) == ((r.lockTime % DaySeconds) * 24) \div DaySeconds

AtHour(all, hour) == {j \in DOMAIN all : Hour(all[j]) = hour}

\* The pool from the bets before the cutoff, or from all of them (Null).
poolBefore(evs, cutoff) ==
  LET Of(side) == Sum([n \in DOMAIN evs |-> evs[n].amount],
                      {n \in DOMAIN evs : evs[n].side = side /\ (cutoff = Null \/ evs[n].time < cutoff)})
  IN  [bull |-> Of("BULL"), bear |-> Of("BEAR")]

\* Only rounds whose bets add up to their final pools are studied.
Logged(r, evs) == poolBefore(evs, Null) = [bull |-> r.bullAmount, bear |-> r.bearAmount]

PoolSample(all, bets) ==
  SelectSeq([j \in DOMAIN all |-> j],
            LAMBDA j : all[j].epoch \in DOMAIN bets /\ Logged(all[j], bets[all[j].epoch]))

\* The side with the longer odds at the decision.
LongOdds(r, evs) ==
  LET seen == poolBefore(evs, r.lockTime - DecisionOffset)
  IN  CASE seen.bull + seen.bear = 0 -> Null
        [] seen.bull + seen.bear > 0 /\ seen.bull <= seen.bear -> "BULL"
        [] OTHER -> "BEAR"

\* poolStudy: the rules of betting the longer odds and the favourite, on the held-out part of the
\* sample.
poolStudy(all, bets) ==
  LET sample == PoolSample(all, bets)
      long == [n \in Split(sample) + 1 .. Len(sample) |-> LongOdds(all[sample[n]], bets[all[sample[n]].epoch])]
      seen == {n \in DOMAIN long : long[n] # Null}
  IN  {{<<sample[n], long[n]>> : n \in seen}, {<<sample[n], opposite(long[n])>> : n \in seen}}

\* Every rule tried: its hypothesis, and its bets.  Rules of lag 1 are only ever hypotheses, and the
\* rules of the pools follow from none.
Studies(all, bets) ==
  {<<Hypothesis(all, S), RuleBets(all, S)>> :
     S \in {Following(all, 2, c) : c \in Contexts} \cup {AtHour(all, h) : h \in 0 .. 23}}
  \cup {<<Null, rule>> : rule \in poolStudy(all, bets)}

\* controls: always one side, whatever is known.  The third of them, at random, is left out.
controls(all) == {{<<j, side>> : j \in DOMAIN all} : side \in Directions}

\* How often each outcome occurred.
outcomeDistribution(all) == [o \in Outcomes |-> Cardinality({j \in DOMAIN all : all[j].outcome = o})]

\* payoutStats: what of a round's pool no bettor can claim.
HouseTake(r) ==
  CASE r.outcome = "TIE" -> r.total
    [] isDecided(r) /\ r.rewardBase = 0 -> r.total
    [] isDecided(r) /\ r.rewardBase # 0 -> r.total - r.rewardAmount
    [] OTHER -> 0

-----------------------------------------------------------------------------
\* Correcting for everything tried.

NotMonotone(ps, n, m) == (100 * ps[n] * m) \div n     \* fault: without the running minimum

\* Of ascending p-values, in parts of 10000: the running minimum from the largest.
Adjusted(ps, n, m) == Min({100 * 100} \cup {(100 * ps[k] * m) \div k : k \in n .. m})

\* The place of the i-th p-value among them all, the smallest first; equal ones stay in order.
Place(ps, i) == Cardinality({j \in DOMAIN ps : ps[j] < ps[i] \/ (ps[j] = ps[i] /\ j <= i)})

benjaminiHochberg(ps) ==
  LET sorted == [n \in DOMAIN ps |-> ps[CHOOSE i \in DOMAIN ps : Place(ps, i) = n]]
  IN  [i \in DOMAIN ps |-> Adjusted(sorted, Place(ps, i), Len(ps))]

\* The tests that remain significant.
Survivors(ps, alpha) ==
  LET adjusted == benjaminiHochberg(ps) IN {i \in DOMAIN ps : adjusted[i] < 100 * alpha}

\* runStudy: the rules that clear, and whose p-value survives the correction across all rules that
\* have one.
Edges(clears, roiP, alpha) ==
  LET scored == Ascending({i \in DOMAIN roiP : roiP[i] # Null})
  IN  {scored[k] : k \in {n \in Survivors([n \in DOMAIN scored |-> roiP[scored[n]]], alpha) : clears[scored[n]]}}

\* ledger: the tests of every experiment ever made, as <<experiment, test>>, corrected together.
TestsOf(experiments) == UNION {{<<x, i>> : i \in DOMAIN experiments[x]} : x \in DOMAIN experiments}
Earlier(S) == {q \in S \X S : q[1][1] < q[2][1] \/ (q[1][1] = q[2][1] /\ q[1][2] <= q[2][2])}

ledger(experiments, alpha) ==
  LET all == TestsOf(experiments)
      tests == InOrder(all, Earlier(all))
      ps == [n \in DOMAIN tests |-> experiments[tests[n][1]][tests[n][2]]]
  IN  {tests[n] : n \in Survivors(ps, alpha)}

\* The tests of experiment x that survive the correction across all of them.
view(experiments, x, alpha) == {test \in ledger(experiments, alpha) : test[1] = x}

-----------------------------------------------------------------------------
\* Properties.

\* The rounds the rows stand for.
Stored == SelectSeq(rounds, LAMBDA r : r.lockTime # Null)

\* Every rule could have been traded as it is scored: its hypothesis and its direction depend on no
\* held-out result, and whether it bets on a round, and how, on no result a bettor could not know
\* then, that of the round before and the last bets on this one included (research.ts:4-5, 284-287).
RulesAreTradable ==
  LET m == Len(Stored)
      Unknown(r) == Timed(r) /\ r.closeTime > Stored[m].startTime
      Variant(shape) ==
        [j \in 1 .. m |-> IF Unknown(Stored[j]) THEN FinalRound(Stored[j].epoch, shape) ELSE Stored[j]]
      others == {all \in {Stored} \cup {Variant(shape) : shape \in Shapes} :
                   \A j \in 1 .. m : Unknown(Stored[j]) => Logged(all[j], events(all[j]))}
  IN  ~finished /\ m - 1 > Split(Stored) /\ others # {} =>
        Cardinality({Studies(Rows(other), Logs(other)) : other \in others}) = 1

\* A rule, or a control, is scored as a replay would have paid its bets, from the amounts as they
\* arrived: the same payouts, refunds and gas, and the same bets won; and what the house is said to
\* keep of a round is what its bettors cannot claim (summarizeBets, payoutStats; backtest.ts settle).
ScoredAsReplayed ==
  LET all == Rows(rounds)
      AsEntry(b) == Settled(Entry([direction |-> b[2], stake |-> StudyStake, asked |-> Null], Stored[b[1]], 0),
                            Stored[b[1]])
      Paid(r, side) == settledPayout(r, r.outcome, side, SideOf(r, side))
  IN  /\ \A bets \in {study[2] : study \in Studies(all, Logs(Stored))} \cup controls(all) :
           LET entries == [b \in bets |-> AsEntry(b)]
               score == summarizeBets(all, bets)
           IN  /\ score.net = Sum([b \in bets |-> tradeNetPnl(entries[b])], bets)
               /\ score.wins = Cardinality({b \in bets : entries[b].result = "WON"})
               /\ score.bets - score.resolved = Cardinality({b \in bets : entries[b].result = "REFUNDED"})
               /\ bets \in controls(all) => score.resolved = score.bets - outcomeDistribution(all)["CANCELLED"]
      /\ \A j \in DOMAIN all :
           HouseTake(all[j]) = Stored[j].bullAmount + Stored[j].bearAmount
                               - Paid(Rewarded(Stored[j]), "BULL") - Paid(Rewarded(Stored[j]), "BEAR")

\* Of the tests in `tested`, those in a set of tests each significant at the level of the set: alpha
\* for all, alpha / n for one of n alone.
InSignificantSet(p, tested, alpha) ==
  LET Significant(set) == \A i \in set : p[i] * Cardinality(tested) < alpha * Cardinality(set)
  IN  {i \in tested : \E set \in SUBSET tested : i \in set /\ Significant(set)}

\* Whatever p-values n rules may have: a rule is an edge exactly if it clears and is in such a set;
\* and so is a test of the ledger, however the tests are spread over experiments.
Corrected ==
  [n \in 1 .. MaxTests |->
     \A alpha \in {1, 5}, roiP \in [1 .. n -> PValues \cup {Null}] :
       LET scored == {i \in 1 .. n : roiP[i] # Null}
           significant == InSignificantSet(roiP, scored, alpha)
       IN  /\ \A clears \in [1 .. n -> BOOLEAN] :
                Edges(clears, roiP, alpha) = {i \in significant : clears[i]}
           /\ scored = 1 .. n =>
                \A cut \in 0 .. n :
                  LET experiments == <<SubSeq(roiP, 1, cut), SubSeq(roiP, cut + 1, n)>>
                  IN  /\ view(experiments, 1, alpha) = {<<1, i>> : i \in significant \cap (1 .. cut)}
                      /\ view(experiments, 2, alpha) = {<<2, i - cut>> : i \in significant \ (1 .. cut)}]

\* However many rules the study of a replay's rounds has bets for, and whatever p-values they get, none
\* is an edge for having been one of many, and none is lost for it; and the ledger of all experiments
\* forgets none of the tests made (statistics.ts, research.ts:4-7, services/research.ts ledger).
EdgesAreCorrected ==
  finished =>
    LET betting == {study \in Studies(Rows(rounds), Logs(Stored)) : study[2] # {}}
    IN  betting # {} => Corrected[Min({MaxTests, Cardinality(betting)})]
=============================================================================
