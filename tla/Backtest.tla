------------------------------ MODULE Backtest ------------------------------
(***************************************************************************)
(* The historical replay (packages/core/src/backtest.ts): the decision     *)
(* pipeline of paper and live run over final rounds, with a simulated      *)
(* execution.  One step replays one round for every strategy; the rounds   *)
(* come one at a time, in every order of outcomes, so that what a decision *)
(* may depend on can be told from what it may not.                         *)
(***************************************************************************)
EXTENDS Pipeline, Portfolio, CsvArchive

CONSTANTS
  Specs,             \* the strategies replayed: their configurations, by key
  GlobalLimits,      \* globalLimits
  StartingBankroll, GasPerBet, GasPerClaim, MinBet,
  Interval,          \* seconds from one round's start to the next one's
  Shapes,            \* bound: what can become of a round
  Warmups,           \* bound: markets by the format of their archive, with the shapes of the rounds
                     \* before tradeFromEpoch
  MaxRounds          \* bound: rounds, these included

\* As they were read back from the store.
ASSUME ConfigAssumption ==
  \A k \in DOMAIN Specs : /\ Specs[k] # Null /\ Specs[k].plugin \in Plugins
                           /\ parseStrategyConfig(Specs[k].plugin, Specs[k]) = Specs[k]
ASSUME LimitsAssumption == IsLimits(GlobalLimits)
ASSUME AmountsAssumption ==
  StartingBankroll \in Nat /\ GasPerBet \in Nat /\ GasPerClaim \in Nat /\ MinBet \in Nat
ASSUME TimesAssumption == Interval \in Nat \ {0} /\ MaxRounds \in Nat

\* Prices and amounts are unsigned; an archive holds a round once, twice, in two versions, damaged
\* or as it was before its end.
IsShape(shape) ==
  /\ DOMAIN shape = {"lockPrice", "closePrice", "called", "bull", "bear", "lines"}
  /\ {shape.lockPrice, shape.closePrice, shape.bull, shape.bear} \subseteq Nat
  /\ shape.called \in BOOLEAN
  /\ shape.lines \in {"one", "twice", "conflicting", "damaged", "unfinished"}

ASSUME ShapesAssumption == \A shape \in Shapes : IsShape(shape)
ASSUME WarmupsAssumption ==
  \A w \in Warmups : /\ w.format \in Formats /\ w.shapes \in Seq(Range(w.shapes))
                     /\ \A n \in DOMAIN w.shapes : IsShape(w.shapes[n])

Keys == DOMAIN Specs

VARIABLES
  market,     \* the format of the market's archive
  past,       \* what has become of every round so far
  rounds,     \* the rounds imported of them, oldest first
  sims,       \* sims[k]: the simulation of strategy k
  finished

vars == <<market, past, rounds, sims, finished>>

-----------------------------------------------------------------------------
\* A shape says what becomes of a round: its prices, whether the oracle was called before the
\* buffer ran out, its pool, and what its archive holds of it.

\* External: the round as the contract records it, which knows no outcome.
Tuple(epoch, shape) ==
  [epoch |-> epoch, startTime |-> epoch * Interval, lockTime |-> (epoch + 1) * Interval,
   closeTime |-> (epoch + 2) * Interval, lockPrice |-> shape.lockPrice,
   closePrice |-> IF shape.called THEN shape.closePrice ELSE 0, lockOracleId |-> epoch,
   oracleCalled |-> shape.called, bullAmount |-> shape.bull, bearAmount |-> shape.bear, outcome |-> Null]

\* The round as it is read from the chain once it is final.
FinalRound(epoch, shape) ==
  LET r == roundFromV2Tuple(Tuple(epoch, shape))
      afterwards == (epoch + 2) * Interval + BufferSeconds + 1
  IN  [r EXCEPT !.outcome = deriveOutcome(r, deriveRoundStatus(r, afterwards, BufferSeconds))]

\* External: the line an archive of the market should hold of it, and the lines it does hold.
Line(format, epoch, shape) ==
  LET t == Tuple(epoch, shape)
  IN  [columns |-> EXPECTED_COLUMNS[format], lastEmpty |-> FALSE, typed |-> TRUE, epoch |-> epoch,
       start |-> t.startTime, lock |-> t.lockTime, close |-> t.closeTime, lockPrice |-> t.lockPrice,
       closePrice |-> t.closePrice, lockOracleId |-> t.lockOracleId, total |-> t.bullAmount + t.bearAmount,
       bull |-> t.bullAmount, bear |-> t.bearAmount, oracleCalled |-> t.oracleCalled,
       completed |-> t.oracleCalled, cancelled |-> ~t.oracleCalled]

Lines(format, epoch, shape) ==
  LET line == Line(format, epoch, shape)
      padded == [line EXCEPT !.columns = @ + 1, !.lastEmpty = TRUE]
  IN  CASE shape.lines = "one" -> <<line>>
        [] shape.lines = "twice" -> <<padded, padded>>
        [] shape.lines = "conflicting" -> <<[line EXCEPT !.closePrice = @ + 5], line>>
        [] shape.lines = "damaged" -> <<[line EXCEPT !.typed = FALSE]>>
        [] shape.lines = "unfinished" -> <<[line EXCEPT !.start = 0, !.completed = FALSE, !.cancelled = FALSE]>>

Timed(r) == Null \notin {r.startTime, r.lockTime, r.closeTime}

LastDay == utcDay((2 * MaxRounds + 3) * Interval + BufferSeconds)

Limits(cfg) == mergeLimits(GlobalLimits, strategyLimitOverrides(cfg))

-----------------------------------------------------------------------------
\* Settling.  The pending trades of a simulation are its confirmed entries.

RoundAt(all, epoch) == all[CHOOSE n \in DOMAIN all : all[n].epoch = epoch]

Pending(sim) == {n \in DOMAIN sim.entries : sim.entries[n].status = "CONFIRMED"}

Settled(e, r) ==
  LET result == resultFor(r.outcome, e.direction)
  IN  [e EXCEPT !.status = "SETTLED", !.result = result, !.settledAt = knownAt(r),
                !.payout = simulatedPayout(r, r.outcome, e.direction, e.amount),
                !.claimGasCost = IF result = "LOST" THEN 0 ELSE GasPerClaim]

WinsForgotten(streak, won, lost) == streak + Cardinality(lost)     \* fault: a win does not reset it

\* The loss streak once the wins and losses of some entries have become known.
lossStreakAfter(streak, won, lost) ==
  IF won = {} THEN streak + Cardinality(lost) ELSE Cardinality({n \in lost : n > Max(won)})

\* The books of a simulation once the entries `due` are settled.
Booked(sim, entries, due) ==
  LET net == [n \in due |-> tradeNetPnl(entries[n])]
      back == [n \in due |-> entries[n].payout - entries[n].claimGasCost]
      won == {n \in due : entries[n].result = "WON"}
      lost == {n \in due : entries[n].result = "LOST"}
  IN  [sim EXCEPT
         !.entries = entries,
         !.cash = @ + Sum(back, due),
         !.exposure = @ - Sum([n \in due |-> entries[n].amount], due),
         !.netPnl = @ + Sum(net, due),
         !.daily = [d \in DOMAIN @ |-> @[d] + Sum(net, {n \in due : utcDay(entries[n].settledAt) = d})],
         !.lossStreak = lossStreakAfter(@, won, lost),
         !.lastLoss = IF lost = {} THEN @ ELSE entries[Max(lost)].epoch]

\* Settles the trades whose results are known at time t; all is the replay's list of rounds.
settleUpTo(sim, all, t) ==
  LET Round(n) == RoundAt(all, sim.entries[n].epoch)
      due == {n \in Pending(sim) : knownAt(Round(n)) <= t}
  IN  Booked(sim,
             [n \in DOMAIN sim.entries |->
                IF n \in due THEN Settled(sim.entries[n], Round(n)) ELSE sim.entries[n]],
             due)

-----------------------------------------------------------------------------
\* Deciding on the last round of `all`.

DecisionTime(cfg, round) == Max({round.startTime, round.lockTime - cfg.entrySeconds})

ContextAt(cfg, sim, all, now) ==
  LET round == Last(all)
      before == Front(all)
      live == IF before = <<>> THEN {} ELSE {r \in {Last(before)} : r.epoch = round.epoch - 1}
  IN  buildContext([now |-> now, epoch |-> round.epoch, history |-> before, live |-> live,
                    lookback |-> lookbackFor(cfg), ownTrades |-> sim.entries,
                    bankroll |-> sim.cash + sim.exposure, pool |-> Null])

RiskStateAt(sim, round, now) ==
  [bankroll |-> sim.cash + sim.exposure, available |-> sim.cash, exposure |-> sim.exposure,
   dailyNetPnl |-> sim.daily[utcDay(now)], strategyNetPnl |-> sim.netPnl,
   lossStreak |-> sim.lossStreak,
   roundsSinceLastLoss |-> IF sim.lastLoss = Null THEN Null ELSE round.epoch - sim.lastLoss,
   alreadyBetThisRound |-> FALSE, roundOpen |-> TRUE, secondsToLock |-> round.lockTime - now,
   gasPrice |-> Null, gasReserve |-> GasPerBet]

\* The decision of the strategy configured by cfg, its simulation settled up to the decision time.
DecisionAt(cfg, sim, all, now) ==
  decide([mode |-> "BACKTEST", config |-> cfg, limits |-> Limits(cfg),
          state |-> RiskStateAt(sim, Last(all), now), gates |-> <<>>, minBet |-> MinBet,
          pool |-> Null, costs |-> Null],
         evaluate(cfg.plugin, ContextAt(cfg, sim, all, now), cfg.params))

Entry(d, round, now) ==
  [epoch |-> round.epoch, direction |-> d.direction, amount |-> d.stake, placedAt |-> now,
   settledAt |-> Null, status |-> "CONFIRMED", result |-> Null, payout |-> Null,
   gasCost |-> GasPerBet, claimGasCost |-> Null, asked |-> d.asked]

\* Executing the decision d: the stake and its gas leave the cash at once.
Placed(sim, d, round, now) ==
  IF d.kind # "TRADE" THEN sim
  ELSE [sim EXCEPT !.cash = @ - (d.stake + GasPerBet), !.exposure = @ + d.stake,
                   !.entries = Append(@, Entry(d, round, now))]

Evaluate(cfg, sim, all) ==
  LET round == Last(all)
      now == DecisionTime(cfg, round)
      settled == settleUpTo(sim, all, now)
  IN  Placed(settled, DecisionAt(cfg, settled, all, now), round, now)

-----------------------------------------------------------------------------

NewSim ==
  [cash |-> StartingBankroll, exposure |-> 0, entries |-> <<>>, lossStreak |-> 0, lastLoss |-> Null,
   daily |-> [d \in 0 .. LastDay |-> 0], netPnl |-> 0]

\* The rounds before tradeFromEpoch are history only.
Init ==
  /\ \E w \in Warmups :
       /\ market = w.format /\ past = w.shapes
       /\ rounds = Imported(market, UNION {Range(Lines(market, n, past[n])) : n \in DOMAIN past})
  /\ sims = [k \in Keys |-> NewSim]
  /\ finished = FALSE

\* The round that comes next, if the import stored it, is one round of step(): one without its times
\* is passed over.
Step(shape) ==
  LET epoch == Len(past) + 1
      all == rounds \o Imported(market, Range(Lines(market, epoch, shape)))
      traded == all # rounds /\ Timed(Last(all))
  IN  /\ ~finished /\ epoch <= MaxRounds
      /\ past' = Append(past, shape)
      /\ rounds' = all
      /\ sims' = [k \in Keys |-> IF traded THEN Evaluate(Specs[k], sims[k], all) ELSE sims[k]]
      /\ UNCHANGED <<market, finished>>

\* The end of the list: whatever is pending is settled.
Finish ==
  LET end == (Last(rounds).epoch + 2) * Interval + BufferSeconds
  IN  /\ ~finished /\ Len(past) = MaxRounds
      /\ sims' = [k \in Keys |-> settleUpTo(sims[k], rounds, end)]
      /\ finished' = TRUE
      /\ UNCHANGED <<market, past, rounds>>

Next == Finish \/ \E shape \in Shapes : Step(shape)

Spec == Init /\ [][Next]_vars

-----------------------------------------------------------------------------
\* Properties.

\* The sections of the state, and no entry beyond the rounds read.
TypeOK ==
  /\ finished \in BOOLEAN /\ market \in Formats
  /\ \A n \in DOMAIN rounds : rounds[n].outcome \in Outcomes
  /\ \A k \in Keys :
       /\ sims[k].cash \in Int /\ sims[k].exposure \in Nat /\ sims[k].lossStreak \in Nat
       /\ sims[k].daily \in [0 .. LastDay -> Int]
       /\ \A n \in DOMAIN sims[k].entries : sims[k].entries[n].epoch <= Last(rounds).epoch

\* The round r with another result and another pool: its lock price may have been known.
Otherwise(r, shape) == FinalRound(r.epoch, [shape EXCEPT !.lockPrice = OrZero(r.lockPrice)])

\* The rounds of `all` with other results of the last one, and of those still open when strategy k
\* decided on it.
Hindsights(k, all) ==
  LET Open(r) == Timed(r) /\ r.closeTime > DecisionTime(Specs[k], Last(all))
  IN  {[n \in DOMAIN all |-> IF Open(all[n]) THEN Otherwise(all[n], shape) ELSE all[n]] : shape \in Shapes}

\* A replayed decision depends on nothing that was not known when it would have been taken: with
\* another result of the round bet on, and of any round still open at the decision time, the same
\* trades are settled and the same decision is made (context.ts, backtest.ts evaluate).
NoLookAhead ==
  [][Len(rounds') > Len(rounds) /\ Timed(Last(rounds')) =>
       \A k \in Keys : \A other \in Hindsights(k, rounds') : sims'[k] = Evaluate(Specs[k], sims[k], other)]_vars

\* A strategy's own limits never let through a bet the global limits forbid, whatever the
\* configuration, and no stake exceeds a global cap (mergeLimits, evaluateRisk).
GlobalLimitsHold ==
  \A k \in Keys : \A n \in DOMAIN sims[k].entries :
    WithinLimits(GlobalLimits, sims[k].entries[n].asked, sims[k].entries[n].amount)

\* The daily loss limit stops new bets, not the ones at risk: a day ends at most two losing bets
\* past it, the one decided last and the one still open then.  Refunds, which cost their gas and may
\* come late, are apart (evaluateRisk MAX_DAILY_LOSS, backtest.ts settle).
DailyLossBounded ==
  LET oneLoss == GlobalLimits.maxStake + GasPerBet + GasPerClaim
  IN  GlobalLimits.maxDailyLoss # 0 =>
        \A k \in Keys : \A d \in 0 .. LastDay :
          LET entries == sims[k].entries
              decided == {n \in DOMAIN entries : entries[n].result \in {"WON", "LOST"}}
          IN  Sum(Nets(entries), {n \in decided : utcDay(entries[n].settledAt) = d})
                > -(GlobalLimits.maxDailyLoss + 2 * oneLoss)

\* What is at risk is the pending stakes, and with the cash it is what the simulation started with and
\* its net result, short of the gas of the bets at risk.
EntryAmounts(entries) == [n \in DOMAIN entries |-> entries[n].amount]

Balanced(sim) ==
  /\ sim.exposure = Sum(EntryAmounts(sim.entries), Pending(sim))
  /\ sim.cash + sim.exposure + Cardinality(Pending(sim)) * GasPerBet = StartingBankroll + sim.netPnl

\* The running counters of a simulation say what the ledger says: paper and live judge the same
\* trades by the same streak, loss and P&L as the backtest did (riskState.ts ledgerStats), and no money
\* appears or is lost (backtest.ts settle, step).
JudgedAlike ==
  \A k \in Keys :
    LET sim == sims[k]
        today == Max({0} \cup {utcDay(sim.entries[n].settledAt) : n \in DOMAIN sim.entries \ Pending(sim)})
        stats == ledgerStats(sim.entries, DOMAIN sim.entries, today)
    IN  /\ stats.strategyNet = sim.netPnl /\ stats.dailyNet = sim.daily[today]
        /\ stats.lossStreak = sim.lossStreak /\ stats.lastLossEpoch = sim.lastLoss
        /\ Balanced(sim)

\* The drop from the highest level before it, by comparing every two points.
Drop(equity, start) ==
  LET level == [k \in 0 .. Len(equity) |-> IF k = 0 THEN start ELSE equity[k]]
  IN  Max({level[p[1]] - level[p[2]] : p \in {q \in (DOMAIN level) \X (DOMAIN level) : q[1] <= q[2]}})

\* The account a wallet would show with the same trades, the winnings of those in `unclaimed` not
\* yet claimed.
AsLive(sim, unclaimed) ==
  LET there == [n \in DOMAIN sim.entries |-> sim.entries[n].payout - sim.entries[n].claimGasCost]
  IN  liveAccount([n \in DOMAIN sim.entries |->
                     IF n \in unclaimed
                     THEN [sim.entries[n] EXCEPT !.claimGasCost = Null] @@ [claimStatus |-> "UNCLAIMED"]
                     ELSE sim.entries[n] @@ [claimStatus |-> "CLAIMED"]],
                  sim.cash - Sum(there, unclaimed))

\* A report's totals are the simulation's, and its parts add up to them.
TotalsAgree(sim, full) ==
  LET summary == full.summary
      NetOf(d) == full.byDirection[d].netPnl
  IN
  /\ summary.netPnl = sim.netPnl
  /\ \A d \in 0 .. LastDay : sim.daily[d] = IF d \in DOMAIN full.daily THEN full.daily[d] ELSE 0
  /\ summary.netPnl = Sum([d \in DOMAIN full.byDirection |-> NetOf(d)], DOMAIN full.byDirection)
  /\ summary.wins + summary.losses + summary.refunds = summary.settledTrades
  /\ Sum(full.stakeHistogram, DOMAIN full.stakeHistogram) = summary.settledTrades + summary.openTrades
  /\ summary.currentStreak.kind = "LOST" <=> sim.lossStreak > 0
  /\ sim.lossStreak > 0 => summary.currentStreak.length = sim.lossStreak
  /\ summary.longestLoss >= sim.lossStreak

\* Its curve ends where the simulation does, and what is left out of it keeps the deepest point.
CurveAgrees(sim, full, part, equity, ends) ==
  /\ full.summary.maxDrawdown = Drop(equity, StartingBankroll)
  /\ equity # <<>> =>
       /\ Last(equity) = StartingBankroll + sim.netPnl
       /\ ends = Last(equity)
       /\ Last(full.equity).bankroll = Last(equity)
       /\ full.summary.maxDrawdown = Max({full.equity[n].drawdown : n \in DOMAIN full.equity})
       /\ \A n \in DOMAIN part.equity : /\ part.equity[n].bankroll = Null
                                        /\ part.equity[n].cumulativePnl = equity[n] - StartingBankroll

\* So does an account with the same trades, its report, and what is kept of both.
AccountAgrees(sim, account) ==
  LET full == report(sim.entries, account, FALSE, <<3, 5>>, 2)
      events == realizedEvents(sim.entries)
  IN  /\ account.available = sim.cash /\ account.exposure = sim.exposure /\ account.realizedPnl = sim.netPnl
      /\ TotalsAgree(sim, full)
      /\ CurveAgrees(sim, full, report(sim.entries, account, TRUE, <<3, 5>>, MaxRounds),
                     Equity(events, StartingBankroll),
                     annotateLedger(sim.entries, StartingBankroll)[Last(events).epoch])
      /\ snapshot(account, sim.entries).drawdown = full.summary.maxDrawdown

\* None is lost between the simulation and what is reported of it either: a paper account with the same
\* trades holds the same, and the parts of its report add up to the whole; a live one, whatever it has still to claim, is inferred to have started with what it did,
\* short of the gas of the bets at risk (settle, computePortfolio, paperAccount, liveAccount).
ReportAgrees ==
  \A k \in Keys :
    LET sim == sims[k]
        toClaim == {n \in DOMAIN sim.entries \ Pending(sim) : sim.entries[n].payout > 0}
    IN  /\ AccountAgrees(sim, paperAccount(sim.entries, StartingBankroll))
        /\ \A unclaimed \in {{}, toClaim} :
             AsLive(sim, unclaimed).startingBankroll = StartingBankroll - GasPerBet * Cardinality(Pending(sim))

\* External: what the contract would have recorded of the round with a stake of s on d in its pool.
WithBet(r, d, s) ==
  [rewardAmount |-> Reward(r.bullAmount + r.bearAmount + s),
   rewardBase   |-> CASE r.outcome = d -> SideOf(r, d) + s
                      [] r.outcome = opposite(d) -> SideOf(r, opposite(d))
                      [] OTHER -> 0]

\* Whatever the archive made of a round, a simulated bet on it is paid to the unit what the contract
\* would have paid it, had it been placed: duplicate, damaged and contradicting lines included.
PaidLikeTheContract ==
  \A k \in Keys : \A n \in DOMAIN sims[k].entries \ Pending(sims[k]) :
    LET e == sims[k].entries[n]
        r == FinalRound(e.epoch, past[e.epoch])
    IN  e.payout = settledPayout(WithBet(r, e.direction, e.amount), r.outcome, e.direction, e.amount)

RecoveryKeys == {k \in Keys : Specs[k].plugin = "sequence-recovery"}

\* The bets settled before the n-th one was placed, among those the strategy was shown then.
ShownTo(all, n) ==
  {m \in 1 .. n - 1 : /\ n - m <= OWN_TRADES_LOOKBACK
                      /\ all[m].settledAt # Null /\ all[m].settledAt <= all[n].placedAt}

\* The losses among them that no win has followed.
LostBefore(all, n) ==
  LET won == {m \in ShownTo(all, n) : all[m].result = "WON"}
  IN  {m \in ShownTo(all, n) : all[m].result = "LOST" /\ \A w \in won : w < m}

\* Once a ladder is exhausted, no bet follows within the cooldown, as far back as the strategy sees
\* its own trades (recoveryStatus, OWN_TRADES_LOOKBACK).
CooldownKept ==
  \A k \in RecoveryKeys :
    LET all == sims[k].entries
        p == Specs[k].params
    IN  \A n \in DOMAIN all :
          LET lost == LostBefore(all, n)
          IN  Cardinality(lost) >= p.maxRecoverySteps => all[n].epoch - all[Max(lost)].epoch > p.recoveryCooldownRounds

\* What strategy k would be shown if the round after the last one were decided now.
ContextNow(k) ==
  LET next == FinalRound(Last(rounds).epoch + 1, CHOOSE shape \in Shapes : TRUE)
  IN  ContextAt(Specs[k], sims[k], Append(rounds, next), DecisionTime(Specs[k], next))

MirrorOutcome(o) == IF o \in Directions THEN opposite(o) ELSE o

\* A market with every direction, and every price movement, the other way round.
Mirror(c) ==
  [c EXCEPT !.history = [n \in DOMAIN @ |->
                           [outcome |-> MirrorOutcome(@[n].outcome),
                            closePrice |-> IF @[n].closePrice = Null THEN Null ELSE 200 - @[n].closePrice]],
            !.ownTrades = [n \in DOMAIN @ |-> [@[n] EXCEPT !.direction = opposite(@)]]]

MirrorAction(a) == CASE a = "BUY_UP" -> "BUY_DOWN" [] a = "BUY_DOWN" -> "BUY_UP" [] OTHER -> a

FixedSide(k) == Specs[k].plugin = "sequence-recovery"
                /\ Specs[k].params.initialDirection \in {"FIXED_UP", "FIXED_DOWN"}

\* No strategy prefers a side of its own: in the mirrored market, with its own trades mirrored, it
\* gives the mirrored signal at the same confidence and stake (builtins.ts, sequenceStrategies.ts).
\* This is so of parameters that require an edge: at exactly even odds and with none required, the
\* code bets down.  It is so, besides, once there is a decided round to look at: without any, the
\* recovery ladder begins by betting up, whatever the market (sequenceStrategies.ts:508).
Impartial ==
  \A k \in Keys \ {j \in Keys : FixedSide(j)} :
    LET c == ContextNow(k)
        Signal(context) == evaluate(Specs[k].plugin, context, Specs[k].params)
    IN  toSequence(c.history) # <<>> => Signal(Mirror(c)) = [Signal(c) EXCEPT !.action = MirrorAction(@)]
=============================================================================
