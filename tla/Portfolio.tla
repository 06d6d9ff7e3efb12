----------------------------- MODULE Portfolio ------------------------------
(***************************************************************************)
(* What is reported about a ledger (packages/core/src/portfolio.ts) and    *)
(* what the risk engine is told about it in paper and live mode            *)
(* (apps/server/src/services/riskState.ts).  A ledger is a sequence of     *)
(* trades, oldest first.                                                   *)
(***************************************************************************)
EXTENDS RoundRules, FiniteSets, SequencesExt

CONSTANT DaySeconds     \* seconds in a day

ASSUME DayAssumption == DaySeconds \in Nat \ {0}

utcDay(t) == t \div DaySeconds

Sum(f, S) == SumFunctionOnSet(f, S)

Nets(entries) == [n \in DOMAIN entries |-> OrZero(tradeNetPnl(entries[n]))]

-----------------------------------------------------------------------------
\* portfolio.ts.

\* The time at which entry e moves the realized equity.
RealizedAt(e) == IF e.status = "SETTLED" THEN e.settledAt ELSE e.placedAt

ByPlacement(entries) ==     \* fault: events in the order the trades were placed, newest first
  Reverse(SelectSeq(entries, LAMBDA e : e.status = "SETTLED"))

\* The trades that did: settled ones, and failed ones that burned gas; in the order they did.
realizedEvents(entries) ==
  LET moved == {n \in DOMAIN entries :
                  \/ entries[n].status = "SETTLED"
                  \/ entries[n].status = "FAILED" /\ tradeNetPnl(entries[n]) # 0}
      Before(m, n) == LET a == RealizedAt(entries[m]) b == RealizedAt(entries[n])
                      IN  a < b \/ (a = b /\ entries[m].epoch < entries[n].epoch)
                                \/ (a = b /\ entries[m].epoch = entries[n].epoch /\ m < n)
      order == SetToSortSeq(moved, Before)
  IN  [k \in DOMAIN order |-> entries[order[k]]]

\* The realized equity after each event.
Equity(events, start) == [k \in DOMAIN events |-> start + Sum(Nets(events), 1 .. k)]

Peak(equity, start, k) == Max({start} \cup {equity[j] : j \in 1 .. k})

\* The run of equal results among the decided events, refunds left out.
Runs(events, result) ==
  LET decided == SelectSeq(events, LAMBDA e : e.status = "SETTLED" /\ e.result \in {"WON", "LOST"})
  IN  {run \in (1 .. Len(decided)) \X (1 .. Len(decided)) :
         \A n \in run[1] .. run[2] : decided[n].result = result}

LongestRun(events, result) == Max({0} \cup {run[2] - run[1] + 1 : run \in Runs(events, result)})

currentStreak(events) ==
  LET decided == SelectSeq(events, LAMBDA e : e.status = "SETTLED" /\ e.result \in {"WON", "LOST"})
      same == {k \in DOMAIN decided : \A j \in k .. Len(decided) : decided[j].result = Last(decided).result}
  IN  [kind   |-> IF decided = <<>> THEN Null ELSE Last(decided).result,
       length |-> Cardinality(same)]

OpenTrades(trades) == {n \in DOMAIN trades : isOpenStatus(trades[n].status)}

Summary(entries, events, start) ==
  LET settled == {n \in DOMAIN events : events[n].status = "SETTLED"}
      equity == Equity(events, start)
      Count(result) == Cardinality({n \in settled : events[n].result = result})
      fee == [n \in DOMAIN events |-> OrZero(events[n].gasCost) + OrZero(events[n].claimGasCost)]
      gross == [n \in DOMAIN events |-> OrZero(tradeGrossPnl(events[n]))]
  IN  [settledTrades  |-> Cardinality(settled),
       openTrades     |-> Cardinality(OpenTrades(entries)),
       wins           |-> Count("WON"),
       losses         |-> Count("LOST"),
       refunds        |-> Count("REFUNDED"),
       totalWagered   |-> Sum([n \in DOMAIN events |-> events[n].amount], settled),
       openExposure   |-> Sum([n \in DOMAIN entries |-> entries[n].amount], OpenTrades(entries)),
       fees           |-> Sum(fee, DOMAIN events),
       netPnl         |-> Sum(gross, DOMAIN events) - Sum(fee, DOMAIN events),
       currentStreak  |-> currentStreak(events),
       longestLoss    |-> LongestRun(events, "LOST"),
       maxDrawdown    |-> Max({0} \cup {Peak(equity, start, k) - equity[k] : k \in DOMAIN equity})]

computeSummary(entries, startingBankroll) == Summary(entries, realizedEvents(entries), OrZero(startingBankroll))

\* Net P&L of the periods (days, say) that have an event; periodOf[n] is the n-th event's.
periods(events, periodOf) ==
  [p \in {periodOf[n] : n \in DOMAIN events} |-> Sum(Nets(events), {n \in DOMAIN events : periodOf[n] = p})]

\* The entries of every strategy, market or direction (the field) by themselves.
groupBy(entries, field) ==
  [k \in {entries[n][field] : n \in DOMAIN entries} |-> SelectSeq(entries, LAMBDA e : e[field] = k)]

\* Running total after the realized entry e: what the ledger view shows beside it.
annotateLedger(entries, start) ==
  LET events == realizedEvents(entries)
  IN  [epoch \in {events[n].epoch : n \in DOMAIN events} |->
         LET k == CHOOSE n \in DOMAIN events : events[n].epoch = epoch IN Equity(events, start)[k]]

\* How many of the values lie below the first edge, between each two, and from the last one on.
histogram(values, edges) ==
  LET Bucket(v) == Cardinality({i \in DOMAIN edges : v >= edges[i]})
  IN  [b \in 0 .. Len(edges) |-> Cardinality({n \in DOMAIN values : Bucket(values[n]) = b})]

\* The whole report.  Without a starting bankroll (Null) the curve is one of P&L only.
computePortfolio(entries, start, stakeEdges) ==
  LET events == realizedEvents(entries)
      level == Equity(events, OrZero(start))
      sides == groupBy(entries, "direction")
      placed == SelectSeq(entries, LAMBDA e : e.status # "FAILED")
  IN  [summary        |-> computeSummary(entries, start),
       byDirection    |-> [d \in DOMAIN sides |-> computeSummary(sides[d], Null)],
       daily          |-> periods(events, [n \in DOMAIN events |-> utcDay(RealizedAt(events[n]))]),
       equity         |-> [k \in DOMAIN events |->
                             [epoch         |-> events[k].epoch,
                              cumulativePnl |-> level[k] - OrZero(start),
                              bankroll      |-> IF start = Null THEN Null ELSE level[k],
                              drawdown      |-> Peak(level, OrZero(start), k) - level[k]]],
       stakeHistogram |-> histogram([n \in DOMAIN placed |-> placed[n].amount], stakeEdges)]

\* The points of an equity curve that are kept: about `most`, the first, last and deepest always.
downsample(points, most) ==
  LET N == Len(points)
      deepest == CHOOSE k \in 1 .. N : /\ \A j \in 1 .. N : points[j].drawdown <= points[k].drawdown
                                       /\ \A j \in 1 .. k - 1 : points[j].drawdown < points[k].drawdown
      stride == (N + most - 1) \div most
      kept == {1, N, deepest} \cup {k \in 1 .. N : (k - 1) % stride = 0}
      order == SetToSortSeq(kept, LAMBDA j, k : j < k)
  IN  IF N <= most THEN points ELSE [n \in DOMAIN order |-> points[order[n]]]

-----------------------------------------------------------------------------
\* services/portfolio.ts.

NotYetConfirmed(trades) ==     \* fault: a confirmed bet is no longer at risk
  Sum([n \in DOMAIN trades |-> trades[n].amount],
      {n \in OpenTrades(trades) : trades[n].status # "CONFIRMED"})

\* Stakes of the bets that may still be at risk.
exposureOf(trades) == Sum([n \in DOMAIN trades |-> trades[n].amount], OpenTrades(trades))

\* A paper stake and its gas leave the cash when the bet is placed, a payout is back once settled.
paperAccount(trades, start) ==
  LET placed == {n \in DOMAIN trades : trades[n].status # "FAILED"}
      settled == {n \in placed : trades[n].status = "SETTLED"}
      paid == [n \in DOMAIN trades |-> trades[n].amount + OrZero(trades[n].gasCost)]
      back == [n \in DOMAIN trades |-> OrZero(trades[n].payout) - OrZero(trades[n].claimGasCost)]
      cash == start - Sum(paid, placed) + Sum(back, settled)
  IN  [startingBankroll |-> start, balance |-> cash + exposureOf(trades), available |-> cash,
       exposure |-> exposureOf(trades), claimable |-> 0, realizedPnl |-> Sum(Nets(trades), settled)]

\* Of a live account the wallet's balance is known (or not: Null), and its start is inferred.
liveAccount(trades, balance) ==
  LET settled == {n \in DOMAIN trades : trades[n].status = "SETTLED"}
      unclaimed == {n \in settled : trades[n].claimStatus \in {"UNCLAIMED", "CLAIMING"}}
      claimable == Sum([n \in DOMAIN trades |-> OrZero(trades[n].payout)], unclaimed)
      realized == Sum(Nets(trades), {n \in DOMAIN trades : trades[n].status \in {"SETTLED", "FAILED"}})
  IN  [startingBankroll |-> IF balance = Null THEN Null
                            ELSE balance + exposureOf(trades) + claimable - realized,
       balance |-> balance, available |-> balance, exposure |-> exposureOf(trades),
       claimable |-> claimable, realizedPnl |-> realized]

\* The report of an account, or of a part of its trades (filtered), as the API returns it.
report(trades, account, filtered, stakeEdges, most) ==
  LET whole == computePortfolio(trades, IF filtered THEN Null ELSE account.startingBankroll, stakeEdges)
  IN  [whole EXCEPT !.equity = downsample(@, most)]

\* The row that is kept of an account from time to time.
snapshot(account, trades) ==
  LET s == computeSummary(trades, account.startingBankroll)
  IN  [balance |-> OrZero(account.balance), available |-> OrZero(account.available),
       deployed |-> account.exposure, claimable |-> account.claimable,
       realizedPnl |-> account.realizedPnl, drawdown |-> s.maxDrawdown, trades |-> s.settledTrades]

-----------------------------------------------------------------------------
\* riskState.ts: what counts against a strategy's next bet, at a time of the day `today`;
\* `own` are the strategy's trades.

ledgerStats(trades, own, today) ==
  LET net == Nets(trades)
      realized == {n \in DOMAIN trades : tradeNetPnl(trades[n]) # Null}
      mine == realized \cap own
      decided == {n \in mine : trades[n].status = "SETTLED" /\ trades[n].result # "REFUNDED"}
      lost == {n \in decided : trades[n].result = "LOST"}
      won == decided \ lost
      After(n) == \A m \in won : trades[m].epoch < trades[n].epoch
  IN  [dailyNet      |-> Sum(net, {n \in realized : utcDay(RealizedAt(trades[n])) >= today}),
       strategyNet   |-> Sum(net, mine),
       lossStreak    |-> Cardinality({n \in lost : After(n)}),
       lastLossEpoch |-> IF lost = {} THEN Null ELSE Max({trades[n].epoch : n \in lost})]
=============================================================================
