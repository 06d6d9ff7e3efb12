---------------------------- MODULE Engine_proofs -----------------------------
(***************************************************************************)
(* Proofs about the strategy engine, for any number of processes,          *)
(* strategies, rounds, evaluations at once and faults, any configuration   *)
(* loadConfig accepts and whatever the strategies answer.                  *)
(*                                                                         *)
(* Every bet is explained: only the recording of a decision touches the    *)
(* pairing of decisions and bets; it does so in one transaction, and only  *)
(* where the round had none.  Whatever happens to a bet afterwards keeps   *)
(* its row.                                                                *)
(*                                                                         *)
(* The exposure limits: a decision keeps the exposure its evaluation read  *)
(* and its stake within the limit, but the ledger goes on changing.  What  *)
(* the inductive invariant Inv says of that differs between the modes.     *)
(* Live, one bet per round is placed and none is sent once its round has   *)
(* locked, so that all an evaluation can have missed is bets it competes   *)
(* with or that are never sent.  On paper nothing holds a bet back, and    *)
(* what the evaluations under way may still stake is counted beside what   *)
(* is staked: at most a stake each.                                        *)
(***************************************************************************)
EXTENDS Engine, Pipeline_proofs

-----------------------------------------------------------------------------
\* Decisions and their bets.

\* The key of an evaluation has no decision yet: the first is recorded.
LEMMA FirstDecision ==
  ASSUME NEW t, NEW kind, DecisionFree(t)
  PROVE  /\ DOMAIN Recorded(t, kind) = DOMAIN decisions \cup {Of(t)}
         /\ Recorded(t, kind)[Of(t)] = <<kind>>
         /\ \A of \in DOMAIN decisions : Recorded(t, kind)[of] = decisions[of]
<1>1. Recorded(t, kind) = With(decisions, Of(t), <<kind>>)
  BY DEF Recorded, DecisionFree
<1>2. Of(t) \notin DOMAIN decisions
  BY DEF DecisionFree, Decided
<1>. QED  BY <1>1, <1>2 DEF With

\* A decision not to trade is recorded and no bet.
LEMMA NoBetRecorded ==
  ASSUME EveryBetExplained, NEW t, NEW kind, DecisionFree(t), kind # "TRADE",
         decisions' = Recorded(t, kind), DOMAIN trades' = DOMAIN trades
  PROVE  EveryBetExplained'
<1>1. /\ DOMAIN decisions' = DOMAIN decisions \cup {Of(t)}
      /\ decisions'[Of(t)] = <<kind>>
      /\ \A of \in DOMAIN decisions : decisions'[of] = decisions[of]
      /\ Of(t) \notin DOMAIN decisions
  BY FirstDecision DEF DecisionFree, Decided
<1>2. Len(<<kind>>) = 1 /\ <<kind>>[1] # "TRADE"
  OBVIOUS
<1>3. {of \in DOMAIN decisions' : decisions'[of][1] = "TRADE"}
        = {of \in DOMAIN decisions : decisions[of][1] = "TRADE"}
  BY <1>1, <1>2
<1>. QED  BY <1>1, <1>2, <1>3 DEF EveryBetExplained

\* A decision to trade is recorded with its bet.
LEMMA BetRecorded ==
  ASSUME EveryBetExplained, NEW t, NEW row, DecisionFree(t),
         decisions' = Recorded(t, "TRADE"), trades' = With(trades, Of(t), row)
  PROVE  EveryBetExplained'
<1>1. /\ DOMAIN decisions' = DOMAIN decisions \cup {Of(t)}
      /\ decisions'[Of(t)] = <<"TRADE">>
      /\ \A of \in DOMAIN decisions : decisions'[of] = decisions[of]
      /\ Of(t) \notin DOMAIN decisions
  BY FirstDecision DEF DecisionFree, Decided
<1>2. Len(<<"TRADE">>) = 1 /\ <<"TRADE">>[1] = "TRADE"
  OBVIOUS
<1>3. DOMAIN trades' = DOMAIN trades \cup {Of(t)}
  BY DEF With
<1>4. {of \in DOMAIN decisions' : decisions'[of][1] = "TRADE"}
        = {of \in DOMAIN decisions : decisions[of][1] = "TRADE"} \cup {Of(t)}
  BY <1>1, <1>2
<1>. QED  BY <1>1, <1>2, <1>3, <1>4 DEF EveryBetExplained

\* place and what it does when the transaction is undone.
LEMMA RecordingExplains ==
  ASSUME EveryBetExplained, NEW t, Place(t) \/ RecordRejected(t)
  PROVE  EveryBetExplained'
<1>1. CASE Place(t)
  <2>. DEFINE d == tasks[t].decision
  <2>1. CASE UNCHANGED <<trades, decisions>>
    BY <2>1 DEF EveryBetExplained
  <2>2. CASE /\ DecisionFree(t) /\ decisions' = Recorded(t, d.kind)
             /\ trades' = IF d.kind = "TRADE" THEN With(trades, Of(t), Row(t, d)) ELSE trades
    <3>1. CASE d.kind = "TRADE"
      BY <2>2, <3>1, BetRecorded
    <3>2. CASE d.kind # "TRADE"
      BY <2>2, <3>2, NoBetRecorded
    <3>. QED  BY <3>1, <3>2
  <2>. QED  BY <1>1, <2>1, <2>2 DEF Place
<1>2. CASE RecordRejected(t)
  <2>1. CASE DecisionFree(t)
    BY <1>2, <2>1, NoBetRecorded DEF RecordRejected
  <2>2. CASE ~DecisionFree(t)
    BY <1>2, <2>2 DEF RecordRejected, EveryBetExplained
  <2>. QED  BY <2>1, <2>2
<1>. QED  BY <1>1, <1>2

\* What becomes of a bet once it is in the ledger changes its row and adds none.
LEMMA LedgerKeepsRows ==
  ASSUME Ledger
  PROVE  DOMAIN trades' = DOMAIN trades /\ decisions' = decisions
<1>1. PICK n \in DOMAIN trades :
        \/ \E head \in {Well} \cup Heads : Sent(n, head)
        \/ \E yes \in BOOLEAN : applyReceipt(n, yes) \/ FromLedger(n, yes)
        \/ Settle(n)
  BY DEF Ledger
<1>2. ASSUME NEW head, Sent(n, head)
      PROVE  DOMAIN trades' = DOMAIN trades /\ decisions' = decisions
  BY <1>2 DEF Sent, Fails
<1>3. ASSUME NEW yes, applyReceipt(n, yes) \/ FromLedger(n, yes)
      PROVE  DOMAIN trades' = DOMAIN trades /\ decisions' = decisions
  BY <1>3 DEF applyReceipt, FromLedger, Fails
<1>4. CASE Settle(n)
  BY <1>4 DEF Settle
<1>. QED  BY <1>1, <1>2, <1>3, <1>4

\* Every other step leaves both alone.
LEMMA OthersKeep ==
  ASSUME Next, ~Ledger, \A t \in DOMAIN tasks : ~Place(t) /\ ~RecordRejected(t)
  PROVE  UNCHANGED <<trades, decisions>>
<1>1. ASSUME NEW t \in DOMAIN tasks, Evaluation(t)
      PROVE  UNCHANGED <<trades, decisions>>
  <2>1. CheckExists(t) \/ ReadLedger(t) \/ ReadFails(t) => UNCHANGED <<trades, decisions>>
    BY DEF CheckExists, ReadLedger, ReadFails
  <2>2. Decide(t) => UNCHANGED <<trades, decisions>>
    BY DEF Decide
  <2>. QED  BY <1>1, <2>1, <2>2 DEF Evaluation
<1>2. ASSUME NEW w, NEW k, NEW mode, Begin(w, k, mode) \/ Crash(w) \/ SetFlags(k, mode)
      PROVE  UNCHANGED <<trades, decisions>>
  BY <1>2 DEF Begin, Crash, SetFlags
<1>3. NextRound \/ Operate \/ Seed => UNCHANGED <<trades, decisions>>
  BY DEF NextRound, Operate, Seed
<1>. QED  BY <1>1, <1>2, <1>3 DEF Next

\* So every step keeps the pairing.
LEMMA ExplainedStep ==
  ASSUME EveryBetExplained, Next
  PROVE  EveryBetExplained'
<1>1. CASE \E t \in DOMAIN tasks : Place(t) \/ RecordRejected(t)
  BY <1>1, RecordingExplains
<1>2. CASE Ledger
  BY <1>2, LedgerKeepsRows DEF EveryBetExplained
<1>3. CASE UNCHANGED <<trades, decisions>>
  BY <1>3 DEF EveryBetExplained
<1>. QED  BY <1>1, <1>2, <1>3, OthersKeep

\* Overlapping ticks, manual orders, two processes and crashes leave one decision per strategy, mode
\* and round, and a bet for exactly the decisions to trade.
THEOREM BetsExplained == Spec => []EveryBetExplained
<1>1. Init => EveryBetExplained
  BY DEF Init, EveryBetExplained
<1>2. EveryBetExplained /\ [Next]_vars => EveryBetExplained'
  <2>1. EveryBetExplained /\ UNCHANGED vars => EveryBetExplained'
    BY DEF vars, EveryBetExplained
  <2>. QED  BY <2>1, ExplainedStep
<1>. QED  BY <1>1, <1>2, PTL DEF Spec

-----------------------------------------------------------------------------
\* What a decision to bet is bounded by.

\* What loadConfig makes of an environment it accepts.
LEMMA ConfigTyped ==
  /\ {GlobalLimits.maxStake, GlobalLimits.minStake, GlobalLimits.escalationStake,
      GlobalLimits.maxExposure, GlobalLimits.bankrollFraction} \subseteq Nat
  /\ GlobalLimits.maxStake <= GlobalLimits.maxExposure
  /\ {StartingBankroll, GasPerBet, GasPerClaim} \subseteq Nat
<1>. DEFINE e == cleaned(Env) @@ defaults
<1>1. /\ DOMAIN e = DOMAIN schema
      /\ \A k \in DOMAIN e : e[k] \in schema[k]
      /\ issues(e) = {}
  BY EnvAssumption, Zenon DEF config, loadConfig
<1>2. config # Null =>
      /\ config.paperStartingBankroll = e.PAPER_STARTING_BANKROLL
      /\ config.gasPerBet = e.SIMULATED_GAS_PER_BET /\ config.gasPerClaim = e.SIMULATED_GAS_PER_CLAIM
      /\ config.risk.maxStake = e.MAX_BET_SIZE /\ config.risk.minStake = e.MIN_BET_SIZE
      /\ config.risk.escalationStake = e.ESCALATION_STAKE_THRESHOLD
      /\ config.risk.bankrollFraction = e.MAX_BANKROLL_FRACTION
      /\ config.risk.maxExposure = e.MAX_TOTAL_EXPOSURE
  <2>. HIDE DEF e
  <2>. QED  BY <1>1 DEF config, loadConfig, e
<1>. HIDE DEF e
<1>3. ASSUME NEW k \in Stakes
      PROVE  k \in DOMAIN schema /\ schema[k] = Nat
  BY DEF schema
<1>4. "MAX_BANKROLL_FRACTION" \in DOMAIN schema /\ schema["MAX_BANKROLL_FRACTION"] = 0 .. FractionScale
  <2>1. "MAX_BANKROLL_FRACTION" \in DOMAIN Settings /\ Settings["MAX_BANKROLL_FRACTION"] = 0 .. FractionScale
    BY DEF Settings
  <2>2. "MAX_BANKROLL_FRACTION" \notin Stakes
    BY DEF Stakes
  <2>. QED  BY <2>1, <2>2 DEF schema
<1>5. \A k \in Stakes : e[k] \in Nat
  BY <1>1, <1>3
<1>6. e.MAX_BANKROLL_FRACTION \in Nat
  BY <1>1, <1>4, ScaleAssumption
<1>7. ~(e.MAX_BET_SIZE > e.MAX_TOTAL_EXPOSURE)
  <2>. SUFFICES ASSUME e.MAX_BET_SIZE > e.MAX_TOTAL_EXPOSURE
                PROVE  issues(e) # {}
    BY <1>1
  <2>1. "exposure" \in issues(e)
    BY DEF issues
  <2>. QED  BY <2>1
<1>8. {"PAPER_STARTING_BANKROLL", "SIMULATED_GAS_PER_BET", "SIMULATED_GAS_PER_CLAIM", "MAX_BET_SIZE",
       "MIN_BET_SIZE", "ESCALATION_STAKE_THRESHOLD", "MAX_TOTAL_EXPOSURE"} \subseteq Stakes
  BY DEF Stakes
<1>9. /\ e.PAPER_STARTING_BANKROLL \in Nat
      /\ e.SIMULATED_GAS_PER_BET \in Nat /\ e.SIMULATED_GAS_PER_CLAIM \in Nat
      /\ e.MAX_BET_SIZE \in Nat /\ e.MIN_BET_SIZE \in Nat /\ e.ESCALATION_STAKE_THRESHOLD \in Nat
      /\ e.MAX_TOTAL_EXPOSURE \in Nat
  BY <1>5, <1>8
<1>. QED  BY <1>2, <1>6, <1>7, <1>9, EnvAssumption
          DEF GlobalLimits, StartingBankroll, GasPerBet, GasPerClaim

\* A strategy of the run has a configuration that parseStrategyConfig accepts.
LEMMA StrategyTyped ==
  ASSUME NEW k \in DOMAIN Specs
  PROVE  LET cfg == Specs[k].config
             o == strategyLimitOverrides(cfg)
         IN  /\ cfg.sizing.fixed \in Nat /\ cfg.sizing.fraction \in Nat
             /\ {o.maxStake, o.maxExposure, o.bankrollFraction, o.escalationStake} \subseteq Optional
<1>. DEFINE cfg == Specs[k].config
            o == strategyLimitOverrides(cfg)
<1>1. ValidConfig(cfg)
  BY SpecsAssumption, Zenon DEF parseStrategyConfig
<1>. HIDE DEF cfg
<1>2. cfg.sizing.fixed \in Nat /\ cfg.sizing.fraction \in Nat
  BY <1>1, ScaleAssumption DEF ValidConfig
<1>3. o.maxStake \in Optional /\ o.maxExposure \in Optional /\ o.bankrollFraction \in Optional
      /\ o.escalationStake \in Optional
  <2>1. \A q \in DOMAIN cfg.limits : cfg.limits[q] \in Nat
    BY <1>1 DEF ValidConfig
  <2>2. \A q \in LimitKeys \cup GlobalOnly : q # "minSeconds" => o[q] \in Optional
    BY <2>1 DEF strategyLimitOverrides, Optional
  <2>. HIDE DEF o
  <2>. QED  BY <2>2 DEF LimitKeys, GlobalOnly
<1>. QED  BY <1>2, <1>3 DEF cfg

\* The fields of the limits a strategy is decided under that bound a stake.
LEMMA MergedTyped ==
  ASSUME NEW k \in DOMAIN Specs
  PROVE  LET l == mergeLimits(GlobalLimits, strategyLimitOverrides(Specs[k].config))
         IN  /\ l.maxStake \in Nat /\ l.maxStake <= GlobalLimits.maxStake
             /\ l.maxExposure \in Nat /\ l.maxExposure <= GlobalLimits.maxExposure
             /\ l.bankrollFraction \in Nat /\ l.minStake \in Nat /\ l.escalationStake \in Nat
<1>. DEFINE g == GlobalLimits
            o == strategyLimitOverrides(Specs[k].config)
            l == mergeLimits(g, o)
<1>1. /\ g.maxStake \in Nat /\ g.maxExposure \in Nat /\ g.bankrollFraction \in Nat
      /\ g.minStake \in Nat /\ g.escalationStake \in Nat
  BY ConfigTyped
<1>2. /\ o.maxStake \in Optional /\ o.maxExposure \in Optional /\ o.bankrollFraction \in Optional
      /\ o.escalationStake \in Optional
  BY StrategyTyped
<1>. HIDE DEF g, o
<1>3. /\ l.maxStake = minNullable(g.maxStake, o.maxStake)
      /\ l.maxExposure = minNullable(g.maxExposure, o.maxExposure)
      /\ l.bankrollFraction = minNullable(g.bankrollFraction, o.bankrollFraction)
      /\ l.minStake = g.minStake
      /\ l.escalationStake = minPositive(g.escalationStake, o.escalationStake)
  BY DEF mergeLimits
<1>. HIDE DEF l
<1>4. /\ l.maxStake \in Nat /\ l.maxStake <= g.maxStake
      /\ l.maxExposure \in Nat /\ l.maxExposure <= g.maxExposure
      /\ l.bankrollFraction \in Nat
  <2>1. \A a \in {g.maxStake, g.maxExposure, g.bankrollFraction} : a \in Optional /\ a # Null
    BY <1>1, NullAssumption DEF Optional
  <2>2. /\ l.maxStake \in Nat /\ l.maxStake <= g.maxStake
        /\ l.bankrollFraction \in Nat
    BY <1>2, <1>3, <2>1, MinNullableTightens
  <2>3. l.maxExposure \in Nat /\ l.maxExposure <= g.maxExposure
    BY <1>2, <1>3, <2>1, MinNullableTightens
  <2>. QED  BY <2>2, <2>3
<1>5. l.escalationStake \in Nat /\ l.minStake \in Nat
  BY <1>1, <1>2, <1>3, MinPositiveTightens
<1>. QED  BY <1>4, <1>5 DEF g, o, l

\* computeStake.
LEMMA AskedTyped ==
  ASSUME NEW sizing, sizing.fixed \in Nat, sizing.fraction \in Nat, NEW bankroll \in Int,
         NEW signal \in Signals
  PROVE  computeStake(sizing, bankroll, signal) \in Int
<1>1. Max({0, bankroll}) \in Int
  <2>1. \E x \in {0, bankroll} : \A y \in {0, bankroll} : x >= y
    BY bankroll >= 0 \/ bankroll < 0
  <2>. QED  BY <2>1 DEF Max
<1>2. mulWeiByFraction(Max({0, bankroll}), sizing.fraction) \in Int
  BY <1>1, FractionTyped
<1>. QED  BY <1>2, SignalsAssumption DEF computeStake

\* What the risk engine promises of a bet an evaluation decides on: MIN_BET, MAX_STAKE, MAX_EXPOSURE and
\* SUFFICIENT_BALANCE, under the global limits.
Bounded(s, stake) ==
  /\ stake \in Nat /\ stake > 0 /\ stake <= GlobalLimits.maxStake
  /\ s.exposure + stake <= GlobalLimits.maxExposure
  /\ s.available >= stake + s.gasReserve

\* A decision to bet is bounded by the limits and by what its evaluation read.
LEMMA DecidedIsBounded ==
  ASSUME NEW t \in DOMAIN tasks, t[2] \in DOMAIN Specs, NEW signal \in Signals,
         tasks[t].state.bankroll \in Int, tasks[t].state.exposure \in Int,
         decide(Request(t), signal).kind = "TRADE"
  PROVE  Bounded(tasks[t].state, decide(Request(t), signal).stake)
<1>. DEFINE i == Request(t)
            s == tasks[t].state
            cfg == Specs[t[2]].config
            l == mergeLimits(GlobalLimits, strategyLimitOverrides(cfg))
            d == signalDirection(signal.action)
            intended == computeStake(cfg.sizing, s.bankroll, signal)
            asked == [mode |-> i.mode, stake |-> intended, confidence |-> signal.confidence,
                edge |-> IF i.pool = Null THEN Null
                         ELSE expectedValue(signal.confidence, d, i.pool, intended, i.costs),
                minBet |-> i.minBet, limits |-> i.limits, state |-> i.state, gates |-> i.gates]
            stake == Stake(l, s, intended)
<1>1. i.config = cfg /\ i.state = s /\ i.limits = l
  BY DEF Request
<1>2. evaluateRisk(asked).approved /\ decide(Request(t), signal).stake = evaluateRisk(asked).stake
  BY <1>1, Zenon DEF decide, NoTrade
<1>3. evaluateRisk(asked).stake = stake /\ Approved(l, asked, stake) /\ asked.state = s
  BY <1>1, <1>2 DEF evaluateRisk
<1>4. /\ l.maxStake \in Nat /\ l.maxStake <= GlobalLimits.maxStake
      /\ l.maxExposure \in Nat /\ l.maxExposure <= GlobalLimits.maxExposure
      /\ l.bankrollFraction \in Nat /\ l.minStake \in Nat /\ l.escalationStake \in Nat
  BY MergedTyped
<1>5. intended \in Int
  BY StrategyTyped, AskedTyped
<1>6. stake \in Int /\ stake <= l.maxStake
  <2>. HIDE DEF l, s, intended
  <2>. QED  BY <1>4, <1>5, StakeTyped DEF s
<1>. HIDE DEF stake, asked, l
<1>7. \A rule \in Rules : Passes(rule, l, asked, stake)
  BY <1>3 DEF Approved
<1>8. {"MIN_BET", "MAX_EXPOSURE", "SUFFICIENT_BALANCE"} \subseteq Rules
  BY DEF Rules
<1>9. stake > 0
  BY <1>7, <1>8 DEF Passes
<1>10. s.exposure + stake <= l.maxExposure
  <2>1. Passes("MAX_EXPOSURE", l, asked, stake)
    BY <1>7, <1>8
  <2>. QED  BY <2>1, <1>3 DEF Passes
<1>11. s.available >= stake + s.gasReserve
  <2>1. Passes("SUFFICIENT_BALANCE", l, asked, stake)
    BY <1>7, <1>8
  <2>. QED  BY <2>1, <1>3 DEF Passes
<1>12. GlobalLimits.maxStake \in Nat /\ GlobalLimits.maxExposure \in Nat
  BY ConfigTyped
<1>. QED  BY <1>2, <1>3, <1>4, <1>6, <1>9, <1>10, <1>11, <1>12 DEF Bounded

-----------------------------------------------------------------------------
\* The ledger, and what an evaluation reads of it.

\* A row of the ledger.
IsRow(r) ==
  /\ {"status", "payout", "gasCost", "claimGasCost"} \subseteq DOMAIN r
  /\ r.mode \in {"PAPER", "LIVE"} /\ r.epoch \in Nat /\ r.amount \in Nat
  /\ {r.payout, r.gasCost, r.claimGasCost} \subseteq Optional
  /\ r.status = "SETTLED" => r.payout \in Nat
  /\ r.status = "PENDING" => r.mode = "LIVE"

\* The ledger is finite and of such rows.
RowsTyped == IsFiniteSet(DOMAIN trades) /\ \A n \in DOMAIN trades : IsRow(trades[n])

\* The stakes.
AmountOf == [n \in DOMAIN trades |-> trades[n].amount]

\* The bets of a mode that count for its exposure.
Exposed(mode) == {n \in DOMAIN trades : trades[n].mode = mode /\ trades[n].status \in AtRisk}

\* The P&L of a row that has one.
LEMMA NetTyped ==
  ASSUME NEW r, IsRow(r), r.status \in {"SETTLED", "FAILED"}
  PROVE  tradeNetPnl(r) \in Int
<1>1. OrZero(r.gasCost) \in Int /\ OrZero(r.claimGasCost) \in Int
  BY NullAssumption DEF IsRow, Optional, OrZero
<1>. QED  BY <1>1, NullAssumption DEF IsRow, tradeNetPnl, tradeGrossPnl, OrZero

\* The wallet holds an amount, which may be below zero for all the proof needs to know.
LEMMA BalanceTyped ==
  ASSUME RowsTyped
  PROVE  WalletBalance \in Int
<1>. DEFINE ledger == OfMode("LIVE")
            Spent(n) == CASE ledger[n].status \in {"SETTLED", "FAILED"} -> -tradeNetPnl(ledger[n])
                          [] ledger[n].status = "CONFIRMED" -> ledger[n].amount + OrZero(ledger[n].gasCost)
                          [] OTHER -> 0
            spent == [n \in DOMAIN ledger |-> Spent(n)]
<1>1. DOMAIN ledger \in SUBSET DOMAIN trades /\ \A n \in DOMAIN ledger : ledger[n] = trades[n]
  BY DEF OfMode, Restrict
<1>2. IsFiniteSet(DOMAIN ledger)
  BY <1>1, FS_Subset DEF RowsTyped
<1>. HIDE DEF ledger
<1>3. ASSUME NEW n \in DOMAIN ledger
      PROVE  Spent(n) \in Int
  <2>1. IsRow(ledger[n])
    BY <1>1 DEF RowsTyped
  <2>2. ledger[n].amount \in Int /\ OrZero(ledger[n].gasCost) \in Int
    BY <2>1, NullAssumption DEF IsRow, Optional, OrZero
  <2>. QED  BY <2>1, <2>2, NetTyped
<1>4. \A n \in DOMAIN ledger : spent[n] \in Int
  BY <1>3
<1>5. Sum(spent, DOMAIN ledger) \in Int
  <2>. HIDE DEF spent
  <2>. QED  BY <1>2, <1>4, SumIsInt
<1>6. WalletBalance = StartingBankroll - Sum(spent, DOMAIN ledger)
  BY Zenon DEF WalletBalance, ledger
<1>. QED  BY <1>5, <1>6, ConfigTyped

\* The exposure an evaluation reads counts every bet at risk (and those not sent yet).
LEMMA ExposureCounted ==
  ASSUME RowsTyped, NEW mode
  PROVE  /\ exposureOf(OfMode(mode)) \in Nat
         /\ Sum(AmountOf, Exposed(mode)) \in Nat
         /\ Sum(AmountOf, Exposed(mode)) <= exposureOf(OfMode(mode))
<1>. DEFINE ledger == OfMode(mode)
            amounts == [n \in DOMAIN ledger |-> ledger[n].amount]
            S == OpenTrades(ledger)
            T == Exposed(mode)
<1>1. /\ DOMAIN ledger = {n \in DOMAIN trades : trades[n].mode = mode}
      /\ \A n \in DOMAIN ledger : ledger[n] = trades[n]
  BY DEF OfMode, Restrict
<1>. HIDE DEF ledger
<1>2. S \in SUBSET DOMAIN ledger /\ T \in SUBSET DOMAIN ledger /\ T \subseteq S
  BY <1>1 DEF OpenTrades, Exposed, AtRisk, isOpenStatus, OpenStatuses
<1>3. IsFiniteSet(S) /\ IsFiniteSet(T)
  <2>1. S \in SUBSET DOMAIN trades /\ T \in SUBSET DOMAIN trades
    BY <1>1, <1>2
  <2>. QED  BY <2>1, FS_Subset DEF RowsTyped
<1>4. \A n \in DOMAIN ledger : amounts[n] \in Nat /\ AmountOf[n] = amounts[n]
  BY <1>1 DEF AmountOf, RowsTyped, IsRow
<1>. HIDE DEF amounts, S, T
<1>5. /\ \A n \in S : amounts[n] \in Nat
      /\ \A n \in T : AmountOf[n] \in Nat /\ n \in S /\ AmountOf[n] <= amounts[n]
  BY <1>2, <1>4
<1>6. Sum(AmountOf, T) \in Nat /\ Sum(amounts, S) \in Nat /\ Sum(AmountOf, T) <= Sum(amounts, S)
  BY <1>3, <1>5, SumAtMost
<1>. QED  BY <1>6, Zenon DEF exposureOf, amounts, S, T, ledger

\* What an evaluation is told of a mode's account.
LEMMA AccountTyped ==
  ASSUME RowsTyped, NEW mode \in {"PAPER", "LIVE"}, NEW k, NEW e
  PROVE  /\ AccountOf(mode, k, e).bankroll \in Int
         /\ AccountOf(mode, k, e).exposure \in Nat
         /\ Sum(AmountOf, Exposed(mode)) <= AccountOf(mode, k, e).exposure
<1>. DEFINE ledger == OfMode(mode)
            settled == {n \in DOMAIN ledger : ledger[n].status = "SETTLED"}
            unclaimed == {n \in settled : ledger[n].claimStatus \in {"UNCLAIMED", "CLAIMING"}}
            placed == {n \in DOMAIN ledger : ledger[n].status # "FAILED"}
            done == {n \in placed : ledger[n].status = "SETTLED"}
            payouts == [n \in DOMAIN ledger |-> OrZero(ledger[n].payout)]
            paid == [n \in DOMAIN ledger |-> ledger[n].amount + OrZero(ledger[n].gasCost)]
            back == [n \in DOMAIN ledger |-> OrZero(ledger[n].payout) - OrZero(ledger[n].claimGasCost)]
            x == exposureOf(ledger)
            cash == StartingBankroll - Sum(paid, placed) + Sum(back, done)
<1>1. /\ DOMAIN ledger \in SUBSET DOMAIN trades
      /\ \A n \in DOMAIN ledger : ledger[n] = trades[n]
  BY DEF OfMode, Restrict
<1>2. x \in Nat /\ Sum(AmountOf, Exposed(mode)) <= x
  BY ExposureCounted
<1>. HIDE DEF ledger, x
<1>3. IsFiniteSet(unclaimed) /\ IsFiniteSet(placed) /\ IsFiniteSet(done)
  <2>1. /\ unclaimed \in SUBSET DOMAIN trades /\ placed \in SUBSET DOMAIN trades
        /\ done \in SUBSET DOMAIN trades
    BY <1>1
  <2>. QED  BY <2>1, FS_Subset DEF RowsTyped
<1>4. ASSUME NEW n \in DOMAIN ledger
      PROVE  payouts[n] \in Int /\ paid[n] \in Int /\ back[n] \in Int
  <2>1. IsRow(ledger[n])
    BY <1>1 DEF RowsTyped
  <2>2. /\ OrZero(ledger[n].payout) \in Int /\ OrZero(ledger[n].gasCost) \in Int
        /\ OrZero(ledger[n].claimGasCost) \in Int /\ ledger[n].amount \in Int
    BY <2>1, NullAssumption DEF IsRow, Optional, OrZero
  <2>. QED  BY <2>2
<1>5. unclaimed \subseteq DOMAIN ledger /\ placed \subseteq DOMAIN ledger /\ done \subseteq DOMAIN ledger
  OBVIOUS
<1>6. Sum(payouts, unclaimed) \in Int /\ Sum(paid, placed) \in Int /\ Sum(back, done) \in Int
  <2>. HIDE DEF payouts, paid, back, unclaimed, placed, done
  <2>. QED  BY <1>3, <1>4, <1>5, SumIsInt
<1>7. cash \in Int
  BY <1>6, ConfigTyped
<1>8. CASE mode = "LIVE"
  <2>1. liveAccount(ledger, WalletBalance).balance \in Int
    BY BalanceTyped DEF liveAccount
  <2>2. liveAccount(ledger, WalletBalance).exposure = x
    BY DEF liveAccount, x
  <2>3. liveAccount(ledger, WalletBalance).claimable = Sum(payouts, unclaimed)
    BY DEF liveAccount
  <2>4. /\ AccountOf(mode, k, e).exposure = liveAccount(ledger, WalletBalance).exposure
        /\ AccountOf(mode, k, e).bankroll = liveAccount(ledger, WalletBalance).balance
             + liveAccount(ledger, WalletBalance).exposure + liveAccount(ledger, WalletBalance).claimable
    BY <1>8 DEF AccountOf, ledger
  <2>. QED  BY <2>1, <2>2, <2>3, <2>4, <1>2, <1>6
<1>9. CASE mode = "PAPER"
  <2>1. paperAccount(ledger, StartingBankroll).balance = cash + x
    BY DEF paperAccount, x
  <2>2. paperAccount(ledger, StartingBankroll).exposure = x
    BY DEF paperAccount, x
  <2>3. /\ AccountOf(mode, k, e).exposure = paperAccount(ledger, StartingBankroll).exposure
        /\ AccountOf(mode, k, e).bankroll = paperAccount(ledger, StartingBankroll).balance
    BY <1>9 DEF AccountOf, ledger
  <2>. HIDE DEF cash
  <2>. QED  BY <2>1, <2>2, <2>3, <1>2, <1>7
<1>. QED  BY <1>8, <1>9

-----------------------------------------------------------------------------
\* The inductive invariant.

\* The evaluations under way are few, of strategies there are, and of rounds opened already.
Listed ==
  /\ DOMAIN modes \subseteq DOMAIN Specs
  /\ open \in Nat
  /\ IsFiniteSet(DOMAIN tasks) /\ Cardinality(DOMAIN tasks) <= MaxBusy
  /\ \A t \in DOMAIN tasks :
       t[2] \in DOMAIN Specs /\ t[3] \in {"PAPER", "LIVE"} /\ t[4] \in Nat /\ t[4] <= open

\* So are the bets.
NoneAhead == \A n \in DOMAIN trades : trades[n].epoch <= open

\* An evaluation that has read the ledger and not decided, one that has decided to bet.
Reading(x) == x.step = "gates"
Betting(x) == x.step = "place" /\ x.decision.kind = "TRADE"

\* What an evaluation was told and has decided are amounts.
TasksTyped ==
  \A t \in DOMAIN tasks :
    /\ "step" \in DOMAIN tasks[t]
    /\ Reading(tasks[t]) => /\ tasks[t].state.bankroll \in Int /\ tasks[t].state.exposure \in Nat
    /\ Betting(tasks[t]) => tasks[t].decision.stake \in 0 .. GlobalLimits.maxStake

\* trades.uid: one live bet per round.
OneLiveBet ==
  \A n, m \in DOMAIN trades :
    trades[n].mode = "LIVE" /\ trades[m].mode = "LIVE" /\ trades[n].epoch = trades[m].epoch => n = m

\* The live bet that can still be sent, and those at risk since before the round opened.
Sendable ==
  {n \in DOMAIN trades : trades[n].mode = "LIVE" /\ trades[n].status = "PENDING" /\ trades[n].epoch = open}
Held == {n \in Exposed("LIVE") : trades[n].epoch < open}

\* What is at risk and what can still be sent stay within the limit.
LiveWithinLimit == Sum(AmountOf, Exposed("LIVE") \cup Sendable) <= GlobalLimits.maxExposure

\* The account an evaluation sees without a wallet: with it, it cannot bet.
Penniless(s) == s.available = 0 /\ s.gasReserve = 0

\* An evaluation of the open round knows of every live bet of earlier rounds at risk, or is penniless.
LiveTold ==
  \A t \in DOMAIN tasks :
    t[3] = "LIVE" /\ t[4] = open =>
      /\ Reading(tasks[t]) => Penniless(tasks[t].state) \/ Sum(AmountOf, Held) <= tasks[t].state.exposure
      /\ Betting(tasks[t]) => Sum(AmountOf, Held) + tasks[t].decision.stake <= GlobalLimits.maxExposure

\* The most a paper evaluation under way may still stake.
Left(x) == Most2(0, Least2(GlobalLimits.maxStake, GlobalLimits.maxExposure - x))

\* Before it decides, what the exposure it read leaves it; then its stake.
RoomOf(t, x) ==
  CASE t[3] = "PAPER" /\ Reading(x) -> Left(x.state.exposure)
    [] t[3] = "PAPER" /\ Betting(x) -> x.decision.stake
    [] OTHER -> 0

\* By evaluation.
Room == [t \in DOMAIN tasks |-> RoomOf(t, tasks[t])]

\* The paper stakes at risk, and what the evaluations under way may add.
PaperWithinRoom ==
  Sum(AmountOf, Exposed("PAPER")) + Sum(Room, DOMAIN tasks)
    <= GlobalLimits.maxExposure + (MaxBusy - 1) * GlobalLimits.maxStake

\* The inductive invariant.
Inv ==
  /\ EveryBetExplained /\ RowsTyped /\ NoneAhead /\ Listed /\ TasksTyped /\ OneLiveBet
  /\ LiveWithinLimit /\ LiveTold /\ PaperWithinRoom

-----------------------------------------------------------------------------
\* The parts of a step.

\* An evaluation is over once its key is gone.
LEMMA WithoutOne ==
  ASSUME NEW t
  PROVE  /\ DOMAIN Without(t) = DOMAIN tasks \ {t}
         /\ \A u \in DOMAIN tasks \ {t} : Without(t)[u] = tasks[u]
  BY DEF Without

\* An evaluation that goes on changes no other.
LEMMA GoesOn ==
  ASSUME NEW t \in DOMAIN tasks, NEW to, Goes(t, to)
  PROVE  /\ DOMAIN tasks' = DOMAIN tasks /\ tasks'[t] = to
         /\ \A u \in DOMAIN tasks \ {t} : tasks'[u] = tasks[u]
  BY DEF Goes

\* Evaluations that end leave the others listed.
LEMMA FewerListed ==
  ASSUME Listed, DOMAIN modes' = DOMAIN modes, open' = open, DOMAIN tasks' \subseteq DOMAIN tasks
  PROVE  Listed'
<1>1. /\ IsFiniteSet(DOMAIN tasks') /\ Cardinality(DOMAIN tasks') <= Cardinality(DOMAIN tasks)
      /\ Cardinality(DOMAIN tasks') \in Nat /\ Cardinality(DOMAIN tasks) \in Nat
  BY FS_Subset, FS_CardinalityType DEF Listed
<1>2. Cardinality(DOMAIN tasks') <= MaxBusy
  BY <1>1, BoundsAssumption DEF Listed
<1>. QED  BY <1>1, <1>2 DEF Listed

\* Every step keeps them listed: one begins only where there is room for it.
LEMMA ListedStep ==
  ASSUME Listed, Next
  PROVE  Listed'
<1>1. ASSUME NEW w, NEW k \in DOMAIN modes, NEW mode \in {"PAPER", "LIVE"}, Begin(w, k, mode)
      PROVE  Listed'
  <2>. DEFINE t == <<w, k, mode, open>>
  <2>1. /\ t \notin DOMAIN tasks /\ Cardinality(DOMAIN tasks) < MaxBusy
        /\ DOMAIN tasks' = DOMAIN tasks \cup {t} /\ UNCHANGED <<modes, open>>
    BY <1>1 DEF Begin, With
  <2>2. IsFiniteSet(DOMAIN tasks') /\ Cardinality(DOMAIN tasks') = Cardinality(DOMAIN tasks) + 1
    BY <2>1, FS_AddElement DEF Listed
  <2>3. Cardinality(DOMAIN tasks) \in Nat
    BY FS_CardinalityType DEF Listed
  <2>4. t[2] = k /\ t[3] = mode /\ t[4] = open
    OBVIOUS
  <2>5. Cardinality(DOMAIN tasks') <= MaxBusy
    BY <2>1, <2>2, <2>3, BoundsAssumption
  <2>6. k \in DOMAIN Specs /\ open <= open
    BY DEF Listed
  <2>. HIDE DEF t
  <2>7. \A u \in DOMAIN tasks' :
          u[2] \in DOMAIN Specs /\ u[3] \in {"PAPER", "LIVE"} /\ u[4] \in Nat /\ u[4] <= open
    BY <2>1, <2>4, <2>6 DEF Listed
  <2>. QED  BY <2>1, <2>2, <2>5, <2>7 DEF Listed
<1>2. ASSUME NEW t \in DOMAIN tasks, Evaluation(t)
      PROVE  Listed'
  <2>1. UNCHANGED <<modes, open>>
    BY <1>2 DEF Evaluation, CheckExists, ReadLedger, ReadFails, Decide, Place, RecordRejected
  <2>2. tasks' = Without(t) \/ \E to : Goes(t, to)
    <3>1. CASE CheckExists(t)
      BY <3>1, Zenon DEF CheckExists
    <3>2. CASE ReadLedger(t) \/ ReadFails(t)
      BY <3>2, Zenon DEF ReadLedger, ReadFails
    <3>3. CASE Decide(t)
      <4>1. PICK signal \in Signals :
              LET d == decide(Request(t), signal)
              IN  IF d.kind = "WAIT" THEN tasks' = Without(t)
                  ELSE Goes(t, [At("place") EXCEPT !.decision = d])
        BY <3>3 DEF Decide
      <4>. QED  BY <4>1, Zenon
    <3>4. CASE Place(t)
      BY <3>4, Zenon DEF Place
    <3>5. CASE RecordRejected(t)
      BY <3>5, Zenon DEF RecordRejected
    <3>. QED  BY <1>2, <3>1, <3>2, <3>3, <3>4, <3>5 DEF Evaluation
  <2>3. DOMAIN tasks' \subseteq DOMAIN tasks
    BY <2>2, WithoutOne, GoesOn
  <2>. QED  BY <2>1, <2>3, FewerListed
<1>3. ASSUME NEW w, Crash(w)
      PROVE  Listed'
  BY <1>3, FewerListed DEF Crash
<1>4. ASSUME NEW k \in DOMAIN modes, NEW mode, SetFlags(k, mode)
      PROVE  Listed'
  BY <1>4, FewerListed DEF SetFlags
<1>5. CASE NextRound
  BY <1>5, BoundsAssumption DEF NextRound, Listed
<1>6. CASE Operate \/ Seed
  BY <1>6, FewerListed DEF Operate, Seed
<1>7. CASE Ledger
  <2>1. UNCHANGED <<modes, open, tasks>>
    BY <1>7 DEF Ledger, Sent, applyReceipt, FromLedger, Settle
  <2>. QED  BY <2>1, FewerListed
<1>. QED  BY <1>1, <1>2, <1>3, <1>4, <1>5, <1>6, <1>7 DEF Next

-----------------------------------------------------------------------------
\* Every step is one of six kinds, as far as the bets and what evaluations know of them go.

Idle(x) == "step" \in DOMAIN x /\ ~Reading(x) /\ ~Betting(x)

\* Nobody learns, decides or places anything.
Quiet ==
  /\ UNCHANGED <<open, trades>>
  /\ \A t \in DOMAIN tasks' : Idle(tasks'[t]) \/ (t \in DOMAIN tasks /\ tasks'[t] = tasks[t])

\* One evaluation goes on, and no bet changes.
Only(t) ==
  /\ UNCHANGED <<open, trades>>
  /\ t \in DOMAIN tasks /\ DOMAIN tasks' = DOMAIN tasks
  /\ \A u \in DOMAIN tasks \ {t} : tasks'[u] = tasks[u]

\* One reads the ledger.
Reads(t) ==
  LET s == tasks'[t].state IN
  /\ Only(t) /\ Idle(tasks[t]) /\ ~Betting(tasks'[t]) /\ "step" \in DOMAIN tasks'[t]
  /\ s.bankroll \in Int /\ s.exposure \in Nat
  /\ (t[3] = "LIVE" /\ Penniless(s)) \/ Sum(AmountOf, Exposed(t[3])) <= s.exposure

\* One decides to bet.
Decides(t) ==
  /\ Only(t) /\ Reading(tasks[t]) /\ ~Reading(tasks'[t]) /\ "step" \in DOMAIN tasks'[t]
  /\ Bounded(tasks[t].state, tasks'[t].decision.stake)

\* Its bet is placed, the first of its wallet or strategy in the round.
Bets(t) ==
  LET row == trades'[Of(t)] IN
  /\ UNCHANGED open
  /\ t \in DOMAIN tasks /\ Betting(tasks[t]) /\ tasks' = Without(t)
  /\ Of(t) \notin DOMAIN trades /\ UidFree(t)
  /\ DOMAIN trades' = DOMAIN trades \cup {Of(t)}
  /\ \A n \in DOMAIN trades : trades'[n] = trades[n]
  /\ {"status", "payout", "gasCost", "claimGasCost"} \subseteq DOMAIN row
  /\ row.mode = t[3] /\ row.epoch = t[4] /\ row.amount = tasks[t].decision.stake
  /\ row.status = IF t[3] = "PAPER" THEN "CONFIRMED" ELSE "PENDING"
  /\ row.payout = Null /\ {row.gasCost, row.claimGasCost} \subseteq Optional

\* A bet is sent, found or settled.
Fate(n) ==
  LET row == trades'[n] IN
  /\ UNCHANGED <<open, tasks>>
  /\ n \in DOMAIN trades /\ DOMAIN trades' = DOMAIN trades
  /\ \A m \in DOMAIN trades \ {n} : trades'[m] = trades[m]
  /\ row.mode = trades[n].mode /\ row.epoch = trades[n].epoch /\ row.amount = trades[n].amount
  /\ IsRow(row) /\ row.status # "PENDING"
  /\ row.status \in AtRisk => n \in Exposed(trades[n].mode) \cup Sendable

-----------------------------------------------------------------------------

\* ReadLedger tells the evaluation of every bet of its mode at risk, or that there is no wallet.
LEMMA ReadsOne ==
  ASSUME RowsTyped, NEW t \in DOMAIN tasks, t[3] \in {"PAPER", "LIVE"}, "step" \in DOMAIN tasks[t],
         ReadLedger(t)
  PROVE  Reads(t)
<1>. DEFINE s == buildState(t[3], t[2], t[4], tasks[t].inTime)
            account == IF t[3] = "LIVE" /\ ~signer THEN NoWallet ELSE AccountOf(t[3], t[2], t[4])
            to == [At("gates") EXCEPT !.flags = tasks[t].flags, !.state = s]
<1>1. Only(t) /\ tasks'[t] = to
  BY GoesOn DEF ReadLedger, Only
<1>2. to.step = "gates" /\ to.state = s /\ "step" \in DOMAIN to
  BY DEF At
<1>3. Idle(tasks[t]) /\ ~Betting(tasks'[t]) /\ "step" \in DOMAIN tasks'[t]
  BY <1>1, <1>2 DEF ReadLedger, Idle, Reading, Betting
<1>4. \A x \in DOMAIN account \ {"roundOpen", "secondsToLock"} : s[x] = account[x]
  BY DEF buildState, With
<1>5. {"bankroll", "exposure", "available", "gasReserve"} \subseteq DOMAIN account
  BY DEF AccountOf, NoWallet
<1>. HIDE DEF s
<1>6. /\ s.bankroll = account.bankroll /\ s.exposure = account.exposure
      /\ s.available = account.available /\ s.gasReserve = account.gasReserve
  <2>. HIDE DEF account
  <2>. QED  BY <1>4, <1>5
<1>7. CASE t[3] = "LIVE" /\ ~signer
  <2>1. s.bankroll = 0 /\ s.exposure = 0 /\ s.available = 0 /\ s.gasReserve = 0
    BY <1>6, <1>7 DEF NoWallet
  <2>. QED  BY <1>1, <1>2, <1>3, <1>7, <2>1 DEF Reads, Penniless
<1>8. CASE ~(t[3] = "LIVE" /\ ~signer)
  <2>1. account = AccountOf(t[3], t[2], t[4])
    BY <1>8
  <2>. HIDE DEF account
  <2>2. s.bankroll \in Int /\ s.exposure \in Nat /\ Sum(AmountOf, Exposed(t[3])) <= s.exposure
    BY <1>6, <2>1, AccountTyped
  <2>. QED  BY <1>1, <1>2, <1>3, <2>2 DEF Reads
<1>. QED  BY <1>7, <1>8

\* Decide ends the evaluation, or leaves it with a bet within the limits or none.
LEMMA DecidesOne ==
  ASSUME Listed, TasksTyped, NEW t \in DOMAIN tasks, Decide(t)
  PROVE  Quiet \/ Decides(t)
<1>1. PICK signal \in Signals :
        LET d == decide(Request(t), signal)
        IN  IF d.kind = "WAIT" THEN tasks' = Without(t) ELSE Goes(t, [At("place") EXCEPT !.decision = d])
  BY DEF Decide
<1>. DEFINE d == decide(Request(t), signal)
            to == [At("place") EXCEPT !.decision = d]
<1>2. to.step = "place" /\ to.decision = d /\ "step" \in DOMAIN to
  BY DEF At
<1>3. UNCHANGED <<open, trades>> /\ Reading(tasks[t])
  BY DEF Decide, Reading
<1>4. CASE d.kind = "WAIT"
  BY <1>1, <1>3, <1>4, WithoutOne DEF Quiet
<1>5. CASE d.kind # "WAIT"
  <2>1. /\ DOMAIN tasks' = DOMAIN tasks /\ tasks'[t] = to
        /\ \A u \in DOMAIN tasks \ {t} : tasks'[u] = tasks[u]
    <3>1. Goes(t, to)
      BY <1>1, <1>5
    <3>. HIDE DEF to
    <3>. QED  BY <3>1, GoesOn
  <2>2. CASE d.kind = "TRADE"
    <3>1. Bounded(tasks[t].state, d.stake)
      BY <1>3, <2>2, DecidedIsBounded DEF Listed, TasksTyped
    <3>2. ~Reading(tasks'[t]) /\ tasks'[t].decision = d /\ "step" \in DOMAIN tasks'[t]
      BY <1>2, <2>1 DEF Reading
    <3>. HIDE DEF d, to
    <3>. QED  BY <1>3, <2>1, <3>1, <3>2 DEF Decides, Only
  <2>3. CASE d.kind # "TRADE"
    <3>1. Idle(tasks'[t])
      BY <1>2, <2>1, <2>3 DEF Idle, Reading, Betting
    <3>. HIDE DEF d, to
    <3>. QED  BY <1>3, <2>1, <3>1 DEF Quiet
  <2>. QED  BY <2>2, <2>3
<1>. QED  BY <1>4, <1>5

\* Place adds the bet where there is none of the same uid, or none.
LEMMA PlacesOne ==
  ASSUME EveryBetExplained, NEW t \in DOMAIN tasks, t[3] \in {"PAPER", "LIVE"}, Place(t)
  PROVE  Quiet \/ Bets(t)
<1>. DEFINE d == tasks[t].decision
            row == Row(t, d)
<1>1. open' = open
  BY DEF Place
<1>2. CASE UNCHANGED trades /\ (tasks' = Without(t) \/ Goes(t, At("reject")))
  <2>1. Idle(At("reject"))
    BY DEF At, Idle, Reading, Betting
  <2>2. CASE tasks' = Without(t)
    BY <1>1, <1>2, <2>2, WithoutOne DEF Quiet
  <2>3. CASE Goes(t, At("reject"))
    BY <1>1, <1>2, <2>1, <2>3, GoesOn DEF Quiet
  <2>. QED  BY <1>2, <2>2, <2>3
<1>3. CASE /\ DecisionFree(t) /\ UidFree(t) /\ d.kind = "TRADE" /\ tasks[t].step = "place"
           /\ trades' = With(trades, Of(t), row) /\ tasks' = Without(t)
  <2>1. Of(t) \notin DOMAIN trades
    BY <1>3 DEF DecisionFree, Decided, EveryBetExplained
  <2>2. /\ DOMAIN trades' = DOMAIN trades \cup {Of(t)} /\ trades'[Of(t)] = row
        /\ \A n \in DOMAIN trades : trades'[n] = trades[n]
    <3>. HIDE DEF row
    <3>. QED  BY <1>3, <2>1 DEF With
  <2>3. /\ {"status", "payout", "gasCost", "claimGasCost"} \subseteq DOMAIN row
        /\ row.mode = t[3] /\ row.epoch = t[4] /\ row.amount = d.stake
        /\ row.status = IF t[3] = "PAPER" THEN "CONFIRMED" ELSE "PENDING"
        /\ row.payout = Null /\ {row.gasCost, row.claimGasCost} \subseteq Optional
    BY ConfigTyped DEF Row, Optional
  <2>. HIDE DEF row
  <2>4. Betting(tasks[t])
    BY <1>3 DEF Betting
  <2>. QED  BY <1>1, <1>3, <2>1, <2>2, <2>3, <2>4 DEF Bets
<1>. QED  BY <1>2, <1>3 DEF Place

\* What there is to show of a row that changed.
LEMMA RowChanges ==
  ASSUME RowsTyped, NEW n \in DOMAIN trades, UNCHANGED <<open, tasks>>,
         NEW r, trades' = [trades EXCEPT ![n] = r],
         DOMAIN r = DOMAIN trades[n],
         r.mode = trades[n].mode, r.epoch = trades[n].epoch, r.amount = trades[n].amount,
         {r.payout, r.gasCost, r.claimGasCost} \subseteq Optional,
         r.status # "PENDING", r.status = "SETTLED" => r.payout \in Nat,
         r.status \in AtRisk => n \in Exposed(trades[n].mode) \cup Sendable
  PROVE  Fate(n)
<1>1. /\ DOMAIN trades' = DOMAIN trades /\ trades'[n] = r
      /\ \A m \in DOMAIN trades \ {n} : trades'[m] = trades[m]
  OBVIOUS
<1>2. IsRow(r)
  BY DEF RowsTyped, IsRow
<1>. QED  BY <1>1, <1>2 DEF Fate

\* A row that only changes its status.
LEMMA StatusChanges ==
  ASSUME RowsTyped, NEW n \in DOMAIN trades, UNCHANGED <<open, tasks>>,
         NEW to, trades' = [trades EXCEPT ![n] = [trades[n] EXCEPT !.status = to]],
         to # "PENDING", to # "SETTLED",
         to \in AtRisk => n \in Exposed(trades[n].mode) \cup Sendable
  PROVE  Fate(n)
<1>. DEFINE r == [trades[n] EXCEPT !.status = to]
<1>0. IsRow(trades[n])
  BY DEF RowsTyped
<1>1. /\ DOMAIN r = DOMAIN trades[n] /\ r.status = to
      /\ r.mode = trades[n].mode /\ r.epoch = trades[n].epoch /\ r.amount = trades[n].amount
      /\ r.payout = trades[n].payout
      /\ r.gasCost = trades[n].gasCost /\ r.claimGasCost = trades[n].claimGasCost
  BY <1>0 DEF IsRow
<1>2. {r.payout, r.gasCost, r.claimGasCost} \subseteq Optional
  BY <1>0, <1>1 DEF IsRow
<1>3. trades' = [trades EXCEPT ![n] = r]
  OBVIOUS
<1>. HIDE DEF r
<1>. QED  BY <1>1, <1>2, <1>3, RowChanges

\* submitLive sends a bet of the open round only.
LEMMA SentOne ==
  ASSUME RowsTyped, NEW n \in DOMAIN trades, NEW head, Sent(n, head)
  PROVE  Fate(n)
<1>. DEFINE checks == preflight(trades[n], head)
            failed == {i \in DOMAIN checks : checks[i][2]}
<1>0. IsRow(trades[n])
  BY DEF RowsTyped
<1>1. trades[n].status = "PENDING" /\ UNCHANGED <<open, tasks>>
  BY DEF Sent
<1>2. CASE trades' = [trades EXCEPT ![n].status = "FAILED"]
  <2>1. "FAILED" \notin AtRisk
    BY DEF AtRisk
  <2>. QED  BY <1>1, <1>2, <2>1, StatusChanges
<1>3. ASSUME failed = {}, NEW to \in {"SUBMITTED", "SUBMITTING"}, trades' = [trades EXCEPT ![n].status = to]
      PROVE  Fate(n)
  <2>1. 1 \in DOMAIN checks /\ checks[1][2] = (trades[n].epoch # open)
    BY DEF preflight
  <2>2. ~checks[1][2]
    <3>. HIDE DEF checks
    <3>. QED  BY <1>3, <2>1
  <2>3. trades[n].epoch = open
    BY <2>1, <2>2
  <2>4. n \in Sendable
    BY <1>0, <1>1, <2>3 DEF Sendable, IsRow
  <2>. QED  BY <1>1, <1>3, <2>4, StatusChanges
<1>4. \/ trades' = [trades EXCEPT ![n].status = "FAILED"]
      \/ failed = {} /\ \E to \in {"SUBMITTED", "SUBMITTING"} : trades' = [trades EXCEPT ![n].status = to]
  BY Zenon DEF Sent, Fails
<1>. QED  BY <1>2, <1>3, <1>4

\* Whatever becomes of a bet in the ledger, none is at risk that was not, but the one that is sent.
LEMMA FateOne ==
  ASSUME RowsTyped, Ledger
  PROVE  \E n \in DOMAIN trades : Fate(n)
<1>1. PICK n \in DOMAIN trades :
        \/ \E head \in {Well} \cup Heads : Sent(n, head)
        \/ \E yes \in BOOLEAN : applyReceipt(n, yes) \/ FromLedger(n, yes)
        \/ Settle(n)
  BY DEF Ledger
<1>0. IsRow(trades[n])
  BY DEF RowsTyped
<1>2. CASE \E head \in {Well} \cup Heads : Sent(n, head)
  BY <1>2, SentOne
<1>3. ASSUME NEW yes \in BOOLEAN, applyReceipt(n, yes)
      PROVE  Fate(n)
  <2>. DEFINE to == IF yes THEN "CONFIRMED" ELSE "FAILED"
              r == [trades[n] EXCEPT !.status = to, !.gasCost = GasPerBet]
  <2>1. trades' = [trades EXCEPT ![n] = r] /\ UNCHANGED <<open, tasks>>
    BY <1>3 DEF applyReceipt
  <2>2. /\ DOMAIN r = DOMAIN trades[n] /\ r.status = to
        /\ r.mode = trades[n].mode /\ r.epoch = trades[n].epoch /\ r.amount = trades[n].amount
        /\ r.payout = trades[n].payout /\ r.gasCost = GasPerBet /\ r.claimGasCost = trades[n].claimGasCost
    BY <1>0 DEF IsRow
  <2>3. {r.payout, r.gasCost, r.claimGasCost} \subseteq Optional
    BY <1>0, <2>2, ConfigTyped DEF IsRow, Optional
  <2>4. n \in Exposed(trades[n].mode) /\ to # "PENDING" /\ to # "SETTLED"
    BY <1>3 DEF applyReceipt, Unresolved, Exposed, AtRisk
  <2>. HIDE DEF r
  <2>. QED  BY <2>1, <2>2, <2>3, <2>4, RowChanges
<1>4. ASSUME NEW yes \in BOOLEAN, FromLedger(n, yes)
      PROVE  Fate(n)
  <2>1. n \in Exposed(trades[n].mode) /\ UNCHANGED <<open, tasks>>
    BY <1>4 DEF FromLedger, Exposed, AtRisk
  <2>2. \/ trades' = [trades EXCEPT ![n].status = "CONFIRMED"]
        \/ trades' = [trades EXCEPT ![n].status = "FAILED"]
    BY <1>4 DEF FromLedger, Fails
  <2>. QED  BY <2>1, <2>2, StatusChanges
<1>5. CASE Settle(n)
  <2>. DEFINE won == (trades[n].direction = "BULL") <=> (trades[n].epoch \in BullRounds)
              r == [trades[n] EXCEPT !.status = "SETTLED", !.settledAt = open,
                            !.result = IF won THEN "WON" ELSE "LOST",
                            !.claimStatus = IF won THEN "CLAIMED" ELSE "NONE",
                            !.payout = IF won THEN 2 * trades[n].amount ELSE 0,
                            !.claimGasCost = IF won THEN GasPerClaim ELSE 0]
  <2>1. trades' = [trades EXCEPT ![n] = r] /\ UNCHANGED <<open, tasks>>
    BY <1>5 DEF Settle
  <2>2. 2 * trades[n].amount \in Nat /\ GasPerClaim \in Nat
    BY <1>0, ConfigTyped DEF IsRow
  <2>3. /\ DOMAIN r = DOMAIN trades[n] /\ r.status = "SETTLED"
        /\ r.mode = trades[n].mode /\ r.epoch = trades[n].epoch /\ r.amount = trades[n].amount
        /\ r.payout \in Nat /\ r.claimGasCost \in Nat /\ r.gasCost = trades[n].gasCost
    BY <1>0, <2>2 DEF IsRow
  <2>4. {r.payout, r.gasCost, r.claimGasCost} \subseteq Optional
    BY <1>0, <2>3 DEF IsRow, Optional
  <2>5. "SETTLED" \notin AtRisk
    BY DEF AtRisk
  <2>. HIDE DEF r
  <2>. QED  BY <2>1, <2>3, <2>4, <2>5, RowChanges
<1>. QED  BY <1>1, <1>2, <1>3, <1>4, <1>5

\* The actions of Next, by what they do.
LEMMA StepIsCore ==
  ASSUME EveryBetExplained, RowsTyped, Listed, TasksTyped, Next
  PROVE  \/ Quiet \/ NextRound
         \/ \E t \in DOMAIN tasks : Reads(t) \/ Decides(t) \/ Bets(t)
         \/ \E n \in DOMAIN trades : Fate(n)
<1>0. \A t \in DOMAIN tasks : t[3] \in {"PAPER", "LIVE"} /\ "step" \in DOMAIN tasks[t]
  BY DEF Listed, TasksTyped
<1>1. ASSUME NEW w, NEW k, NEW mode, Begin(w, k, mode)
      PROVE  Quiet
  <2>. DEFINE t == <<w, k, mode, open>>
              x == [At("exists") EXCEPT !.flags = modes[k]]
  <2>1. tasks' = With(tasks, t, x) /\ UNCHANGED <<open, trades>>
    BY <1>1 DEF Begin
  <2>2. Idle(x)
    BY DEF At, Idle, Reading, Betting
  <2>. HIDE DEF t, x
  <2>. QED  BY <2>1, <2>2 DEF With, Quiet
<1>2. ASSUME NEW t \in DOMAIN tasks, Evaluation(t)
      PROVE  Quiet \/ Reads(t) \/ Decides(t) \/ Bets(t)
  <2>1. CASE CheckExists(t)
    <3>1. UNCHANGED <<open, trades>>
      BY <2>1 DEF CheckExists
    <3>2. CASE tasks' = Without(t)
      BY <3>1, <3>2, WithoutOne DEF Quiet
    <3>3. CASE Goes(t, [tasks[t] EXCEPT !.step = "build", !.inTime = t[4] = open])
      <4>. DEFINE x == [tasks[t] EXCEPT !.step = "build", !.inTime = t[4] = open]
      <4>1. Idle(x)
        BY <1>0 DEF Idle, Reading, Betting
      <4>. HIDE DEF x
      <4>2. Goes(t, x)
        BY <3>3 DEF x
      <4>. QED  BY <3>1, <4>1, <4>2, GoesOn DEF Quiet
    <3>. QED  BY <2>1, <3>2, <3>3 DEF CheckExists
  <2>2. CASE ReadLedger(t)
    BY <1>0, <2>2, ReadsOne
  <2>3. CASE ReadFails(t)
    <3>1. Idle(At("place"))
      BY DEF At, NoTrade, Idle, Reading, Betting
    <3>. QED  BY <2>3, <3>1, GoesOn DEF ReadFails, Quiet
  <2>4. CASE Decide(t)
    BY <2>4, DecidesOne
  <2>5. CASE Place(t)
    BY <1>0, <2>5, PlacesOne
  <2>6. CASE RecordRejected(t)
    BY <2>6, WithoutOne DEF RecordRejected, Quiet
  <2>. QED  BY <1>2, <2>1, <2>2, <2>3, <2>4, <2>5, <2>6 DEF Evaluation
<1>3. ASSUME NEW w, Crash(w)
      PROVE  Quiet
  BY <1>3 DEF Crash, Quiet
<1>4. ASSUME NEW k, NEW mode, SetFlags(k, mode)
      PROVE  Quiet
  BY <1>4 DEF SetFlags, Quiet
<1>5. CASE Operate \/ Seed
  BY <1>5 DEF Operate, Seed, Quiet
<1>. QED  BY <1>1, <1>2, <1>3, <1>4, <1>5, FateOne DEF Next

-----------------------------------------------------------------------------
\* What each kind of step keeps.

\* The invariant, but for what every step keeps anyway.
Kept ==
  /\ RowsTyped /\ NoneAhead /\ TasksTyped /\ OneLiveBet
  /\ LiveWithinLimit /\ LiveTold /\ PaperWithinRoom

\* The stakes of some bets add up to no more than those of all of them.
LEMMA PartOfBets ==
  ASSUME RowsTyped, NEW U \in SUBSET DOMAIN trades
  PROVE  /\ IsFiniteSet(U) /\ Sum(AmountOf, U) \in Nat
         /\ \A x \in U : AmountOf[x] \in Nat
         /\ \A T \in SUBSET U : Sum(AmountOf, T) \in Nat /\ Sum(AmountOf, T) <= Sum(AmountOf, U)
<1>1. IsFiniteSet(U)
  BY FS_Subset DEF RowsTyped
<1>2. \A x \in U : AmountOf[x] \in Nat
  BY DEF AmountOf, RowsTyped, IsRow
<1>3. \A T \in SUBSET U : Sum(AmountOf, T) \in Nat /\ Sum(AmountOf, T) <= Sum(AmountOf, U)
  BY <1>1, <1>2, SumOfPart
<1>. QED  BY <1>1, <1>2, <1>3

\* The room of an evaluation is at most a stake.
LEMMA RoomTyped ==
  ASSUME NEW t, NEW x,
         Reading(x) => x.state.exposure \in Nat,
         Betting(x) => x.decision.stake \in 0 .. GlobalLimits.maxStake
  PROVE  RoomOf(t, x) \in 0 .. GlobalLimits.maxStake
<1>1. GlobalLimits.maxStake \in Nat /\ GlobalLimits.maxExposure \in Nat
  BY ConfigTyped
<1>2. ASSUME Reading(x)
      PROVE  Left(x.state.exposure) \in 0 .. GlobalLimits.maxStake
  BY <1>1, <1>2 DEF Left, Most2, Least2
<1>. QED  BY <1>1, <1>2 DEF RoomOf

\* An evaluation that is neither reading nor betting has no room.
LEMMA IdleHasNone ==
  ASSUME NEW t, NEW x, ~Reading(x), ~Betting(x)
  PROVE  RoomOf(t, x) = 0
BY DEF RoomOf

\* Nor has a live one: room is counted on paper.
LEMMA LiveHasNone ==
  ASSUME NEW t, NEW x, t[3] = "LIVE"
  PROVE  RoomOf(t, x) = 0
BY DEF RoomOf

\* So every room is an amount of at most a stake.
LEMMA RoomsTyped ==
  ASSUME TasksTyped
  PROVE  \A t \in DOMAIN tasks : Room[t] \in 0 .. GlobalLimits.maxStake /\ Room[t] \in Nat
<1>1. GlobalLimits.maxStake \in Nat
  BY ConfigTyped
<1>2. \A t \in DOMAIN tasks : RoomOf(t, tasks[t]) \in 0 .. GlobalLimits.maxStake
  BY RoomTyped DEF TasksTyped
<1>. QED  BY <1>1, <1>2 DEF Room

\* And they add up.
LEMMA RoomIsNat ==
  ASSUME TasksTyped, Listed
  PROVE  Sum(Room, DOMAIN tasks) \in Nat
  BY RoomsTyped, SumOfPart DEF Listed

\* The room is no more than it was where no evaluation got any.
LEMMA LessRoom ==
  ASSUME TasksTyped, Listed, TasksTyped', Listed',
         \A t \in DOMAIN tasks' :
            RoomOf(t, tasks'[t]) = 0 \/ (t \in DOMAIN tasks /\ RoomOf(t, tasks'[t]) <= RoomOf(t, tasks[t]))
  PROVE  Sum(Room', DOMAIN tasks') \in Nat /\ Sum(Room', DOMAIN tasks') <= Sum(Room, DOMAIN tasks)
<1>1. \A t \in DOMAIN tasks : Room[t] \in Nat /\ Room[t] = RoomOf(t, tasks[t])
  BY RoomsTyped DEF Room
<1>2. \A t \in DOMAIN tasks' : Room'[t] \in Nat /\ Room'[t] = RoomOf(t, tasks'[t])
  <2>1. GlobalLimits.maxStake \in Nat
    BY ConfigTyped
  <2>2. \A t \in DOMAIN tasks' : RoomOf(t, tasks'[t]) \in 0 .. GlobalLimits.maxStake
    BY RoomTyped DEF TasksTyped
  <2>3. \A t \in DOMAIN tasks' : Room'[t] = RoomOf(t, tasks'[t])
    BY DEF Room
  <2>. QED  BY <2>1, <2>2, <2>3
<1>3. \A t \in DOMAIN tasks' : Room'[t] = 0 \/ (t \in DOMAIN tasks /\ Room'[t] <= Room[t])
  BY <1>1, <1>2
<1>. DEFINE S == DOMAIN tasks
            T == DOMAIN tasks'
            f == Room
            g == Room'
<1>4. IsFiniteSet(S) /\ IsFiniteSet(T)
  BY DEF Listed
<1>5. (\A x \in S : f[x] \in Nat) /\ (\A x \in T : g[x] \in Nat /\ (g[x] = 0 \/ (x \in S /\ g[x] <= f[x])))
  BY <1>1, <1>2, <1>3
<1>. HIDE DEF S, T, f, g
<1>6. Sum(g, T) \in Nat /\ Sum(g, T) <= Sum(f, S)
  BY <1>4, <1>5, SumAtMost
<1>. QED  BY <1>6 DEF S, T, f, g

\* Steps that leave the bets and the round alone.
LEMMA SameBets ==
  ASSUME UNCHANGED <<open, trades>>
  PROVE  /\ AmountOf' = AmountOf /\ Sendable' = Sendable /\ Held' = Held
         /\ Exposed("LIVE")' = Exposed("LIVE") /\ Exposed("PAPER")' = Exposed("PAPER")
         /\ RowsTyped => RowsTyped'
         /\ NoneAhead => NoneAhead'
         /\ OneLiveBet => OneLiveBet'
         /\ LiveWithinLimit => LiveWithinLimit'
<1>1. /\ AmountOf' = AmountOf /\ Sendable' = Sendable /\ Held' = Held
      /\ Exposed("LIVE")' = Exposed("LIVE") /\ Exposed("PAPER")' = Exposed("PAPER")
  BY DEF AmountOf, Sendable, Held, Exposed
<1>2. RowsTyped => RowsTyped'
  BY DEF RowsTyped
<1>3. (NoneAhead => NoneAhead') /\ (OneLiveBet => OneLiveBet')
  BY DEF NoneAhead, OneLiveBet
<1>4. LiveWithinLimit => LiveWithinLimit'
  BY <1>1 DEF LiveWithinLimit
<1>. QED  BY <1>1, <1>2, <1>3, <1>4

\* With the bets the same, and no more room.
LEMMA SamePaper ==
  ASSUME Inv, TasksTyped', Listed', UNCHANGED <<open, trades>>,
         \A t \in DOMAIN tasks' :
            RoomOf(t, tasks'[t]) = 0 \/ (t \in DOMAIN tasks /\ RoomOf(t, tasks'[t]) <= RoomOf(t, tasks[t]))
  PROVE  PaperWithinRoom'
<1>1. Sum(Room', DOMAIN tasks') \in Nat /\ Sum(Room', DOMAIN tasks') <= Sum(Room, DOMAIN tasks)
  BY LessRoom DEF Inv
<1>2. Sum(Room, DOMAIN tasks) \in Nat
  BY RoomIsNat DEF Inv
<1>3. Sum(AmountOf, Exposed("PAPER")) \in Nat
  BY PartOfBets DEF Inv, Exposed
<1>4. AmountOf' = AmountOf /\ Exposed("PAPER")' = Exposed("PAPER")
  BY SameBets
<1>5. GlobalLimits.maxExposure + (MaxBusy - 1) * GlobalLimits.maxStake \in Int
  BY ConfigTyped, BoundsAssumption
<1>6. PaperWithinRoom
  BY DEF Inv
<1>. DEFINE a == GlobalLimits.maxExposure + (MaxBusy - 1) * GlobalLimits.maxStake
<1>. HIDE DEF a
<1>. QED  BY <1>1, <1>2, <1>3, <1>4, <1>5, <1>6 DEF PaperWithinRoom, a

\* Where nobody learns, decides or places anything, nothing of the invariant can break.
LEMMA QuietKeeps ==
  ASSUME Inv, Listed', Quiet
  PROVE  Kept'
<1>1. TasksTyped'
  BY DEF Inv, Quiet, TasksTyped, Idle
<1>2. UNCHANGED <<open, trades>>
  BY DEF Quiet
<1>3. RowsTyped' /\ NoneAhead' /\ OneLiveBet' /\ LiveWithinLimit'
  BY <1>2, SameBets DEF Inv
<1>4. LiveTold'
  <2>1. AmountOf' = AmountOf /\ Held' = Held
    BY <1>2, SameBets
  <2>. QED  BY <1>2, <2>1 DEF Quiet, Inv, LiveTold, Idle
<1>5. PaperWithinRoom'
  <2>1. \A t \in DOMAIN tasks :  RoomOf(t, tasks[t]) \in Nat
    BY RoomsTyped DEF Inv, Room
  <2>2. \A t \in DOMAIN tasks' :
            RoomOf(t, tasks'[t]) = 0 \/ (t \in DOMAIN tasks /\ RoomOf(t, tasks'[t]) <= RoomOf(t, tasks[t]))
    BY <2>1, IdleHasNone DEF Quiet, Idle
  <2>. QED  BY <1>1, <1>2, <2>2, SamePaper
<1>. QED  BY <1>1, <1>3, <1>4, <1>5 DEF Kept

\* The next round opens: the bet not sent yet can no longer be, and no evaluation is of the new round.
LEMMA NextRoundKeeps ==
  ASSUME Inv, NextRound
  PROVE  Kept'
<1>0. open' = open + 1 /\ UNCHANGED <<trades, tasks>> /\ open \in Nat
  BY DEF NextRound, Inv, Listed
<1>1. RowsTyped' /\ OneLiveBet' /\ TasksTyped'
  <2>1. RowsTyped'
    BY <1>0 DEF Inv, RowsTyped
  <2>2. OneLiveBet' /\ TasksTyped'
    BY <1>0 DEF Inv, OneLiveBet, TasksTyped
  <2>. QED  BY <2>1, <2>2
<1>2. \A n \in DOMAIN trades : trades[n].epoch \in Nat /\ trades[n].epoch <= open
  BY DEF Inv, RowsTyped, IsRow, NoneAhead
<1>3. NoneAhead'
  BY <1>0, <1>2 DEF NoneAhead
<1>4. LiveTold'
  <2>1. \A t \in DOMAIN tasks' : t[4] # open'
    BY <1>0 DEF Inv, Listed
  <2>. QED  BY <2>1 DEF LiveTold
<1>5. /\ AmountOf' = AmountOf /\ Exposed("LIVE")' = Exposed("LIVE") /\ Exposed("PAPER")' = Exposed("PAPER")
      /\ Room' = Room
  BY <1>0 DEF AmountOf, Exposed, Room
<1>6. Sendable' = {}
  BY <1>0, <1>2 DEF Sendable
<1>7. LiveWithinLimit'
  <2>. DEFINE U == Exposed("LIVE") \cup Sendable
  <2>1. U \in SUBSET DOMAIN trades /\ Exposed("LIVE") \in SUBSET U
    BY DEF Exposed, Sendable
  <2>2. /\ Sum(AmountOf, U) \in Nat /\ Sum(AmountOf, Exposed("LIVE")) \in Nat
        /\ Sum(AmountOf, Exposed("LIVE")) <= Sum(AmountOf, U)
    <3>. HIDE DEF U
    <3>. QED  BY <2>1, PartOfBets DEF Inv
  <2>3. Sum(AmountOf, U) <= GlobalLimits.maxExposure /\ GlobalLimits.maxExposure \in Nat
    BY ConfigTyped DEF Inv, LiveWithinLimit
  <2>4. (Exposed("LIVE") \cup Sendable)' = Exposed("LIVE")
    BY <1>5, <1>6
  <2>. HIDE DEF U
  <2>. QED  BY <1>5, <2>2, <2>3, <2>4 DEF LiveWithinLimit
<1>8. PaperWithinRoom'
  BY <1>0, <1>5 DEF Inv, PaperWithinRoom
<1>. QED  BY <1>1, <1>3, <1>4, <1>7, <1>8 DEF Kept

\* What becomes of a bet adds nothing to what is at risk or can still be sent.
LEMMA FateKeeps ==
  ASSUME Inv, NEW n, Fate(n)
  PROVE  Kept'
<1>0. /\ UNCHANGED <<open, tasks>> /\ DOMAIN trades' = DOMAIN trades
      /\ \A m \in DOMAIN trades : /\ IsRow(trades'[m]) /\ IsRow(trades[m])
                                  /\ trades'[m].mode = trades[m].mode /\ trades'[m].epoch = trades[m].epoch
                                  /\ trades'[m].amount = trades[m].amount
  BY DEF Fate, Inv, RowsTyped
<1>1. RowsTyped' /\ NoneAhead' /\ OneLiveBet' /\ TasksTyped'
  <2>1. RowsTyped'
    BY <1>0 DEF Inv, RowsTyped
  <2>2. NoneAhead' /\ OneLiveBet' /\ TasksTyped'
    BY <1>0 DEF Inv, NoneAhead, OneLiveBet, TasksTyped
  <2>. QED  BY <2>1, <2>2
<1>2. AmountOf' = AmountOf /\ Room' = Room
  BY <1>0 DEF AmountOf, Room
<1>. DEFINE row == trades'[n]
<1>3. /\ n \in DOMAIN trades /\ row.status # "PENDING"
      /\ row.status \in AtRisk => n \in Exposed(trades[n].mode) \cup Sendable
      /\ \A m \in DOMAIN trades \ {n} : trades'[m] = trades[m]
  BY DEF Fate
<1>4. /\ Exposed("LIVE")' \subseteq Exposed("LIVE") \cup Sendable
      /\ Exposed("PAPER")' \subseteq Exposed("PAPER")
  BY <1>0, <1>3 DEF Exposed, Sendable
<1>5. Sendable' \subseteq Sendable
  BY <1>0, <1>3 DEF Sendable
<1>6. Held' \subseteq Held
  BY <1>0, <1>3 DEF Held, Exposed, Sendable, IsRow, Inv, Listed
<1>7. GlobalLimits.maxExposure \in Nat
  BY ConfigTyped
<1>8. LiveWithinLimit'
  <2>. DEFINE U == Exposed("LIVE") \cup Sendable
              T == (Exposed("LIVE") \cup Sendable)'
  <2>1. U \in SUBSET DOMAIN trades /\ T \in SUBSET U
    BY <1>4, <1>5 DEF Exposed, Sendable
  <2>2. /\ Sum(AmountOf, U) \in Nat /\ Sum(AmountOf, T) \in Nat
        /\ Sum(AmountOf, T) <= Sum(AmountOf, U)
    <3>. HIDE DEF U, T
    <3>. QED  BY <2>1, PartOfBets DEF Inv
  <2>3. Sum(AmountOf, U) <= GlobalLimits.maxExposure
    BY DEF Inv, LiveWithinLimit
  <2>4. Sum(AmountOf, T) <= GlobalLimits.maxExposure
    <3>. HIDE DEF U, T
    <3>. QED  BY <2>2, <2>3, <1>7
  <2>. QED  BY <1>2, <2>4 DEF LiveWithinLimit
<1>9. LiveTold'
  <2>1. Held \in SUBSET DOMAIN trades /\ Held' \in SUBSET Held
    BY <1>6 DEF Held, Exposed
  <2>2. /\ Sum(AmountOf, Held) \in Nat /\ Sum(AmountOf, Held') \in Nat
        /\ Sum(AmountOf, Held') <= Sum(AmountOf, Held)
    BY <2>1, PartOfBets DEF Inv
  <2>3. /\ \A t \in DOMAIN tasks : Reading(tasks[t]) => tasks[t].state.exposure \in Int
        /\ \A t \in DOMAIN tasks : Betting(tasks[t]) => tasks[t].decision.stake \in Int
    BY ConfigTyped DEF Inv, TasksTyped
  <2>. QED  BY <1>0, <1>2, <1>7, <2>2, <2>3 DEF Inv, LiveTold
<1>10. PaperWithinRoom'
  <2>1. Exposed("PAPER") \in SUBSET DOMAIN trades /\ Exposed("PAPER")' \in SUBSET Exposed("PAPER")
    BY <1>4 DEF Exposed
  <2>. DEFINE U == Exposed("PAPER")
              T == Exposed("PAPER")'
              a == GlobalLimits.maxExposure + (MaxBusy - 1) * GlobalLimits.maxStake
  <2>2. Sum(AmountOf, U) \in Nat /\ Sum(AmountOf, T) \in Nat /\ Sum(AmountOf, T) <= Sum(AmountOf, U)
    <3>. HIDE DEF U, T
    <3>. QED  BY <2>1, PartOfBets DEF Inv, U, T
  <2>3. Sum(Room, DOMAIN tasks) \in Nat
    BY RoomIsNat DEF Inv
  <2>4. Sum(AmountOf, U) + Sum(Room, DOMAIN tasks) <= a
    BY DEF Inv, PaperWithinRoom
  <2>5. a \in Int
    BY <1>7, ConfigTyped, BoundsAssumption
  <2>6. Sum(AmountOf, T) + Sum(Room, DOMAIN tasks) <= a
    <3>. HIDE DEF U, T, a
    <3>. QED  BY <2>2, <2>3, <2>4, <2>5
  <2>. QED  BY <1>0, <1>2, <2>6 DEF PaperWithinRoom
<1>. QED  BY <1>1, <1>8, <1>9, <1>10 DEF Kept

\* More of a bounded thing is more.
LEMMA MoreStakes ==
  ASSUME NEW a \in Nat, NEW b \in Int, a <= b, NEW k \in Nat
  PROVE  a * k \in Nat /\ b * k \in Int /\ a * k <= b * k
  OBVIOUS

\* A decision to bet keeps what was read and the stake within the limit.  Live, what was read counts
\* every bet of earlier rounds still at risk; on paper, the stake takes the place of the room.
LEMMA DecidesKeeps ==
  ASSUME Inv, Listed', NEW t, Decides(t)
  PROVE  Kept'
<1>. DEFINE x == tasks[t]
            y == tasks'[t]
            max == GlobalLimits.maxExposure
<1>0. /\ UNCHANGED <<open, trades>> /\ t \in DOMAIN tasks /\ DOMAIN tasks' = DOMAIN tasks
      /\ \A u \in DOMAIN tasks \ {t} : tasks'[u] = tasks[u]
      /\ Reading(x) /\ ~Reading(y) /\ "step" \in DOMAIN y
      /\ Bounded(x.state, y.decision.stake)
  BY DEF Decides, Only
<1>1. max \in Nat /\ GlobalLimits.maxStake \in Nat
  BY ConfigTyped
<1>2. x.state.exposure \in Nat
  BY <1>0 DEF Inv, TasksTyped
<1>3. /\ y.decision.stake \in Nat /\ y.decision.stake > 0 /\ y.decision.stake <= GlobalLimits.maxStake
      /\ x.state.exposure + y.decision.stake <= max
      /\ x.state.available >= y.decision.stake + x.state.gasReserve
  BY <1>0 DEF Bounded
<1>4. TasksTyped'
  BY <1>0, <1>1, <1>3 DEF Inv, TasksTyped
<1>5. RowsTyped' /\ NoneAhead' /\ OneLiveBet' /\ LiveWithinLimit' /\ AmountOf' = AmountOf /\ Held' = Held
  BY <1>0, SameBets DEF Inv
<1>6. LiveTold'
  <2>1. Held \in SUBSET DOMAIN trades
    BY DEF Held, Exposed
  <2>2. Sum(AmountOf, Held) \in Nat
    BY <2>1, PartOfBets DEF Inv
  <2>3. ASSUME t[3] = "LIVE", t[4] = open
        PROVE  Sum(AmountOf, Held) + y.decision.stake <= max
    <3>1. Penniless(x.state) \/ Sum(AmountOf, Held) <= x.state.exposure
      BY <1>0, <2>3 DEF Inv, LiveTold
    <3>2. ~Penniless(x.state)
      BY <1>3 DEF Penniless
    <3>. QED  BY <1>1, <1>2, <1>3, <2>2, <3>1, <3>2
  <2>. QED  BY <1>0, <1>5, <2>3 DEF Inv, LiveTold
<1>7. PaperWithinRoom'
  <2>1. \A u \in DOMAIN tasks : RoomOf(u, tasks[u]) \in Nat
    BY RoomsTyped DEF Inv, Room
  <2>2. RoomOf(t, y) = 0 \/ RoomOf(t, y) <= RoomOf(t, x)
    <3>1. CASE t[3] = "PAPER" /\ Betting(y)
      <4>1. RoomOf(t, y) = y.decision.stake /\ RoomOf(t, x) = Left(x.state.exposure)
        BY <1>0, <3>1 DEF RoomOf, Reading, Betting
      <4>2. y.decision.stake <= Left(x.state.exposure)
        BY <1>1, <1>2, <1>3 DEF Left, Most2, Least2
      <4>. QED  BY <4>1, <4>2
    <3>2. CASE ~(t[3] = "PAPER" /\ Betting(y))
      BY <1>0, <3>2 DEF RoomOf
    <3>. QED  BY <3>1, <3>2
  <2>3. \A u \in DOMAIN tasks' :
            RoomOf(u, tasks'[u]) = 0 \/ (u \in DOMAIN tasks /\ RoomOf(u, tasks'[u]) <= RoomOf(u, tasks[u]))
    BY <1>0, <2>1, <2>2
  <2>. QED  BY <1>0, <1>4, <2>3, SamePaper
<1>. QED  BY <1>4, <1>5, <1>6, <1>7 DEF Kept

\* The others' rooms are at most a stake each.
LEMMA OthersRoom ==
  ASSUME TasksTyped, Listed, NEW t \in DOMAIN tasks
  PROVE  /\ Sum(Room, DOMAIN tasks \ {t}) \in Nat
         /\ Sum(Room, DOMAIN tasks) = Room[t] + Sum(Room, DOMAIN tasks \ {t})
         /\ Sum(Room, DOMAIN tasks \ {t}) <= (MaxBusy - 1) * GlobalLimits.maxStake
         /\ (MaxBusy - 1) * GlobalLimits.maxStake \in Int
<1>. DEFINE D == DOMAIN tasks \ {t}
            k == GlobalLimits.maxStake
<1>1. k \in Nat /\ MaxBusy \in Nat
  BY ConfigTyped, BoundsAssumption
<1>2. IsFiniteSet(DOMAIN tasks) /\ IsFiniteSet(D) /\ Cardinality(D) = Cardinality(DOMAIN tasks) - 1
  BY FS_RemoveElement DEF Listed
<1>3. Cardinality(D) \in Nat /\ Cardinality(DOMAIN tasks) \in Nat /\ Cardinality(DOMAIN tasks) <= MaxBusy
  BY <1>2, FS_CardinalityType DEF Listed
<1>4. \A u \in DOMAIN tasks : Room[u] \in 0 .. k /\ Room[u] \in Nat
  BY RoomsTyped
<1>5. \A u \in D : Room[u] \in 0 .. k /\ Room[u] \in Nat
  BY <1>4
<1>6. Sum(Room, DOMAIN tasks) = Room[t] + Sum(Room, D)
  <2>1. \A u \in DOMAIN tasks : Room[u] \in Int
    BY <1>4
  <2>. QED  BY <1>2, <2>1, SumWithout
<1>. HIDE DEF D, k
<1>7. Sum(Room, D) \in Nat /\ Sum(Room, D) <= Cardinality(D) * k
  BY <1>1, <1>2, <1>5, SumOfPart, SumIsBounded
<1>8. Cardinality(D) <= MaxBusy - 1 /\ MaxBusy - 1 \in Int
  BY <1>1, <1>2, <1>3
<1>9. Cardinality(D) * k <= (MaxBusy - 1) * k /\ (MaxBusy - 1) * k \in Int /\ Cardinality(D) * k \in Nat
  BY <1>1, <1>3, <1>8, MoreStakes
<1>10. Sum(Room, D) <= (MaxBusy - 1) * k
  <2>. DEFINE p == Cardinality(D) * k
              q == (MaxBusy - 1) * k
  <2>. HIDE DEF p, q
  <2>1. p \in Nat /\ q \in Int /\ p <= q /\ Sum(Room, D) \in Nat /\ Sum(Room, D) <= p
    BY <1>7, <1>9 DEF p, q
  <2>2. Sum(Room, D) <= q
    BY <2>1
  <2>. QED  BY <2>2 DEF q
<1>. QED  BY <1>6, <1>7, <1>9, <1>10 DEF D, k

\* One evaluation's room may change, the others keep theirs.
LEMMA SameOthers ==
  ASSUME Listed, NEW t \in DOMAIN tasks,
         \A u \in DOMAIN tasks \ {t} : u \in DOMAIN tasks' /\ tasks'[u] = tasks[u]
  PROVE  Sum(Room', DOMAIN tasks \ {t}) = Sum(Room, DOMAIN tasks \ {t})
<1>. DEFINE D == DOMAIN tasks \ {t}
<1>1. IsFiniteSet(D)
  BY FS_RemoveElement DEF Listed
<1>2. \A u \in D : Room'[u] = Room[u]
  BY DEF Room
<1>. HIDE DEF D
<1>3. Sum(Room', D) = Sum(Room, D)
  BY <1>1, <1>2, SumAgrees
<1>. QED  BY <1>3 DEF D

\* The ledger is read.  On paper the room that the reading makes fits under the limit beside the bets at
\* risk, whatever the other evaluations still stake: they are one less than there can be at once.
LEMMA ReadsKeeps ==
  ASSUME Inv, Listed', NEW t, Reads(t), t[3] \in {"PAPER", "LIVE"}
  PROVE  Kept'
<1>. DEFINE x == tasks[t]
            y == tasks'[t]
            s == y.state
            max == GlobalLimits.maxExposure
            k == GlobalLimits.maxStake
<1>0. /\ UNCHANGED <<open, trades>> /\ t \in DOMAIN tasks /\ DOMAIN tasks' = DOMAIN tasks
      /\ \A u \in DOMAIN tasks \ {t} : tasks'[u] = tasks[u]
      /\ Idle(x) /\ ~Betting(y) /\ "step" \in DOMAIN y
      /\ s.bankroll \in Int /\ s.exposure \in Nat
      /\ (t[3] = "LIVE" /\ Penniless(s)) \/ Sum(AmountOf, Exposed(t[3])) <= s.exposure
  BY DEF Reads, Only
<1>1. max \in Nat /\ k \in Nat
  BY ConfigTyped
<1>2. TasksTyped'
  BY <1>0 DEF Inv, TasksTyped
<1>3. RowsTyped' /\ NoneAhead' /\ OneLiveBet' /\ LiveWithinLimit'
  BY <1>0, SameBets DEF Inv
<1>4. AmountOf' = AmountOf /\ Held' = Held /\ Exposed("PAPER")' = Exposed("PAPER")
  BY <1>0, SameBets
<1>5. LiveTold'
  <2>1. Exposed("LIVE") \in SUBSET DOMAIN trades /\ Held \in SUBSET Exposed("LIVE")
    BY DEF Held, Exposed
  <2>2. /\ Sum(AmountOf, Held) \in Nat /\ Sum(AmountOf, Exposed("LIVE")) \in Nat
        /\ Sum(AmountOf, Held) <= Sum(AmountOf, Exposed("LIVE"))
    BY <2>1, PartOfBets DEF Inv
  <2>3. t[3] = "LIVE" => Penniless(s) \/ Sum(AmountOf, Held) <= s.exposure
    BY <1>0, <2>2
  <2>. QED  BY <1>0, <1>4, <2>3 DEF Inv, LiveTold
<1>6. CASE t[3] = "LIVE"
  <2>1. \A u \in DOMAIN tasks : RoomOf(u, tasks[u]) \in Nat
    BY RoomsTyped DEF Inv, Room
  <2>2. RoomOf(t, y) = 0
    BY <1>6, LiveHasNone
  <2>3. \A u \in DOMAIN tasks' :
            RoomOf(u, tasks'[u]) = 0 \/ (u \in DOMAIN tasks /\ RoomOf(u, tasks'[u]) <= RoomOf(u, tasks[u]))
    BY <1>0, <2>1, <2>2
  <2>4. PaperWithinRoom'
    BY <1>0, <1>2, <2>3, SamePaper
  <2>. QED  BY <1>2, <1>3, <1>5, <2>4 DEF Kept
<1>7. CASE t[3] = "PAPER"
  <2>. DEFINE D == DOMAIN tasks \ {t}
              E == Sum(AmountOf, Exposed("PAPER"))
              O == Sum(Room, D)
              q == (MaxBusy - 1) * k
  <2>1. Reading(y) \/ ~Reading(y)
    OBVIOUS
  <2>2. /\ O \in Nat /\ q \in Int /\ O <= q
        /\ Sum(Room, DOMAIN tasks) = Room[t] + O
    BY <1>0, OthersRoom DEF Inv
  <2>3. Room[t] = 0
    BY <1>0, IdleHasNone DEF Room, Idle
  <2>4. E + O <= max + q
    BY <2>2, <2>3 DEF Inv, PaperWithinRoom
  <2>5. E \in Nat /\ E <= s.exposure
    BY <1>0, <1>7, PartOfBets DEF Inv, Exposed
  <2>6. Sum(Room', DOMAIN tasks') = Room'[t] + Sum(Room', D)
    <3>1. \A u \in DOMAIN tasks' : Room'[u] \in Int
      <4>1. \A u \in DOMAIN tasks' : RoomOf(u, tasks'[u]) \in 0 .. k
        BY <1>2, RoomTyped DEF TasksTyped
      <4>. QED  BY <1>1, <4>1 DEF Room
    <3>2. IsFiniteSet(DOMAIN tasks')
      BY DEF Listed
    <3>. QED  BY <1>0, <3>1, <3>2, SumWithout
  <2>7. Sum(Room', D) = O
    BY <1>0, SameOthers DEF Inv
  <2>8. Room'[t] = 0 \/ Room'[t] = Left(s.exposure)
    BY <1>0 DEF Room, RoomOf
  <2>9. E + Sum(Room', DOMAIN tasks') <= max + q
    <3>. HIDE DEF E, O, q, D
    <3>1. CASE Room'[t] = 0
      BY <2>2, <2>4, <2>5, <2>6, <2>7, <3>1
    <3>2. CASE Room'[t] = Left(s.exposure)
      <4>1. Left(s.exposure) = 0 \/ (Left(s.exposure) \in Nat /\ Left(s.exposure) <= max - s.exposure)
        BY <1>0, <1>1 DEF Left, Most2, Least2
      <4>. HIDE DEF s, max
      <4>. QED  BY <1>0, <1>1, <2>2, <2>4, <2>5, <2>6, <2>7, <3>2, <4>1
    <3>. QED  BY <2>8, <3>1, <3>2
  <2>10. PaperWithinRoom'
    BY <1>4, <2>9 DEF PaperWithinRoom
  <2>. QED  BY <1>2, <1>3, <1>5, <2>10 DEF Kept
<1>. QED  BY <1>6, <1>7

\* What a bet placed leaves: the row is new, the others are as before.
LEMMA BetsKeeps ==
  ASSUME Inv, Listed', NEW t, Bets(t), t[3] \in {"PAPER", "LIVE"}
  PROVE  Kept'
<1>. DEFINE n == Of(t)
            row == trades'[n]
            stake == tasks[t].decision.stake
            max == GlobalLimits.maxExposure
            k == GlobalLimits.maxStake
            D == DOMAIN tasks \ {t}
<1>0. /\ open' = open /\ t \in DOMAIN tasks /\ Betting(tasks[t]) /\ tasks' = Without(t)
      /\ n \notin DOMAIN trades /\ UidFree(t)
      /\ DOMAIN trades' = DOMAIN trades \cup {n}
      /\ \A m \in DOMAIN trades : trades'[m] = trades[m]
      /\ {"status", "payout", "gasCost", "claimGasCost"} \subseteq DOMAIN row
      /\ row.mode = t[3] /\ row.epoch = t[4] /\ row.amount = stake
      /\ row.status = IF t[3] = "PAPER" THEN "CONFIRMED" ELSE "PENDING"
      /\ row.payout = Null /\ {row.gasCost, row.claimGasCost} \subseteq Optional
  BY DEF Bets
<1>1. max \in Nat /\ k \in Nat /\ stake \in Nat
  BY <1>0, ConfigTyped DEF Inv, TasksTyped
<1>2. DOMAIN tasks' = D /\ \A u \in D : tasks'[u] = tasks[u]
  BY <1>0, WithoutOne
<1>3. t[4] \in Nat /\ t[4] <= open /\ open \in Nat
  BY <1>0 DEF Inv, Listed
<1>4. IsRow(row)
  BY <1>0, <1>1, <1>3 DEF IsRow, Optional
<1>. HIDE DEF n, row, stake
<1>5. RowsTyped'
  <2>1. IsFiniteSet(DOMAIN trades')
    BY <1>0, FS_AddElement DEF Inv, RowsTyped
  <2>2. \A m \in DOMAIN trades' : IsRow(trades'[m])
    BY <1>0, <1>4 DEF Inv, RowsTyped, row
  <2>. QED  BY <2>1, <2>2 DEF RowsTyped
<1>6. NoneAhead'
  BY <1>0, <1>3 DEF Inv, NoneAhead, row
<1>7. TasksTyped'
  BY <1>2 DEF Inv, TasksTyped
<1>8. OneLiveBet'
  BY <1>0 DEF Inv, OneLiveBet, UidFree, row
<1>9. \A m \in DOMAIN trades : AmountOf'[m] = AmountOf[m]
  BY <1>0 DEF AmountOf
<1>10. AmountOf'[n] = stake
  BY <1>0 DEF AmountOf, row
<1>11. \A T \in SUBSET DOMAIN trades : Sum(AmountOf', T) = Sum(AmountOf, T) /\ Sum(AmountOf, T) \in Nat
  <2>. SUFFICES ASSUME NEW T \in SUBSET DOMAIN trades
                PROVE  Sum(AmountOf', T) = Sum(AmountOf, T) /\ Sum(AmountOf, T) \in Nat
    OBVIOUS
  <2>1. IsFiniteSet(T) /\ Sum(AmountOf, T) \in Nat
    BY PartOfBets DEF Inv
  <2>2. \A m \in T : AmountOf'[m] = AmountOf[m]
    BY <1>9
  <2>. QED  BY <2>1, <2>2, SumAgrees
<1>12. \A T \in SUBSET DOMAIN trades : Sum(AmountOf', T \cup {n}) = stake + Sum(AmountOf, T)
  <2>. SUFFICES ASSUME NEW T \in SUBSET DOMAIN trades
                PROVE  Sum(AmountOf', T \cup {n}) = stake + Sum(AmountOf, T)
    OBVIOUS
  <2>1. IsFiniteSet(T) /\ \A m \in T : AmountOf[m] \in Nat
    BY PartOfBets DEF Inv
  <2>2. IsFiniteSet(T \cup {n})
    BY <2>1, FS_AddElement
  <2>3. \A m \in T \cup {n} : AmountOf'[m] \in Int
    BY <1>1, <1>9, <1>10, <2>1
  <2>4. (T \cup {n}) \ {n} = T
    BY <1>0
  <2>5. Sum(AmountOf', T \cup {n}) = AmountOf'[n] + Sum(AmountOf', (T \cup {n}) \ {n})
    BY <2>2, <2>3, SumWithout
  <2>. QED  BY <1>10, <1>11, <2>4, <2>5
<1>13. \A e : Exposed(e) \in SUBSET DOMAIN trades
  BY DEF Exposed
<1>14. Sendable \in SUBSET DOMAIN trades /\ Held \in SUBSET DOMAIN trades
  BY DEF Sendable, Held, Exposed
<1>15. "CONFIRMED" \in AtRisk /\ "PENDING" \notin AtRisk
  BY DEF AtRisk
<1>16. CASE t[3] = "LIVE"
  <2>1. row.mode = "LIVE" /\ row.status = "PENDING" /\ row.epoch = t[4]
    BY <1>0, <1>16
  <2>2. Exposed("LIVE")' = Exposed("LIVE") /\ Exposed("PAPER")' = Exposed("PAPER")
    BY <1>0, <1>15, <2>1 DEF Exposed, row
  <2>3. Held' = Held
    BY <1>0, <2>2, <1>13 DEF Held
  <2>4. LiveWithinLimit'
    <3>1. CASE t[4] = open
      <4>1. \A m \in DOMAIN trades : ~(trades[m].mode = "LIVE" /\ trades[m].epoch = open)
        BY <1>0, <1>16, <3>1 DEF UidFree
      <4>2. Sendable' = {n}
        BY <1>0, <2>1, <3>1, <4>1 DEF Sendable, row
      <4>3. Exposed("LIVE") = Held
        BY <1>3, <4>1 DEF Exposed, Held, Inv, NoneAhead, RowsTyped, IsRow
      <4>4. Sum(AmountOf, Held) + stake <= max
        BY <1>0, <1>16, <3>1 DEF Inv, LiveTold, stake
      <4>5. Sum(AmountOf', Held \cup {n}) <= max
        BY <1>1, <1>11, <1>12, <1>14, <4>4
      <4>. QED  BY <2>2, <4>2, <4>3, <4>5 DEF LiveWithinLimit
    <3>2. CASE t[4] # open
      <4>1. Sendable' = Sendable
        BY <1>0, <2>1, <3>2 DEF Sendable, row
      <4>2. Sum(AmountOf', Exposed("LIVE") \cup Sendable) = Sum(AmountOf, Exposed("LIVE") \cup Sendable)
        BY <1>11, <1>13, <1>14
      <4>. QED  BY <2>2, <4>1, <4>2 DEF LiveWithinLimit, Inv
    <3>. QED  BY <3>1, <3>2
  <2>5. LiveTold'
    <3>1. Sum(AmountOf', Held') = Sum(AmountOf, Held)
      BY <1>11, <1>14, <2>3
    <3>. QED  BY <1>0, <1>2, <3>1 DEF Inv, LiveTold
  <2>6. PaperWithinRoom'
    <3>1. /\ Sum(Room, D) \in Nat /\ Sum(Room, DOMAIN tasks) = Room[t] + Sum(Room, D)
      BY <1>0, OthersRoom DEF Inv
    <3>2. Room[t] = 0
      BY <1>0, <1>16, LiveHasNone DEF Room
    <3>3. Sum(Room', D) = Sum(Room, D)
      BY <1>0, <1>2, SameOthers DEF Inv
    <3>4. Sum(AmountOf', Exposed("PAPER")) = Sum(AmountOf, Exposed("PAPER"))
      BY <1>11, <1>13
    <3>5. Sum(Room', DOMAIN tasks') = Sum(Room, DOMAIN tasks)
      BY <1>2, <3>1, <3>2, <3>3
    <3>. QED  BY <2>2, <3>4, <3>5 DEF Inv, PaperWithinRoom
  <2>. QED  BY <1>5, <1>6, <1>7, <1>8, <2>4, <2>5, <2>6 DEF Kept
<1>17. CASE t[3] = "PAPER"
  <2>1. row.mode = "PAPER" /\ row.status = "CONFIRMED"
    BY <1>0, <1>17
  <2>2. Exposed("LIVE")' = Exposed("LIVE") /\ Sendable' = Sendable
    BY <1>0, <2>1 DEF Exposed, Sendable, row
  <2>3. Exposed("PAPER")' = Exposed("PAPER") \cup {n}
    BY <1>0, <1>15, <2>1 DEF Exposed, row
  <2>4. Held' = Held
    BY <1>0, <2>2, <1>13 DEF Held
  <2>5. LiveWithinLimit'
    <3>1. Sum(AmountOf', Exposed("LIVE") \cup Sendable) = Sum(AmountOf, Exposed("LIVE") \cup Sendable)
      BY <1>11, <1>13, <1>14
    <3>. QED  BY <2>2, <3>1 DEF LiveWithinLimit, Inv
  <2>6. LiveTold'
    <3>1. Sum(AmountOf', Held') = Sum(AmountOf, Held)
      BY <1>11, <1>14, <2>4
    <3>. QED  BY <1>0, <1>2, <3>1 DEF Inv, LiveTold
  <2>7. PaperWithinRoom'
    <3>1. /\ Sum(Room, D) \in Nat /\ Sum(Room, DOMAIN tasks) = Room[t] + Sum(Room, D)
      BY <1>0, OthersRoom DEF Inv
    <3>2. Room[t] = stake
      BY <1>0, <1>17 DEF Room, RoomOf, Reading, Betting, stake
    <3>3. Sum(Room', D) = Sum(Room, D)
      BY <1>0, <1>2, SameOthers DEF Inv
    <3>4. Sum(AmountOf', Exposed("PAPER") \cup {n}) = stake + Sum(AmountOf, Exposed("PAPER"))
      BY <1>12, <1>13
    <3>5. Sum(AmountOf, Exposed("PAPER")) \in Nat
      BY <1>11, <1>13
    <3>. DEFINE q == (MaxBusy - 1) * k
    <3>6. Sum(AmountOf, Exposed("PAPER")) + Sum(Room, DOMAIN tasks) <= max + q /\ q \in Int
      BY <1>0, OthersRoom DEF Inv, PaperWithinRoom
    <3>. HIDE DEF q, k, max, D
    <3>7. stake + Sum(AmountOf, Exposed("PAPER")) + Sum(Room, D) <= max + q
      BY <1>1, <3>1, <3>2, <3>5, <3>6
    <3>. QED  BY <1>2, <2>3, <3>3, <3>4, <3>7 DEF PaperWithinRoom, q, k, max
  <2>. QED  BY <1>5, <1>6, <1>7, <1>8, <2>5, <2>6, <2>7 DEF Kept
<1>. QED  BY <1>16, <1>17

-----------------------------------------------------------------------------
\* The theorems.

\* The inductive invariant holds at first: nothing is bet, and no evaluation is under way.
LEMMA InitInv == Init => Inv
<1>. SUFFICES ASSUME Init
              PROVE  Inv
  OBVIOUS
<1>1. open = 1 /\ trades = <<>> /\ decisions = <<>> /\ tasks = <<>> /\ modes \in Flags
  BY DEF Init
<1>2. DOMAIN trades = {} /\ DOMAIN decisions = {} /\ DOMAIN tasks = {}
  BY <1>1
<1>3. /\ GlobalLimits.maxExposure \in Nat /\ GlobalLimits.maxStake \in Nat
      /\ GlobalLimits.maxStake <= GlobalLimits.maxExposure /\ MaxBusy \in Nat
  BY ConfigTyped, BoundsAssumption
<1>4. EveryBetExplained /\ RowsTyped /\ NoneAhead /\ TasksTyped /\ OneLiveBet
  BY <1>2, FS_EmptySet DEF EveryBetExplained, RowsTyped, NoneAhead, TasksTyped, OneLiveBet
<1>5. Listed
  <2>1. IsFiniteSet(DOMAIN tasks) /\ Cardinality(DOMAIN tasks) = 0
    BY <1>2, FS_EmptySet
  <2>. QED  BY <1>1, <1>2, <1>3, <2>1, FlagsAssumption DEF Listed
<1>6. Exposed("LIVE") = {} /\ Exposed("PAPER") = {} /\ Sendable = {}
  BY <1>2 DEF Exposed, Sendable
<1>7. LiveWithinLimit
  <2>1. Exposed("LIVE") \cup Sendable = {}
    BY <1>6
  <2>. QED  BY <1>3, <2>1, SumOfNone DEF LiveWithinLimit
<1>8. LiveTold
  BY <1>2 DEF LiveTold
<1>9. PaperWithinRoom
  <2>. DEFINE max == GlobalLimits.maxExposure
              k == GlobalLimits.maxStake
              q == (MaxBusy - 1) * k
  <2>1. 0 <= max + q
    <3>1. CASE MaxBusy = 0
      <4>1. q = 0 - k
        BY <3>1, <1>3
      <4>. QED  BY <1>3, <4>1
    <3>2. CASE MaxBusy # 0
      <4>1. MaxBusy - 1 \in Nat
        BY <1>3, <3>2
      <4>2. q \in Nat
        BY <1>3, <4>1, MoreStakes
      <4>. QED  BY <1>3, <4>2
    <3>. QED  BY <3>1, <3>2
  <2>2. Sum(AmountOf, Exposed("PAPER")) = 0 /\ Sum(Room, DOMAIN tasks) = 0
    BY <1>2, <1>6, SumOfNone
  <2>. HIDE DEF q
  <2>3. Sum(AmountOf, Exposed("PAPER")) + Sum(Room, DOMAIN tasks) <= max + q
    BY <2>1, <2>2
  <2>. QED  BY <2>3 DEF PaperWithinRoom, q
<1>. QED  BY <1>4, <1>5, <1>7, <1>8, <1>9 DEF Inv

\* A step that changes nothing keeps it.
LEMMA StutterInv ==
  ASSUME Inv, UNCHANGED vars
  PROVE  Inv'
<1>1. Quiet
  BY DEF vars, Quiet
<1>2. Listed'
  BY FewerListed DEF vars, Inv
<1>3. EveryBetExplained'
  BY DEF vars, Inv, EveryBetExplained
<1>. QED  BY <1>1, <1>2, <1>3, QuietKeeps DEF Inv, Kept

\* Every reachable state satisfies the inductive invariant.
THEOREM Invariance == Spec => []Inv
<1>1. Inv /\ [Next]_vars => Inv'
  <2>. SUFFICES ASSUME Inv, Next
                PROVE  Inv'
    BY StutterInv
  <2>1. Listed'
    BY ListedStep DEF Inv
  <2>2. EveryBetExplained'
    BY ExplainedStep DEF Inv
  <2>3. Kept'
    <3>1. \A t \in DOMAIN tasks : t[3] \in {"PAPER", "LIVE"}
      BY DEF Inv, Listed
    <3>2. \/ Quiet \/ NextRound
          \/ \E t \in DOMAIN tasks : Reads(t) \/ Decides(t) \/ Bets(t)
          \/ \E n \in DOMAIN trades : Fate(n)
      BY StepIsCore DEF Inv
    <3>. QED  BY <2>1, <3>1, <3>2, QuietKeeps, NextRoundKeeps, ReadsKeeps, DecidesKeeps, BetsKeeps,
                 FateKeeps
  <2>. QED  BY <2>1, <2>2, <2>3 DEF Inv, Kept
<1>. QED  BY <1>1, InitInv, PTL DEF Spec

\* Whatever the strategies of overlapping ticks, manual orders and two processes read and decide, and
\* wherever processes die, the live stakes at risk stay within MAX_TOTAL_EXPOSURE.
THEOREM LiveExposureStays == Spec => []LiveExposureHolds
<1>1. Inv => LiveExposureHolds
  <2>. SUFFICES ASSUME Inv
                PROVE  LiveExposureHolds
    OBVIOUS
  <2>. DEFINE U == Exposed("LIVE") \cup Sendable
  <2>1. U \in SUBSET DOMAIN trades /\ Exposed("LIVE") \in SUBSET U
    BY DEF Exposed, Sendable
  <2>2. /\ Sum(AmountOf, U) \in Nat /\ Sum(AmountOf, Exposed("LIVE")) \in Nat
        /\ Sum(AmountOf, Exposed("LIVE")) <= Sum(AmountOf, U)
    <3>. HIDE DEF U
    <3>. QED  BY <2>1, PartOfBets DEF Inv
  <2>3. Sum(AmountOf, U) <= GlobalLimits.maxExposure /\ GlobalLimits.maxExposure \in Nat
    BY ConfigTyped DEF Inv, LiveWithinLimit
  <2>4. Sum(AmountOf, Exposed("LIVE")) <= GlobalLimits.maxExposure
    <3>. HIDE DEF U
    <3>. QED  BY <2>2, <2>3
  <2>. QED  BY <2>4, Zenon DEF LiveExposureHolds, AmountOf, Exposed
<1>. QED  BY <1>1, Invariance, PTL

\* On paper they overshoot it by at most a stake of each of the other evaluations that can be under way
\* at once.
THEOREM PaperOvershootStays == Spec => []PaperOvershootBounded
<1>1. Inv => PaperOvershootBounded
  <2>. SUFFICES ASSUME Inv
                PROVE  PaperOvershootBounded
    OBVIOUS
  <2>. DEFINE q == (MaxBusy - 1) * GlobalLimits.maxStake
  <2>1. Sum(AmountOf, Exposed("PAPER")) + Sum(Room, DOMAIN tasks) <= GlobalLimits.maxExposure + q
    BY DEF Inv, PaperWithinRoom
  <2>2. Sum(Room, DOMAIN tasks) \in Nat
    BY RoomIsNat DEF Inv
  <2>3. Sum(AmountOf, Exposed("PAPER")) \in Nat
    BY PartOfBets DEF Inv, Exposed
  <2>4. q \in Int /\ GlobalLimits.maxExposure \in Nat
    BY ConfigTyped, BoundsAssumption
  <2>. HIDE DEF q
  <2>5. Sum(AmountOf, Exposed("PAPER")) <= GlobalLimits.maxExposure + q
    BY <2>1, <2>2, <2>3, <2>4
  <2>. QED  BY <2>5, Zenon DEF PaperOvershootBounded, AmountOf, Exposed, q
<1>. QED  BY <1>1, Invariance, PTL
=============================================================================
