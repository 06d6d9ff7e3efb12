----------------------------- MODULE RiskRules ------------------------------
(***************************************************************************)
(* The risk engine (packages/core/src/risk.ts): how a strategy's limits    *)
(* are merged into the global ones, and the rules a bet has to pass.  It   *)
(* is pure, and the backtest, paper and live paths all call it.            *)
(*                                                                         *)
(* Amounts and P&L are integers.  Confidence and expected value are whole  *)
(* hundredths, fractions of the bankroll parts of FractionScale.  A limit  *)
(* a strategy leaves unset is Null in its overrides.                       *)
(***************************************************************************)
EXTENDS RoundRules

CONSTANT FractionScale     \* SCALE of mulWeiByFraction

ASSUME ScaleAssumption == FractionScale \in Nat \ {0}

Least2(a, b) == IF b < a THEN b ELSE a
Most2(a, b) == IF b > a THEN b ELSE a

mulWeiByFraction(wei, fraction) == (wei * fraction) \div FractionScale

Optional == Nat \cup {Null}

\* The limits as risk.ts types them; the stop loss, the gas price and the edge may be absent.
IsLimits(l) ==
  /\ {l.maxStake, l.minStake, l.escalationStake, l.escalationStreak, l.bankrollFraction,
      l.maxDailyLoss, l.maxConsecutiveLosses, l.cooldownRounds, l.maxExposure, l.minBalance,
      l.minConfidence, l.minSeconds} \subseteq Nat
  /\ {l.maxGasPrice, l.stopLoss} \subseteq Optional
  /\ l.minEdge \in Int \cup {Null}
  /\ l.liveNeedsEdge \in BOOLEAN

-----------------------------------------------------------------------------
\* mergeLimits: a strategy can only tighten the global limits.

PlainMin(a, b) == IF b = Null THEN a ELSE Least2(a, b)     \* fault: zero taken as a limit of zero

\* Zero is "no limit" on either side.
minPositive(a, b) ==
  CASE b \in {Null, 0} -> a
    [] b \notin {Null, 0} /\ a = 0 -> b
    [] OTHER -> Least2(a, b)

minNullable(a, b) ==
  CASE b = Null -> a
    [] b # Null /\ a = Null -> b
    [] OTHER -> Least2(a, b)

maxNullable(a, b) ==
  CASE b = Null -> a
    [] b # Null /\ a = Null -> b
    [] OTHER -> Most2(a, b)

mergeLimits(g, o) ==
  [maxStake             |-> minNullable(g.maxStake, o.maxStake),
   minStake             |-> g.minStake,
   escalationStake      |-> minPositive(g.escalationStake, o.escalationStake),
   escalationStreak     |-> maxNullable(g.escalationStreak, o.escalationStreak),
   bankrollFraction     |-> minNullable(g.bankrollFraction, o.bankrollFraction),
   maxDailyLoss         |-> minPositive(g.maxDailyLoss, o.maxDailyLoss),
   maxConsecutiveLosses |-> minPositive(g.maxConsecutiveLosses, o.maxConsecutiveLosses),
   cooldownRounds       |-> maxNullable(g.cooldownRounds, o.cooldownRounds),
   maxExposure          |-> minNullable(g.maxExposure, o.maxExposure),
   minBalance           |-> maxNullable(g.minBalance, o.minBalance),
   maxGasPrice          |-> minNullable(g.maxGasPrice, o.maxGasPrice),
   stopLoss             |-> minNullable(g.stopLoss, o.stopLoss),
   minConfidence        |-> maxNullable(g.minConfidence, o.minConfidence),
   minEdge              |-> maxNullable(g.minEdge, o.minEdge),
   minSeconds           |-> maxNullable(g.minSeconds, o.minSeconds),
   liveNeedsEdge        |-> g.liveNeedsEdge \/ o.liveNeedsEdge = TRUE]

-----------------------------------------------------------------------------
\* evaluateRisk(i): i holds mode, stake, confidence, edge, minBet, limits, state and gates.

fractionCap(l, s) == mulWeiByFraction(s.bankroll, l.bankrollFraction)

Floored(l, stake) == Most2(stake, l.minStake)

EscalationLocked(l, s) == l.escalationStake > 0 /\ s.lossStreak < l.escalationStreak

Gated(l, s, stake) ==
  IF EscalationLocked(l, s) THEN Least2(Floored(l, stake), l.escalationStake) ELSE Floored(l, stake)

\* The stake the rules are applied to, and the one placed if they all pass.
Stake(l, s, stake) == Least2(Least2(Gated(l, s, stake), l.maxStake), fractionCap(l, s))

InCooldown(l, s) ==
  /\ l.maxConsecutiveLosses > 0
  /\ s.lossStreak >= l.maxConsecutiveLosses
  /\ s.roundsSinceLastLoss # Null
  /\ s.roundsSinceLastLoss <= l.cooldownRounds

\* The rules after the gates.
Rules ==
  {"ROUND_VALID", "SINGLE_BET_PER_ROUND", "MIN_CONFIDENCE", "MIN_EXPECTED_EDGE",
   "POSITIVE_EXPECTED_VALUE", "MIN_STAKE", "MIN_BET", "MAX_DAILY_LOSS", "STOP_LOSS",
   "CONSECUTIVE_LOSSES", "MAX_EXPOSURE", "SUFFICIENT_BALANCE", "MIN_WALLET_BALANCE",
   "MAX_GAS_PRICE"}

\* Whether a bet of `stake` satisfies one rule of the limits l.
Passes(rule, l, i, stake) ==
  LET s == i.state IN
  CASE rule = "ROUND_VALID" -> s.roundOpen /\ s.secondsToLock >= l.minSeconds
    [] rule = "SINGLE_BET_PER_ROUND" -> ~s.alreadyBetThisRound
    [] rule = "MIN_CONFIDENCE" -> i.confidence >= l.minConfidence
    [] rule = "MIN_EXPECTED_EDGE" -> l.minEdge = Null \/ (i.edge # Null /\ i.edge >= l.minEdge)
    [] rule = "POSITIVE_EXPECTED_VALUE" ->
         i.mode # "LIVE" \/ ~l.liveNeedsEdge \/ (i.edge # Null /\ i.edge > 0)
    [] rule = "MIN_STAKE" -> stake >= l.minStake
    [] rule = "MIN_BET" -> stake >= i.minBet /\ stake > 0
    [] rule = "MAX_DAILY_LOSS" -> l.maxDailyLoss = 0 \/ s.dailyNetPnl > -l.maxDailyLoss
    [] rule = "STOP_LOSS" -> l.stopLoss = Null \/ s.strategyNetPnl > -l.stopLoss
    [] rule = "CONSECUTIVE_LOSSES" -> ~InCooldown(l, s)
    [] rule = "MAX_EXPOSURE" -> s.exposure + stake <= l.maxExposure
    [] rule = "SUFFICIENT_BALANCE" -> s.available >= stake + s.gasReserve
    [] rule = "MIN_WALLET_BALANCE" -> s.available - (stake + s.gasReserve) >= l.minBalance
    [] rule = "MAX_GAS_PRICE" ->
         l.maxGasPrice = Null \/ s.gasPrice = Null \/ s.gasPrice <= l.maxGasPrice

Approved(l, i, stake) ==
  /\ \A g \in DOMAIN i.gates : i.gates[g]
  /\ \A rule \in Rules : Passes(rule, l, i, stake)

\* Every rule is evaluated, also when one has failed: the decision keeps the whole list.
evaluateRisk(i) ==
  LET stake == Stake(i.limits, i.state, i.stake)
  IN  [approved |-> Approved(i.limits, i, stake), stake |-> stake]

-----------------------------------------------------------------------------
\* What the limits l promise of a bet of `stake`, however it was sized.
WithinLimits(l, i, stake) ==
  /\ \A rule \in Rules : Passes(rule, l, i, stake)
  /\ stake <= l.maxStake
  /\ stake <= fractionCap(l, i.state)
  /\ EscalationLocked(l, i.state) => stake <= l.escalationStake
=============================================================================
