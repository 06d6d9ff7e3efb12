------------------------------ MODULE Pipeline ------------------------------
(***************************************************************************)
(* From a strategy's configuration to a decision (packages/core/src/       *)
(* strategy/config.ts, context.ts, pipeline.ts, and the expected value of  *)
(* edge.ts): what the strategy is shown, how its signal is sized, and what *)
(* the risk engine makes of it.  Backtest, paper and live share this.      *)
(*                                                                         *)
(* A configuration holds plugin, params, entrySeconds, minSeconds, sizing, *)
(* directions and limits (only the limits it sets).                        *)
(***************************************************************************)
EXTENDS Strategies, RiskRules

-----------------------------------------------------------------------------
\* config.ts.

LimitKeys ==
  {"maxStake", "bankrollFraction", "maxDailyLoss", "maxConsecutiveLosses", "cooldownRounds",
   "maxExposure", "stopLoss", "minConfidence", "minEdge"}

SizingModes == {"FIXED", "BANKROLL_FRACTION", "SIGNAL"}

defaultStrategyConfig(plugin, fixed) ==
  [plugin |-> plugin, params |-> defaultParams(plugin), entrySeconds |-> 30, minSeconds |-> 8,
   sizing |-> [mode |-> "FIXED", fixed |-> fixed, fraction |-> FractionScale \div 100],
   directions |-> "BOTH", limits |-> <<>>]

ValidConfig(cfg) ==
  /\ validateParams(cfg.plugin, cfg.params)
  /\ cfg.entrySeconds \in 1 .. 300
  /\ cfg.minSeconds \in 1 .. 120 /\ cfg.minSeconds < cfg.entrySeconds
  /\ cfg.sizing.mode \in SizingModes
  /\ cfg.sizing.fixed \in Nat /\ cfg.sizing.fraction \in 0 .. FractionScale
  /\ cfg.directions \in {"BOTH", "BULL_ONLY", "BEAR_ONLY"}
  /\ DOMAIN cfg.limits \subseteq LimitKeys
  /\ \A k \in DOMAIN cfg.limits : cfg.limits[k] \in Nat
  /\ "bankrollFraction" \in DOMAIN cfg.limits => cfg.limits["bankrollFraction"] <= FractionScale
  /\ "minConfidence" \in DOMAIN cfg.limits => cfg.limits["minConfidence"] <= 100

\* raw may leave out any part, and any part of params and sizing; Null if it is not accepted.
parseStrategyConfig(plugin, raw) ==
  LET default == defaultStrategyConfig(plugin, 1)
      Given(k) == IF k \in DOMAIN raw THEN raw[k] ELSE default[k]
      Part(k) == IF k \in DOMAIN raw /\ DOMAIN raw[k] # DOMAIN default[k] THEN raw[k] @@ default[k] ELSE Given(k)
      config == [plugin |-> plugin, params |-> Part("params"), sizing |-> Part("sizing"),
                 entrySeconds |-> Given("entrySeconds"), minSeconds |-> Given("minSeconds"),
                 directions |-> Given("directions"), limits |-> Given("limits")]
  IN  IF ValidConfig(config) THEN config ELSE Null

GlobalOnly == {"escalationStake", "escalationStreak", "minBalance", "maxGasPrice", "liveNeedsEdge"}

strategyLimitOverrides(cfg) ==
  [k \in LimitKeys \cup GlobalOnly \cup {"minSeconds"} |->
     IF k \in DOMAIN cfg.limits THEN cfg.limits[k]
     ELSE IF k = "minSeconds" THEN cfg.minSeconds ELSE Null]

-----------------------------------------------------------------------------
\* context.ts: what was knowable at `now`.

OWN_TRADES_LOOKBACK == 20

knownAt(r) == IF r.outcome = "CANCELLED" THEN r.closeTime + BufferSeconds ELSE r.closeTime

KnownOnceLocked(r, now) == r.lockTime # Null /\ r.lockTime <= now   \* fault: the running round is shown

isKnownAt(r, now) == r.closeTime # Null /\ knownAt(r) <= now

\* The last n elements of s.
LastN(s, n) == SubSeq(s, Max({1, Len(s) - n + 1}), Len(s))

\* The strategy's own trades of earlier rounds, latest first.
OwnTrades(entries, epoch) ==
  LET latest == LastN(entries, OWN_TRADES_LOOKBACK)
  IN  Reverse(Picked(latest, {n \in DOMAIN latest : latest[n].epoch < epoch}))

\* A round as a strategy is shown it.
toRoundView(r) == [outcome |-> r.outcome, closePrice |-> r.closePrice]

\* i.live holds the round before, if it is there.
buildContext(i) ==
  LET known == Picked(i.history, {n \in DOMAIN i.history : /\ i.history[n].epoch < i.epoch
                                                      /\ isKnownAt(i.history[n], i.now)})
      shown == LastN(known, i.lookback)
      own == OwnTrades(i.ownTrades, i.epoch)
      live == {r \in i.live : r.epoch = i.epoch - 1 /\ r.lockTime # Null /\ r.lockTime <= i.now}
  IN  [epoch     |-> i.epoch,
       history   |-> [n \in DOMAIN shown |-> toRoundView(shown[n])],
       livePrice |-> IF live = {} THEN Null ELSE (CHOOSE r \in live : TRUE).lockPrice,
       ownTrades |-> [n \in DOMAIN own |-> [epoch |-> own[n].epoch, direction |-> own[n].direction,
                                            amount |-> own[n].amount, result |-> own[n].result]],
       bankroll  |-> i.bankroll,
       payouts   |-> IF i.pool = Null THEN Null
                     ELSE [d \in Directions |-> payoutMultiplier(i.pool, d, 100)]]

lookbackFor(cfg) == Max({1, Min({10000, lookback(cfg.plugin, cfg.params)})})

-----------------------------------------------------------------------------
\* edge.ts: expected net profit per unit staked, in whole hundredths, rounded down.

\* costs: gasBet, gasClaim and balancePull (hundredths of the way to an even pool).
expectedValue(confidence, direction, pool, stake, costs) ==
  LET total == pool.bullAmount + pool.bearAmount
      side == SideOf(pool, direction)
      pull == Max({0, Min({100, costs.balancePull})})
      \* 200 times the side's expected final size, and the multiplier in hundredths
      finalSide == 200 * side + pull * (total - 2 * side)
      multiplier == (2 * (total + stake) * (BPS_DENOMINATOR - FeeBps)) \div (finalSide + 200 * stake)
  IN  IF stake <= 0 THEN Null
      ELSE (confidence * multiplier) \div 100 - 100
           - (100 * costs.gasBet) \div stake - (confidence * costs.gasClaim) \div stake

-----------------------------------------------------------------------------
\* pipeline.ts.

computeStake(sizing, bankroll, signal) ==
  CASE sizing.mode = "BANKROLL_FRACTION" -> mulWeiByFraction(Max({0, bankroll}), sizing.fraction)
    [] sizing.mode = "SIGNAL" /\ signal.stake # Null /\ signal.stake > 0 -> signal.stake
    [] OTHER -> sizing.fixed

isValidSignal(s) == s.action \in {"BUY_UP", "BUY_DOWN", "WAIT", "SKIP"} /\ s.confidence \in 0 .. 100

DirectionAllowed(directions, d) ==
  (directions = "BULL_ONLY" => d = "BULL") /\ (directions = "BEAR_ONLY" => d = "BEAR")

NoTrade == [kind |-> "NO_TRADE", direction |-> Null, stake |-> Null, asked |-> Null]

\* i: mode, config, limits, state, gates, minBet, pool, costs.  A signal that is not one, or the
\* error of a strategy that throws, is never a trade.
decide(i, signal) ==
  LET d == signalDirection(signal.action)
      intended == computeStake(i.config.sizing, i.state.bankroll, signal)
      asked == [mode |-> i.mode, stake |-> intended, confidence |-> signal.confidence,
                edge |-> IF i.pool = Null THEN Null
                         ELSE expectedValue(signal.confidence, d, i.pool, intended, i.costs),
                minBet |-> i.minBet, limits |-> i.limits, state |-> i.state, gates |-> i.gates]
      risk == evaluateRisk(asked)
  IN  IF ~isValidSignal(signal) \/ signal.action = "SKIP" THEN NoTrade
      ELSE IF signal.action = "WAIT"
      THEN IF i.state.secondsToLock <= i.limits.minSeconds THEN NoTrade ELSE [NoTrade EXCEPT !.kind = "WAIT"]
      ELSE IF ~DirectionAllowed(i.config.directions, d) \/ ~risk.approved THEN NoTrade
      ELSE [kind |-> "TRADE", direction |-> d, stake |-> risk.stake, asked |-> asked]
=============================================================================
