----------------------------- MODULE RoundRules -----------------------------
(***************************************************************************)
(* The rules every part of the program shares about one prediction round   *)
(* (packages/core/src/round.ts, trade.ts): its status at a chain time, its *)
(* outcome, what a bet on it is paid, and the P&L of a trade.  Amounts are *)
(* integers and every division truncates, as the contract's do.            *)
(***************************************************************************)
EXTENDS Integers

CONSTANTS
  Null,           \* the code's null
  BufferSeconds,  \* the market's bufferSeconds
  FeeBps          \* the market's treasuryFeeBps

BPS_DENOMINATOR == 10000

ASSUME NullAssumption == Null \notin Int
ASSUME MarketAssumption == BufferSeconds \in Nat /\ FeeBps \in 0 .. BPS_DENOMINATOR

Directions == {"BULL", "BEAR"}
Outcomes == Directions \cup {"TIE", "CANCELLED"}
RoundStatuses == {"UPCOMING", "OPEN", "LOCKING", "LIVE", "CLOSING", "ENDED", "CANCELLED"}

opposite(d) == IF d = "BULL" THEN "BEAR" ELSE "BULL"

-----------------------------------------------------------------------------

isLocked(r) == (r.lockOracleId # Null /\ r.lockOracleId # 0) \/ (r.lockPrice # Null /\ r.lockPrice # 0)

CancelledAt(r, chainTime, buffer) ==
  r.closeTime # Null /\ r.closeTime > 0 /\ chainTime > r.closeTime + buffer

deriveRoundStatus(r, chainTime, buffer) ==
  CASE r.oracleCalled -> "ENDED"
    [] ~r.oracleCalled /\ CancelledAt(r, chainTime, buffer) -> "CANCELLED"
    [] OTHER ->
         IF isLocked(r)
         THEN IF r.closeTime # Null /\ chainTime < r.closeTime THEN "LIVE" ELSE "CLOSING"
         ELSE CASE r.startTime # Null /\ chainTime < r.startTime -> "UPCOMING"
                [] ~(r.startTime # Null /\ chainTime < r.startTime)
                   /\ r.lockTime # Null /\ chainTime < r.lockTime -> "OPEN"
                [] OTHER -> "LOCKING"

OrZero(v) == IF v = Null THEN 0 ELSE v

deriveOutcome(r, status) ==
  LET lock == OrZero(r.lockPrice)
      close == OrZero(r.closePrice)
  IN  CASE status = "CANCELLED" -> "CANCELLED"
        [] status = "ENDED" /\ close > lock -> "BULL"
        [] status = "ENDED" /\ close < lock -> "BEAR"
        [] status = "ENDED" /\ close = lock -> "TIE"
        [] OTHER -> Null

\* A raw tuple of the contract: zero timestamps, prices and oracle ids are nulls.
OrNull(v) == IF v = 0 THEN Null ELSE v

roundFromV2Tuple(t) ==
  [t EXCEPT !.startTime = OrNull(@), !.lockTime = OrNull(@), !.closeTime = OrNull(@),
            !.lockPrice = OrNull(@), !.closePrice = OrNull(@), !.lockOracleId = OrNull(@)]

-----------------------------------------------------------------------------

SideOf(r, direction) == IF direction = "BULL" THEN r.bullAmount ELSE r.bearAmount

Reward(total) == total - (total * FeeBps) \div BPS_DENOMINATOR

\* What the contract pays for a bet that is already part of the pool.
settledPayout(r, outcome, direction, amount) ==
  CASE outcome = "CANCELLED" -> amount
    [] outcome # "CANCELLED" /\ (outcome # direction \/ r.rewardBase = 0) -> 0
    [] OTHER -> (amount * r.rewardAmount) \div r.rewardBase

UndilutedPayout(r, outcome, direction, stake) ==     \* fault: the stake does not dilute the pool
  CASE outcome = "CANCELLED" -> stake
    [] outcome # "CANCELLED" /\ (outcome # direction \/ SideOf(r, direction) = 0) -> 0
    [] OTHER -> (stake * Reward(r.bullAmount + r.bearAmount)) \div SideOf(r, direction)

\* What a stake that is not in the recorded pool would have been paid.
simulatedPayout(r, outcome, direction, stake) ==
  CASE outcome = "CANCELLED" -> stake
    [] outcome # "CANCELLED" /\ outcome # direction -> 0
    [] OTHER -> (stake * Reward(r.bullAmount + r.bearAmount + stake)) \div (SideOf(r, direction) + stake)

\* Gross multiplier of a side in parts of `scale`, Null for an empty side.
payoutMultiplier(r, side, scale) ==
  IF SideOf(r, side) = 0 THEN Null
  ELSE (Reward(r.bullAmount + r.bearAmount) * scale) \div SideOf(r, side)

-----------------------------------------------------------------------------

TradeResults == {"WON", "LOST", "REFUNDED"}

ASSUME ResultsAssumption == Null \notin TradeResults

\* A tie is a loss: the contract sends the whole pool to the treasury.
resultFor(outcome, direction) ==
  CASE outcome = "CANCELLED" -> "REFUNDED"
    [] outcome = direction -> "WON"
    [] OTHER -> "LOST"

claimStatusFor(mode, result) ==
  IF mode = "PAPER" \/ result = "LOST" THEN "NOT_APPLICABLE" ELSE "UNCLAIMED"

OpenStatuses == {"PENDING", "SUBMITTING", "SUBMITTED", "CONFIRMED"}
isOpenStatus(status) == status \in OpenStatuses

tradeGrossPnl(t) == IF t.status # "SETTLED" \/ t.payout = Null THEN Null ELSE t.payout - t.amount

\* Net of gas; a failed trade that reached the chain still costs the gas it burned.
tradeNetPnl(t) ==
  LET fees == OrZero(t.gasCost) + OrZero(t.claimGasCost)
  IN  CASE t.status = "FAILED" -> -fees
        [] t.status # "FAILED" /\ tradeGrossPnl(t) = Null -> Null
        [] OTHER -> tradeGrossPnl(t) - fees
=============================================================================
