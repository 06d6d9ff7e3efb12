----------------------------- MODULE Strategies -----------------------------
(***************************************************************************)
(* The strategy plugins (packages/core/src/strategy/builtins.ts and        *)
(* sequenceStrategies.ts) and the sequence analytics they measure with     *)
(* (sequence.ts).  A plugin is a pure function of its context c and its    *)
(* parameters p.                                                           *)
(*                                                                         *)
(* A probability is a pair of counts, the cases that went one way out of   *)
(* the sample, so that comparisons are exact; a signal's confidence is in  *)
(* whole hundredths, rounded down.  A context holds the visible rounds     *)
(* (oldest first: outcome, closePrice), the strategy's own trades (latest  *)
(* first), the betting epoch, the bankroll and the pool's payouts.         *)
(***************************************************************************)
EXTENDS RoundRules, Ordering, SequencesExt

Skip == [action |-> "SKIP", confidence |-> 0, stake |-> Null, sample |-> Null]

buyDirection(d) == IF d = "BULL" THEN "BUY_UP" ELSE "BUY_DOWN"

\* A bet on d whose confidence is `hits` cases out of `of`.
BuyAt(d, hits, of) ==
  [action |-> buyDirection(d), confidence |-> (100 * hits) \div of, stake |-> Null, sample |-> of]

\* A bet with the nominal confidence of a coin flip, measured on nothing.
Buy(d) == [BuyAt(d, 1, 2) EXCEPT !.sample = Null]

signalDirection(action) ==
  CASE action = "BUY_UP" -> "BULL" [] action = "BUY_DOWN" -> "BEAR" [] OTHER -> Null

-----------------------------------------------------------------------------
\* sequence.ts.

toSequence(history) ==
  LET decided == SelectSeq(history, LAMBDA r : r.outcome \in Directions)
  IN  [n \in DOMAIN decided |-> decided[n].outcome]

\* Length of the run of equal elements at the end of s.
Streak(s) == Cardinality({k \in DOMAIN s : \A j \in k .. Len(s) : s[j] = Last(s)})

Turns(s) == {k \in 2 .. Len(s) : s[k] # s[k - 1]}

\* The run that the latest change of direction put an end to.
previousRunLength(s) == Streak(SubSeq(s, 1, Max(Turns(s)) - 1))

\* Length of the strictly alternating run at the end of s.
alternationLength(s) ==
  Cardinality({k \in DOMAIN s : \A j \in k + 1 .. Len(s) : s[j] # s[j - 1]})

\* How often the context occurred in s before some element, and before a "BULL".
Occurrences(s, context) ==
  {k \in Len(context) + 1 .. Len(s) : SubSeq(s, k - Len(context), k - 1) = context}

estimateFor(s, context) ==
  [up     |-> Cardinality({k \in Occurrences(s, context) : s[k] = "BULL"}),
   sample |-> Cardinality(Occurrences(s, context))]

UpOnly(d, est) == est.up     \* fault: the estimate is not turned round for a bearish run

\* P(next is d) as counts, from an estimate of P(next is "BULL").
Toward(d, est) == IF d = "BULL" THEN est.up ELSE est.sample - est.up

\* P(next = same | the last `order` are all the same); Null when they are not.
persistenceEstimate(s, order) ==
  IF Streak(s) < order \/ s = <<>> THEN Null
  ELSE LET est == estimateFor(s, [k \in 1 .. order |-> Last(s)])
       IN  [same |-> Toward(Last(s), est), sample |-> est.sample]

streakContinuationEstimate(s, length) ==
  IF s = <<>> \/ Streak(s) # length THEN Null ELSE persistenceEstimate(s, length)

\* P(the alternation goes on | it has at least minLength elements).
alternationContinuationEstimate(s, minLength) ==
  LET qualified == {k \in minLength + 1 .. Len(s) : alternationLength(SubSeq(s, 1, k - 1)) >= minLength}
  IN  IF s = <<>> \/ alternationLength(s) < minLength THEN Null
      ELSE [same |-> Cardinality(qualified \cap Turns(s)), sample |-> Cardinality(qualified)]

-----------------------------------------------------------------------------
\* builtins.ts.

ended(history) == SelectSeq(history, LAMBDA r : r.outcome # "CANCELLED")

\* The direction d, or the other one.
Facing(d, invert) == IF invert THEN opposite(d) ELSE d

followLastWinner(c, p) ==
  LET past == ended(c.history)
  IN  IF past = <<>> \/ Last(past).outcome = "TIE" THEN Skip
      ELSE Buy(Facing(Last(past).outcome, p.invert))

Sign(x) == CASE x > 0 -> 1 [] x < 0 -> -1 [] OTHER -> 0
Magnitude(x) == x * Sign(x)

momentum(c, p) ==
  LET priced == SelectSeq(ended(c.history), LAMBDA r : r.closePrice # Null)
      closes == [n \in DOMAIN priced |-> priced[n].closePrice]
      window == SubSeq(closes, Len(closes) - p.window + 1, Len(closes))
      move == Last(window) - Head(window)
      steps == {Sign(window[n] - window[n - 1]) : n \in 2 .. p.window}
  IN  CASE Len(closes) < p.window -> Skip
        [] Len(closes) >= p.window /\ steps \in {{1}, {0, 1}}
           /\ 100 * Magnitude(move) >= p.minMovePct * Head(window) -> Buy("BULL")
        [] Len(closes) >= p.window /\ steps \in {{-1}, {0, -1}}
           /\ 100 * Magnitude(move) >= p.minMovePct * Head(window) -> Buy("BEAR")
        [] OTHER -> Skip

\* A tie breaks a run, a cancelled round is ignored.
streakReversal(c, p) ==
  LET past == ended(c.history)
      outcomes == [n \in DOMAIN past |-> past[n].outcome]
  IN  IF outcomes = <<>> \/ Last(outcomes) = "TIE" \/ Streak(outcomes) < p.streak THEN Skip
      ELSE Buy(Facing(Last(outcomes), p.mode = "FADE"))

manualOrder(c, p) == [Buy(p.direction) EXCEPT !.confidence = 100]

-----------------------------------------------------------------------------
\* sequenceStrategies.ts: the strategies that measure.

\* The bet on d or against it that `same` cases out of `sample` support, if they support one.
Measured(d, same, sample, p) ==
  CASE sample < p.minSampleSize -> Skip
    [] sample >= p.minSampleSize /\ 100 * Magnitude(2 * same - sample) < 2 * sample * p.minEdge -> Skip
    [] OTHER -> IF 2 * same > sample THEN BuyAt(d, same, sample)
                ELSE BuyAt(opposite(d), sample - same, sample)

persistence(c, p) ==
  LET s == toSequence(c.history)
      est == persistenceEstimate(s, p.order)
  IN  IF est = Null THEN Skip ELSE Measured(Last(s), est.same, est.sample, p)

reversalStrategy(c, p) ==
  LET s == toSequence(c.history)
      est == persistenceEstimate(s, 1)
  IN  IF Streak(s) # 1 \/ Turns(s) = {} THEN Skip
      ELSE IF previousRunLength(s) < p.minPreviousRun THEN Skip
      ELSE Measured(Last(s), est.same, est.sample, p)

\* On the alternation going on, or on the break that has just ended one.
alternationStrategy(c, p) ==
  LET s == toSequence(c.history)
      on == alternationContinuationEstimate(s, p.minAlternationLength)
      break == persistenceEstimate(s, 2)
  IN  IF p.mode = "CONTINUE_ALTERNATION"
      THEN IF on = Null THEN Skip ELSE Measured(opposite(Last(s)), on.same, on.sample, p)
      ELSE IF Streak(s) # 2 THEN Skip
           ELSE IF alternationLength(Front(s)) < p.minAlternationLength THEN Skip
           ELSE Measured(Last(s), break.same, break.sample, p)

\* The conditional model on the exact trailing context: markov, and transition-matrix at order 1 or 2.
markov(c, p) ==
  LET s == toSequence(c.history)
      est == estimateFor(s, SubSeq(s, Len(s) - p.order + 1, Len(s)))
  IN  IF Len(s) < p.order THEN Skip ELSE Measured("BULL", est.up, est.sample, p)

transitionMatrixStrategy(c, p) == markov(c, p)

-----------------------------------------------------------------------------
\* The recovery ladder.  Its state is re-derived from the strategy's own trades on every call.

\* The settled losses since the last win, latest first; refunds and open trades are transparent.
LossesSinceWin(own) ==
  LET wins == {n \in DOMAIN own : own[n].result = "WON"}
      before == {n \in DOMAIN own : \A win \in wins : n < win}
  IN  Picked(own, {n \in before : own[n].result = "LOST"})

Amounts(trades) == FoldFunction(LAMBDA t, sum : sum + t.amount, 0, trades)

initialDirection(s, p) ==
  CASE p.initialDirection = "FIXED_UP" -> "BULL"
    [] p.initialDirection = "FIXED_DOWN" -> "BEAR"
    [] OTHER -> IF s = <<>> THEN "BULL" ELSE Facing(Last(s), p.initialDirection = "REVERSAL")

\* The stake that wins back `prior` and the target at the pool's payout; Null without a viable one.
targetRecoveryStake(c, direction, prior, p) ==
  LET payout == IF c.payouts = Null THEN Null ELSE c.payouts[direction]
  IN  IF payout = Null THEN Null
      ELSE IF payout <= 100 THEN Null
      ELSE (100 * prior + c.bankroll * p.targetProfitPercent) \div (payout - 100)

LadderStake(c, direction, depth, prior, p) ==
  LET step == p.ladder[Min({depth + 1, p.maxRecoverySteps})]
      fixed == IF p.stakeUnit = "BNB" THEN step ELSE (c.bankroll * step) \div 100
      target == targetRecoveryStake(c, direction, prior, p)
  IN  IF p.sizingMode # "TARGET_RECOVERY" \/ depth = 0 \/ target = Null THEN fixed ELSE target

FreshEntry(c, p) ==
  LET d == initialDirection(toSequence(c.history), p)
  IN  [Buy(d) EXCEPT !.stake = LadderStake(c, d, 0, 0, p)]

\* A run toward `target`, confirmed, that ended a long enough run the other way.
Reversed(s, target, p) ==
  /\ s # <<>> /\ Last(s) = target
  /\ Turns(s) # {} /\ previousRunLength(s) >= p.requiredPreviousStreak
  /\ Streak(s) >= p.confirmationCount

\* The next step; its confidence is the measured odds of the pattern, where they can be computed.
LadderEntry(c, lost, p) ==
  LET s == toSequence(c.history)
      target == opposite(lost[1].direction)
      bet == Facing(target, p.confirmationAction = "FADE")
      est == streakContinuationEstimate(s, p.confirmationCount)
      stake == LadderStake(c, bet, Len(lost), Amounts(lost), p)
      \* With an empty sample pContinue is null: FOLLOW falls back to 0.5, FADE computes 1 - null.
      odds == CASE est = Null -> Buy(bet)
                [] est # Null /\ est.sample = 0 ->
                     [Buy(bet) EXCEPT !.sample = 0, !.confidence = IF bet = target THEN 50 ELSE 100]
                [] OTHER -> BuyAt(bet, IF bet = target THEN est.same ELSE est.sample - est.same, est.sample)
  IN  [odds EXCEPT !.stake = stake]

CutShort(c, lost, p) == c.epoch - lost[1].epoch < p.recoveryCooldownRounds   \* fault: one round short

CoolingDown(c, lost, p) == c.epoch - lost[1].epoch <= p.recoveryCooldownRounds

sequenceRecovery(c, p) ==
  LET lost == LossesSinceWin(c.ownTrades)
  IN  CASE lost = <<>> -> FreshEntry(c, p)
        [] lost # <<>> /\ Len(lost) >= p.maxRecoverySteps ->
             IF CoolingDown(c, lost, p) THEN Skip ELSE FreshEntry(c, p)
        [] OTHER ->
             IF Reversed(toSequence(c.history), opposite(lost[1].direction), p)
             THEN LadderEntry(c, lost, p) ELSE Skip

-----------------------------------------------------------------------------
\* The ensemble: each component scores -1 .. 1 toward "BULL" as a fraction <<num, den>>.

Zero == <<0, 1>>

Score(direction, same, sample, minSampleSize) ==
  IF sample < minSampleSize THEN Zero
  ELSE <<(2 * same - sample) * (IF direction = "BULL" THEN 1 ELSE -1), sample>>

componentScore(s, minSampleSize) ==
  LET one == persistenceEstimate(s, 1)
      run == streakContinuationEstimate(s, Streak(s))
      two == estimateFor(s, SubSeq(s, Len(s) - 1, Len(s)))
      persisting == IF one = Null THEN Zero ELSE Score(Last(s), one.same, one.sample, minSampleSize)
  IN  [persistence |-> persisting,
       reversal    |-> IF Streak(s) = 1 /\ Turns(s) # {} THEN persisting ELSE Zero,
       streak      |-> IF Streak(s) >= 2 THEN Score(Last(s), run.same, run.sample, minSampleSize) ELSE Zero,
       transition  |-> IF Len(s) >= 2 THEN Score("BULL", two.up, two.sample, minSampleSize) ELSE Zero]

\* The pool's payout skew (payouts in hundredths); neutral when the pool cannot be observed.
marketEdgeScore(payouts) ==
  IF payouts = Null \/ Null \in {payouts["BULL"], payouts["BEAR"]} THEN Zero
  ELSE <<payouts["BULL"] - payouts["BEAR"], Max({payouts["BULL"], payouts["BEAR"], 100})>>

\* p.weights and p.threshold are in hundredths.
Weighed(score, p) ==
  LET den == FoldFunction(LAMBDA x, product : x[2] * product, 1, score)
      total == FoldFunction(+, 0, [k \in DOMAIN score |-> p.weights[k] * score[k][1] * (den \div score[k][2])])
      weight == Max({1, FoldFunction(LAMBDA w, sum : Magnitude(w) + sum, 0, p.weights)})
  IN  IF Magnitude(total) < p.threshold * den THEN Skip
      ELSE [Buy(IF total > 0 THEN "BULL" ELSE "BEAR")
              EXCEPT !.confidence = 50 + Min({45, (45 * Magnitude(total)) \div (weight * den)})]

ensemble(c, p) ==
  Weighed(componentScore(toSequence(c.history), p.minSampleSize) @@ [marketEdge |-> marketEdgeScore(c.payouts)], p)

-----------------------------------------------------------------------------

evaluate(plugin, c, p) ==
  CASE plugin = "follow-last-winner" -> followLastWinner(c, p)
    [] plugin = "momentum" -> momentum(c, p)
    [] plugin = "streak-reversal" -> streakReversal(c, p)
    [] plugin = "manual" -> manualOrder(c, p)
    [] plugin = "persistence" -> persistence(c, p)
    [] plugin = "reversal" -> reversalStrategy(c, p)
    [] plugin = "alternation" -> alternationStrategy(c, p)
    [] plugin = "transition-matrix" -> transitionMatrixStrategy(c, p)
    [] plugin = "markov" -> markov(c, p)
    [] plugin = "sequence-recovery" -> sequenceRecovery(c, p)
    [] plugin = "ensemble" -> ensemble(c, p)

\* The declared range of every parameter; percentages are in hundredths, the ladder is one tuple.
followLastWinnerParams == [invert |-> BOOLEAN]

momentumParams == [window |-> 3 .. 50, minMovePct |-> 0 .. 10]

streakReversalParams == [streak |-> 2 .. 20, mode |-> {"FADE", "FOLLOW"}]

manualOrderParams == [direction |-> Directions]

MeasuredParams == [minSampleSize |-> 5 .. 20000, minEdge |-> 0 .. 40]

\* Those of a plugin that conditions on the last `order` outcomes.
OrderedParams(most) ==
  [k \in (DOMAIN MeasuredParams) \cup {"order"} |-> IF k = "order" THEN 1 .. most ELSE MeasuredParams[k]]

persistenceParams == OrderedParams(8)

reversalParams == MeasuredParams @@ [minPreviousRun |-> 1 .. 10]

alternationParams ==
  MeasuredParams @@ [minAlternationLength |-> 2 .. 12, mode |-> {"CONTINUE_ALTERNATION", "BREAK_FOLLOW_THROUGH"}]

transitionMatrixParams == OrderedParams(2)

markovParams == OrderedParams(6)

sequenceRecoveryParams ==
  [initialDirection |-> {"PERSISTENCE", "REVERSAL", "FIXED_UP", "FIXED_DOWN"},
   requiredPreviousStreak |-> 1 .. 10, confirmationCount |-> 1 .. 6,
   confirmationAction |-> {"FOLLOW", "FADE"}, stakeUnit |-> {"PERCENT_OF_BANKROLL", "BNB"},
   ladder |-> [1 .. 6 -> 1 .. 50], maxRecoverySteps |-> 1 .. 6,
   sizingMode |-> {"FIXED_PERCENTAGE", "TARGET_RECOVERY"},
   targetProfitPercent |-> 0 .. 50, recoveryCooldownRounds |-> 0 .. 100]

ensembleParams ==
  [weights |-> [{"persistence", "reversal", "streak", "transition", "marketEdge"} -> -200 .. 200],
   threshold |-> 0 .. 500, minSampleSize |-> 5 .. 20000]

paramSpecs(plugin) ==
  CASE plugin = "follow-last-winner" -> followLastWinnerParams
    [] plugin = "momentum" -> momentumParams
    [] plugin = "streak-reversal" -> streakReversalParams
    [] plugin = "manual" -> manualOrderParams
    [] plugin = "persistence" -> persistenceParams
    [] plugin = "reversal" -> reversalParams
    [] plugin = "alternation" -> alternationParams
    [] plugin = "transition-matrix" -> transitionMatrixParams
    [] plugin = "markov" -> markovParams
    [] plugin = "sequence-recovery" -> sequenceRecoveryParams
    [] plugin = "ensemble" -> ensembleParams

MeasuredDefaults == [minSampleSize |-> 30, minEdge |-> 3]

defaultParams(plugin) ==
  CASE plugin = "follow-last-winner" -> [invert |-> FALSE]
    [] plugin = "momentum" -> [window |-> 5, minMovePct |-> 0]
    [] plugin = "streak-reversal" -> [streak |-> 4, mode |-> "FADE"]
    [] plugin = "manual" -> [direction |-> "BULL"]
    [] plugin \in {"persistence", "transition-matrix"} -> MeasuredDefaults @@ [order |-> 1]
    [] plugin = "reversal" -> MeasuredDefaults @@ [minPreviousRun |-> 2]
    [] plugin = "alternation" -> MeasuredDefaults @@ [minAlternationLength |-> 3, mode |-> "CONTINUE_ALTERNATION"]
    [] plugin = "markov" -> MeasuredDefaults @@ [order |-> 2]
    [] plugin = "sequence-recovery" ->
         [initialDirection |-> "PERSISTENCE", requiredPreviousStreak |-> 1, confirmationCount |-> 1,
          confirmationAction |-> "FOLLOW", stakeUnit |-> "PERCENT_OF_BANKROLL",
          ladder |-> <<1, 3, 6, 10, 15, 20>>, maxRecoverySteps |-> 4,
          sizingMode |-> "FIXED_PERCENTAGE", targetProfitPercent |-> 1, recoveryCooldownRounds |-> 2]
    [] plugin = "ensemble" ->
         [weights |-> [k \in {"persistence", "reversal", "streak", "transition", "marketEdge"} |-> 100],
          threshold |-> 50, minSampleSize |-> 30]

BUILTIN_STRATEGIES ==
  {"follow-last-winner", "momentum", "streak-reversal", "persistence", "reversal", "alternation",
   "transition-matrix", "markov", "sequence-recovery", "ensemble"}

Plugins == BUILTIN_STRATEGIES \cup {"manual"}

validateParams(plugin, p) ==
  /\ DOMAIN p = DOMAIN paramSpecs(plugin)
  /\ \A k \in DOMAIN p : p[k] \in paramSpecs(plugin)[k]

\* How many final rounds a plugin is shown.
lookback(plugin, p) ==
  CASE plugin = "follow-last-winner" -> 10
    [] plugin = "momentum" -> p.window + 10
    [] plugin = "streak-reversal" -> p.streak + 20
    [] plugin = "manual" -> 1
    [] plugin = "persistence" -> Max({300, p.order * 100})
    [] plugin = "markov" -> Max({500, 2 ^ (p.order + 4)})
    [] plugin = "sequence-recovery" -> Max({100, p.requiredPreviousStreak + p.confirmationCount + 20})
    [] OTHER -> 500
=============================================================================
