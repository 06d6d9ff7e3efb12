----------------------------- MODULE MCBacktest -----------------------------
EXTENDS WalkForward, Research, Configuration

Config(plugin, params, sizing, limits) ==
  [plugin |-> plugin, params |-> params, entrySeconds |-> 4, minSeconds |-> 2,
   sizing |-> sizing, directions |-> "BOTH", limits |-> limits]

Fixed(n) == [mode |-> "FIXED", fixed |-> n, fraction |-> 0]
Fraction(n) == [mode |-> "BANKROLL_FRACTION", fixed |-> 0, fraction |-> n]
BySignal == [mode |-> "SIGNAL", fixed |-> 2, fraction |-> 0]

Measure == [minSampleSize |-> 5, minEdge |-> 5]

Ladder(initial, confirmation, steps) ==
  [initialDirection |-> initial, requiredPreviousStreak |-> 1, confirmationCount |-> 1,
   confirmationAction |-> confirmation, stakeUnit |-> "PERCENT_OF_BANKROLL",
   ladder |-> <<1, 3, 6, 10, 15, 20>>, maxRecoverySteps |-> steps,
   sizingMode |-> "TARGET_RECOVERY", targetProfitPercent |-> 1, recoveryCooldownRounds |-> 2]

Equal == [k \in {"persistence", "reversal", "streak", "transition", "marketEdge"} |-> 100]

\* Some override every limit they can, zeroes included.
Loose ==
  [maxStake |-> 90, bankrollFraction |-> 100, maxDailyLoss |-> 0, maxConsecutiveLosses |-> 0,
   cooldownRounds |-> 0, maxExposure |-> 900, stopLoss |-> 900, minConfidence |-> 0]

MCSpecs ==
  [follow    |-> Config("follow-last-winner", [invert |-> FALSE], Fraction(20), Loose),
   fade      |-> Config("streak-reversal", [streak |-> 2, mode |-> "FADE"], Fixed(6), <<>>),
   ladder    |-> Config("sequence-recovery", Ladder("PERSISTENCE", "FOLLOW", 2), BySignal, <<>>),
   momentum  |-> Config("momentum", [window |-> 3, minMovePct |-> 0], Fixed(5), [maxStake |-> 4]),
   persist   |-> Config("persistence", Measure @@ [order |-> 1], Fixed(5), <<>>),
   alternate |-> Config("alternation", Measure @@ [minAlternationLength |-> 2, mode |-> "CONTINUE_ALTERNATION"],
                        Fixed(5), <<>>),
   reverse   |-> Config("reversal", Measure @@ [minPreviousRun |-> 1], Fixed(5), <<>>),
   break     |-> Config("alternation", Measure @@ [minAlternationLength |-> 2, mode |-> "BREAK_FOLLOW_THROUGH"],
                        Fixed(5), <<>>),
   markov    |-> Config("markov", Measure @@ [order |-> 1], Fixed(5), Loose),
   ensemble  |-> Config("ensemble", [weights |-> Equal, threshold |-> 20, minSampleSize |-> 5], Fixed(5), <<>>)]

\* The grid tunes the second strategy: 2 x 2 candidates.
MCBase == MCSpecs["fade"]
MCGrid == <<<<"streak", <<2, 3>>>>, <<"mode", <<"FADE", "FOLLOW">>>>>>

\* A process that may trade live, with limits that all come to bear.
MCEnv ==
  [ADMIN_API_TOKEN |-> "secret", PRIVATE_KEY |-> [valid |-> TRUE, address |-> "bot"],
   LIVE_TRADING_ENABLED |-> TRUE, PAPER_STARTING_BANKROLL |-> 100, DEFAULT_BET_SIZE |-> 4,
   MAX_BET_SIZE |-> 10, MIN_BET_SIZE |-> 2, ESCALATION_STAKE_THRESHOLD |-> 8,
   ESCALATION_MIN_LOSS_STREAK |-> 1, MAX_BANKROLL_FRACTION |-> 50, MAX_DAILY_LOSS |-> 4,
   MAX_CONSECUTIVE_LOSSES |-> 2, COOLDOWN_ROUNDS |-> 1, MAX_TOTAL_EXPOSURE |-> 18,
   MIN_WALLET_BALANCE |-> 10, MIN_SECONDS_BEFORE_LOCK |-> 3]

MCAddresses == {"bot", "other"}
MCLimits == config.risk
MCBankroll == config.paperStartingBankroll
MCGasPerBet == config.gasPerBet
MCGasPerClaim == config.gasPerClaim

Shape(close, bull, bear) ==
  [lockPrice |-> 100, closePrice |-> close, called |-> TRUE, bull |-> bull, bear |-> bear, lines |-> "one"]

Up == Shape(101, 30, 50)
Down == Shape(99, 40, 20)
Tied == [Shape(100, 10, 10) EXCEPT !.lines = "twice"]
Cancelled == [Up EXCEPT !.called = FALSE]
Empty == Shape(101, 0, 50)
Disputed == [Down EXCEPT !.lines = "conflicting"]
Damaged == [Up EXCEPT !.lines = "damaged"]
Unfinished == [Up EXCEPT !.lines = "unfinished"]

MCShapes == {Up, Down, Tied, Cancelled, Empty, Disputed}

MCEarlyPools == <<[bull |-> 4, bear |-> 9], [bull |-> 8, bear |-> 3], [bull |-> 0, bear |-> 0]>>

MCWarmups ==
  {[format |-> "PANCAKESWAP_V2", shapes |-> <<Up, Up, Up, Down, Up, Up, Up, Up>>],
   [format |-> "PANCAKESWAP_V2", shapes |-> <<Up, Down, Up, Down, Up, Down, Up, Down>>],
   [format |-> "PRDT", shapes |-> <<Down, Down, Down, Damaged, Down, Down, Down, Up, Down>>],
   [format |-> "PANCAKESWAP_V1", shapes |-> <<Unfinished, Up, Down, Up, Up, Up, Up, Up, Up, Up>>]}
=============================================================================
