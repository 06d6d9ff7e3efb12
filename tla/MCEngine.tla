------------------------------ MODULE MCEngine ------------------------------
(* Two strategies that bet for money; one on paper beside manual paper orders. *)
EXTENDS Engine

CONSTANTS w1, w2

TwoWorkers == {w1, w2}
Symmetric == Permutations(TwoWorkers)

Config(stake) ==
  [plugin |-> "follow-last-winner", params |-> [invert |-> FALSE], entrySeconds |-> 4, minSeconds |-> 2,
   sizing |-> [mode |-> "FIXED", fixed |-> stake, fraction |-> 0], directions |-> "BOTH", limits |-> <<>>]

MCSpecs ==
  [a |-> [config |-> Config(10), source |-> "BOT"],
   b |-> [config |-> Config(6), source |-> "BOT"],
   m |-> [config |-> Config(6), source |-> "MANUAL"]]

MCFlags ==
  {[a |-> {"LIVE"}, b |-> {"LIVE"}],
   [a |-> {"PAPER"}, m |-> {"PAPER"}]}

MCEnv ==
  [ADMIN_API_TOKEN |-> "secret", PRIVATE_KEY |-> [valid |-> TRUE, address |-> "bot"],
   LIVE_TRADING_ENABLED |-> TRUE, PAPER_STARTING_BANKROLL |-> 100, DEFAULT_BET_SIZE |-> 4,
   MAX_BET_SIZE |-> 10, MIN_BET_SIZE |-> 2, MAX_BANKROLL_FRACTION |-> 50, MAX_DAILY_LOSS |-> 0,
   MAX_CONSECUTIVE_LOSSES |-> 0, COOLDOWN_ROUNDS |-> 1, MAX_TOTAL_EXPOSURE |-> 12,
   MIN_WALLET_BALANCE |-> 10, MIN_SECONDS_BEFORE_LOCK |-> 3, MAX_EXECUTION_FAILURES |-> 1, EDGE_BALANCE_PULL |-> 0]

MCAddresses == {"bot"}

\* A chain as it should be, and the ways it may refuse a bet.
MCWell == [secondsToLock |-> 3, bet |-> FALSE, paused |-> FALSE, gasPrice |-> 1, error |-> Null]
MCHeads ==
  {[MCWell EXCEPT !.error = "NETWORK"], [MCWell EXCEPT !.error = "UNDERPRICED"], [MCWell EXCEPT !.bet = TRUE],
   [MCWell EXCEPT !.gasPrice = 9], [MCWell EXCEPT !.secondsToLock = 2], [MCWell EXCEPT !.paused = TRUE]}

MCPool == [bullAmount |-> 30, bearAmount |-> 300]

Up == Buy("BULL")
MCSignals == {Up, [Skip EXCEPT !.action = "WAIT"]}

MCPatches == {<<"b", "LIVE">>, <<"m", "PAPER">>}
=============================================================================
