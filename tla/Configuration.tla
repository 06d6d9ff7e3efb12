---------------------------- MODULE Configuration ----------------------------
(***************************************************************************)
(* What the program is started with (apps/server/src/config.ts loadConfig) *)
(* and what it puts into an empty database (services/markets.ts seed): the *)
(* risk limits, the costs and the modes everything else runs under.        *)
(*                                                                         *)
(* An environment gives some of the variables a value; an empty value is   *)
(* Null.  Amounts are integers, fractions parts of FractionScale.  A       *)
(* private key is what can be told from it: whether it is one, and its     *)
(* address.  The variables that only name hosts, files and levels of       *)
(* logging are left out.                                                   *)
(***************************************************************************)
EXTENDS Pipeline

CONSTANTS
  Env,          \* the environment of the process
  Addresses     \* the addresses of wallets

-----------------------------------------------------------------------------
\* The schema: the values a variable may have, and the one it has when it is not set.

Stakes ==
  {"PAPER_STARTING_BANKROLL", "DEFAULT_BET_SIZE", "MAX_BET_SIZE", "MIN_BET_SIZE",
   "ESCALATION_STAKE_THRESHOLD", "MAX_DAILY_LOSS", "MAX_TOTAL_EXPOSURE", "MIN_WALLET_BALANCE",
   "SIMULATED_GAS_PER_BET", "SIMULATED_GAS_PER_CLAIM"}

PrivateKeys == [valid : BOOLEAN, address : Addresses]

Settings ==
  [CHAIN_ID |-> {56, 97}, PRIVATE_KEY |-> PrivateKeys \cup {Null}, WALLET_ADDRESS |-> Addresses \cup {Null},
   ADMIN_API_TOKEN |-> {"secret", "placeholder"}, DATABASE_URL |-> {"postgres", "pglite", "memory", "sqlite"},
   LIVE_TRADING_ENABLED |-> BOOLEAN, PAPER_TRADING_ENABLED |-> BOOLEAN, BOT_AUTO_RESUME_LIVE |-> BOOLEAN,
   LIVE_REQUIRE_POSITIVE_EV |-> BOOLEAN, EDGE_BALANCE_PULL |-> 0 .. 100, SHADOW_PREFLIGHT |-> BOOLEAN,
   ESCALATION_MIN_LOSS_STREAK |-> 0 .. 1000, MAX_BANKROLL_FRACTION |-> 0 .. FractionScale,
   MAX_CONSECUTIVE_LOSSES |-> 0 .. 1000, COOLDOWN_ROUNDS |-> 0 .. 10000, MAX_GAS_PRICE_GWEI |-> 0 .. 1000,
   MIN_SECONDS_BEFORE_LOCK |-> 2 .. 120, MAX_EXECUTION_FAILURES |-> 1 .. 100,
   CLAIM_BATCH_MIN |-> 1 .. 100, CLAIM_MAX_DELAY_MINUTES |-> 1 .. 10080, CONFIRMATIONS |-> 0 .. 100]

schema == [k \in Stakes \cup DOMAIN Settings |-> IF k \in Stakes THEN Nat ELSE Settings[k]]

\* Amounts in units of 0.00001 BNB.
defaults ==
  [PAPER_STARTING_BANKROLL |-> 100000, DEFAULT_BET_SIZE |-> 100, MAX_BET_SIZE |-> 1000, MIN_BET_SIZE |-> 0,
   ESCALATION_STAKE_THRESHOLD |-> 0, MAX_DAILY_LOSS |-> 5000, MAX_TOTAL_EXPOSURE |-> 5000,
   MIN_WALLET_BALANCE |-> 1000, SIMULATED_GAS_PER_BET |-> 1, SIMULATED_GAS_PER_CLAIM |-> 1,
   CHAIN_ID |-> 56, PRIVATE_KEY |-> Null, WALLET_ADDRESS |-> Null, DATABASE_URL |-> "pglite",
   LIVE_TRADING_ENABLED |-> FALSE, PAPER_TRADING_ENABLED |-> TRUE, BOT_AUTO_RESUME_LIVE |-> FALSE,
   LIVE_REQUIRE_POSITIVE_EV |-> TRUE, EDGE_BALANCE_PULL |-> 50, SHADOW_PREFLIGHT |-> TRUE,
   ESCALATION_MIN_LOSS_STREAK |-> 0, MAX_BANKROLL_FRACTION |-> FractionScale \div 20,
   MAX_CONSECUTIVE_LOSSES |-> 5, COOLDOWN_ROUNDS |-> 12, MAX_GAS_PRICE_GWEI |-> 5,
   MIN_SECONDS_BEFORE_LOCK |-> 6, MAX_EXECUTION_FAILURES |-> 3,
   CLAIM_BATCH_MIN |-> 3, CLAIM_MAX_DELAY_MINUTES |-> 60, CONFIRMATIONS |-> 3]

cleaned(env) == [k \in {v \in DOMAIN env : env[v] # Null} |-> env[k]]

\* What loadConfig refuses, once every variable has a value of the schema.
issues(e) ==
  LET key == e.PRIVATE_KEY
      broken ==
        [key        |-> key # Null /\ ~key.valid,
         wallet     |-> key # Null /\ key.valid /\ e.WALLET_ADDRESS \notin {Null, key.address},
         live       |-> e.LIVE_TRADING_ENABLED /\ key = Null,
         exposure   |-> e.MAX_BET_SIZE > e.MAX_TOTAL_EXPOSURE,
         bet        |-> e.DEFAULT_BET_SIZE > e.MAX_BET_SIZE,
         database   |-> e.DATABASE_URL = "sqlite",
         minimum    |-> e.MIN_BET_SIZE > e.MAX_BET_SIZE,
         escalation |-> e.ESCALATION_STAKE_THRESHOLD > 0 /\
                          (e.ESCALATION_STAKE_THRESHOLD < e.MIN_BET_SIZE \/ e.ESCALATION_MIN_LOSS_STREAK < 1),
         token      |-> e.ADMIN_API_TOKEN = "placeholder"]
  IN  {i \in DOMAIN broken : broken[i]}

\* Null: the process does not start.  stopLoss, minConfidence and minEdge are a strategy's to set.
loadConfig(env) ==
  LET e == cleaned(env) @@ defaults
      key == e.PRIVATE_KEY
  IN  IF \/ DOMAIN e # DOMAIN schema
         \/ \E k \in DOMAIN e : e[k] \notin schema[k]
         \/ issues(e) # {}
      THEN Null
      ELSE [chainId |-> e.CHAIN_ID, hasSigner |-> key # Null,
            walletAddress |-> IF key = Null THEN e.WALLET_ADDRESS ELSE key.address,
            liveTradingEnabled |-> e.LIVE_TRADING_ENABLED, paperTradingEnabled |-> e.PAPER_TRADING_ENABLED,
            botAutoResumeLive |-> e.BOT_AUTO_RESUME_LIVE, shadowPreflight |-> e.SHADOW_PREFLIGHT,
            paperStartingBankroll |-> e.PAPER_STARTING_BANKROLL, defaultBet |-> e.DEFAULT_BET_SIZE,
            balancePull |-> e.EDGE_BALANCE_PULL, maxExecutionFailures |-> e.MAX_EXECUTION_FAILURES,
            gasPerBet |-> e.SIMULATED_GAS_PER_BET, gasPerClaim |-> e.SIMULATED_GAS_PER_CLAIM,
            claimBatchMin |-> e.CLAIM_BATCH_MIN, claimMaxDelay |-> 60 * e.CLAIM_MAX_DELAY_MINUTES,
            confirmations |-> e.CONFIRMATIONS,
            risk |->
              [maxStake |-> e.MAX_BET_SIZE, minStake |-> e.MIN_BET_SIZE,
               escalationStake |-> e.ESCALATION_STAKE_THRESHOLD,
               escalationStreak |-> e.ESCALATION_MIN_LOSS_STREAK,
               bankrollFraction |-> e.MAX_BANKROLL_FRACTION, maxDailyLoss |-> e.MAX_DAILY_LOSS,
               maxConsecutiveLosses |-> e.MAX_CONSECUTIVE_LOSSES, cooldownRounds |-> e.COOLDOWN_ROUNDS,
               maxExposure |-> e.MAX_TOTAL_EXPOSURE, minBalance |-> e.MIN_WALLET_BALANCE,
               maxGasPrice |-> e.MAX_GAS_PRICE_GWEI, stopLoss |-> Null, minConfidence |-> 0,
               minEdge |-> Null, minSeconds |-> e.MIN_SECONDS_BEFORE_LOCK,
               liveNeedsEdge |-> e.LIVE_REQUIRE_POSITIVE_EV]]

config == loadConfig(Env)

ASSUME EnvAssumption == config # Null

-----------------------------------------------------------------------------
\* seed: the strategies and the wallet of a new database.

\* A ladder sizes its own stakes.
SeedConfig(plugin) ==
  LET default == defaultStrategyConfig(plugin, config.defaultBet)
  IN  IF plugin = "sequence-recovery" THEN [default EXCEPT !.sizing.mode = "SIGNAL"] ELSE default

\* Nothing trades by itself before the operator enables it; nothing trades live before he says so.
SeedFlags(plugin) == [enabled |-> plugin = "manual", paper |-> TRUE, live |-> FALSE]

SeededStrategies ==
  [plugin \in Plugins |-> [config |-> SeedConfig(plugin), flags |-> SeedFlags(plugin)]]

WalletKind == IF config.hasSigner THEN "SIGNER" ELSE "WATCH"

\* The seeds are configurations an operator could have saved.
ASSUME SeedsAssumption ==
  \A plugin \in DOMAIN SeededStrategies : ValidConfig(SeededStrategies[plugin].config)
=============================================================================
