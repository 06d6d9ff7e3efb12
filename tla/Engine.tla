------------------------------- MODULE Engine -------------------------------
(***************************************************************************)
(* The strategy engine (apps/server/src/services/engine.ts) with the       *)
(* risk state it builds (riskState.ts, portfolio.ts) and the placing of a  *)
(* decision (execution.ts place).  A tick evaluates every enabled strategy *)
(* in every mode it opts into, all at once; ticks overlap, manual orders   *)
(* come beside them, and after a lost lease so do two processes.  Each     *)
(* evaluation is a sequence of awaits over one ledger.                     *)
(*                                                                         *)
(* What a strategy signals is any of Signals: the strategies themselves    *)
(* are in Strategies, and Pipeline makes a decision of a signal.  How a    *)
(* live bet is sent and found again is LiveExecution's; here it passes the *)
(* pre-flight or not, and what becomes of it counts for the breaker.       *)
(***************************************************************************)
EXTENDS Configuration, Portfolio

CONSTANTS
  Workers,           \* the processes that evaluate
  Specs,             \* the strategies: configuration and source (BOT or MANUAL)
  Flags,             \* bound: which of them there are, and the modes they opt into
  MinBet,            \* the contract's
  Pool,              \* the open round's pool
  ManualModes,       \* bound: the modes manual orders are placed in
  Patches,           \* bound: the flags the operator may turn while the engine runs
  Signals,           \* bound: what a strategy may answer
  Well, Heads,       \* bound: what the chain answers when a live bet is sent, and what else it may
  BullRounds,        \* bound: the rounds BULL wins
  MaxEpoch,          \* bound: rounds; the last is not bet on, it lets the earlier ones end
  MaxBusy,           \* bound: evaluations under way at once
  MaxFaults          \* bound: crashes, failed reads, lost answers, disturbances of the chain, starts
                     \* with another key or none, interventions of the operator

ASSUME SpecsAssumption ==
  \A k \in DOMAIN Specs : /\ Specs[k].config # Null
                          /\ parseStrategyConfig(Specs[k].config.plugin, Specs[k].config) = Specs[k].config
                          /\ Specs[k].source \in {"BOT", "MANUAL"}
ASSUME FlagsAssumption ==
  \A f \in Flags : DOMAIN f \subseteq DOMAIN Specs /\ \A k \in DOMAIN f : f[k] \subseteq {"PAPER", "LIVE"}
ASSUME SignalsAssumption == \A signal \in Signals : signal.stake \in Int \cup {Null}
ASSUME BoundsAssumption == {MaxEpoch, MaxBusy, MaxFaults} \subseteq Nat

GlobalLimits == config.risk
StartingBankroll == config.paperStartingBankroll
GasPerBet == config.gasPerBet
GasPerClaim == config.gasPerClaim
Costs == [gasBet |-> GasPerBet, gasClaim |-> GasPerClaim, balancePull |-> config.balancePull]

Epochs == 1 .. MaxEpoch

VARIABLES
  modes,       \* what every strategy opts into
  open,        \* the round open for bets
  bot,         \* the bot's status, whether live trading is armed, failed executions in a row
  signer,      \* whether the wallet of the key is registered as the signer
  trades,      \* the ledger: a row by decision
  decisions,   \* strategy_decisions: the rows' kinds by <<strategy, mode, epoch>>
  tasks,       \* the evaluations under way, by <<worker, strategy, mode, epoch>>: the inflight keys
  faults

vars == <<modes, open, bot, signer, trades, decisions, tasks, faults>>

At(step) == [step |-> step, flags |-> {}, inTime |-> FALSE, state |-> Null, decision |-> NoTrade]

\* f with x mapped to v.
With(f, x, v) == [y \in DOMAIN f \cup {x} |-> IF y = x THEN v ELSE f[y]]

\* An evaluation ends: its key is released.
Without(t) == [u \in DOMAIN tasks \ {t} |-> tasks[u]]
Goes(t, to) == tasks' = [tasks EXCEPT ![t] = to]

Fault == faults < MaxFaults /\ faults' = faults + 1

-----------------------------------------------------------------------------
\* The ledger as an evaluation reads it.

OfMode(mode) == Restrict(trades, {n \in DOMAIN trades : trades[n].mode = mode})

\* External: what the wallet holds.  A live stake leaves it when the bet is mined (confirmed, here),
\* and winnings are back once claimed (settled, here).
WalletBalance ==
  LET ledger == OfMode("LIVE")
      Spent(n) == CASE ledger[n].status \in {"SETTLED", "FAILED"} -> -tradeNetPnl(ledger[n])
                    [] ledger[n].status = "CONFIRMED" -> ledger[n].amount + OrZero(ledger[n].gasCost)
                    [] OTHER -> 0
  IN  StartingBankroll - Sum([n \in DOMAIN ledger |-> Spent(n)], DOMAIN ledger)

\* External: the gas price, in whole units, and what a bet's gas is estimated at.
Usual == 1
BetGas(gasPrice) == GasPerBet * gasPrice

\* Without a signer there is nothing to bet with.
NoWallet ==
  [bankroll |-> 0, available |-> 0, exposure |-> 0, dailyNetPnl |-> 0, strategyNetPnl |-> 0, lossStreak |-> 0,
   roundsSinceLastLoss |-> Null, alreadyBetThisRound |-> FALSE, gasPrice |-> Null, gasReserve |-> 0]

\* The wallet's bet in round e; one that failed is none.
findLive(e) == {n \in DOMAIN trades : trades[n].mode = "LIVE" /\ trades[n].epoch = e /\ trades[n].status # "FAILED"}

\* One bet per wallet and round in LIVE; one per strategy and
\* round in PAPER.
AccountOf(mode, k, e) ==
  LET ledger == OfMode(mode)
      account == IF mode = "LIVE" THEN liveAccount(ledger, WalletBalance)
                 ELSE paperAccount(ledger, StartingBankroll)
      stats == ledgerStats(ledger, {n \in DOMAIN ledger : ledger[n].strategy = k}, 0)
      there == {n \in DOMAIN ledger : ledger[n].epoch = e}
  IN  [bankroll |-> IF mode = "LIVE" THEN account.balance + account.exposure + account.claimable
                    ELSE account.balance,
       available |-> account.available, exposure |-> account.exposure, dailyNetPnl |-> stats.dailyNet,
       strategyNetPnl |-> stats.strategyNet, lossStreak |-> stats.lossStreak,
       roundsSinceLastLoss |-> IF stats.lastLossEpoch = Null THEN Null ELSE e - stats.lastLossEpoch,
       alreadyBetThisRound |-> IF mode = "LIVE" THEN findLive(e) # {}
                               ELSE \E n \in there : ledger[n].strategy = k,
       gasPrice |-> IF mode = "LIVE" THEN Usual ELSE Null,
       gasReserve |-> IF mode = "LIVE" THEN 2 * BetGas(Usual) ELSE GasPerBet]

\* build.  Whether the round is open is by the clock of the evaluation's start (now), not by that
\* of the read.
buildState(mode, k, e, stillOpen) ==
  LET account == IF mode = "LIVE" /\ ~signer THEN NoWallet ELSE AccountOf(mode, k, e)
  IN  With(With(account, "roundOpen", stillOpen),
           "secondsToLock", IF stillOpen THEN Specs[k].config.entrySeconds ELSE 0)

\* A strategy is evaluated on paper only where paper trading is on, live whenever it opts in.
modesFor(k) == modes[k] \cap (IF config.paperTradingEnabled THEN {"PAPER", "LIVE"} ELSE {"LIVE"})

\* The strategy's flags are those it had when the tick listed it; the rest is read now.
gates(mode, k, flags) ==
  [running |-> IF mode = "PAPER" /\ Specs[k].source = "MANUAL" THEN bot.status # "EMERGENCY_STOPPED"
               ELSE bot.status = "RUNNING",
   enabled |-> mode \in flags,
   allowed |-> IF mode = "PAPER" THEN config.paperTradingEnabled ELSE config.liveTradingEnabled,
   armed   |-> mode = "PAPER" \/ bot.armed,
   wallet  |-> mode = "PAPER" \/ (config.hasSigner /\ signer),
   breaker |-> mode = "PAPER" \/ bot.failures < config.maxExecutionFailures]

-----------------------------------------------------------------------------
\* One evaluation.

\* The strategy, mode and round of an evaluation.
Of(t) == <<t[2], t[3], t[4]>>

Decided(t) == Of(t) \in DOMAIN decisions

\* onMarketState or manualOrder: the key is reserved before the first await.
Begin(w, k, mode) ==
  LET t == <<w, k, mode, open>> IN
  /\ open < MaxEpoch
  /\ mode \in IF Specs[k].source = "BOT" THEN modesFor(k) ELSE ManualModes
  /\ Specs[k].source = "BOT" => bot.status = "RUNNING"
  /\ t \notin DOMAIN tasks /\ Cardinality(DOMAIN tasks) < MaxBusy
  /\ tasks' = With(tasks, t, [At("exists") EXCEPT !.flags = modes[k]])
  /\ UNCHANGED <<modes, open, bot, signer, trades, decisions, faults>>

CheckExists(t) ==
  /\ tasks[t].step = "exists"
  /\ IF Decided(t) THEN tasks' = Without(t) ELSE Goes(t, [tasks[t] EXCEPT !.step = "build", !.inTime = t[4] = open])
  /\ UNCHANGED <<modes, open, bot, signer, trades, decisions, faults>>

ReadLedger(t) ==
  /\ tasks[t].step = "build"
  /\ Goes(t, [At("gates") EXCEPT !.flags = tasks[t].flags,
                                 !.state = buildState(t[3], t[2], t[4], tasks[t].inTime)])
  /\ UNCHANGED <<modes, open, bot, signer, trades, decisions, faults>>

\* RISK_STATE_UNAVAILABLE: a decision not to trade, recorded like any other.
ReadFails(t) ==
  /\ tasks[t].step = "build"
  /\ Fault
  /\ Goes(t, At("place"))
  /\ UNCHANGED <<modes, open, bot, signer, trades, decisions>>

\* decideFor: the gates are read last, and the signal is decided on without another await.
Request(t) ==
  LET cfg == Specs[t[2]].config
  IN  [mode |-> t[3], config |-> cfg, state |-> tasks[t].state,
       limits |-> mergeLimits(GlobalLimits, strategyLimitOverrides(cfg)),
       gates |-> gates(t[3], t[2], tasks[t].flags), minBet |-> MinBet, pool |-> Pool, costs |-> Costs]

Decide(t) ==
  /\ tasks[t].step = "gates"
  /\ \E d \in {decide(i, signal) : i \in {Request(t)}, signal \in Signals} :
       IF d.kind = "WAIT" THEN tasks' = Without(t) ELSE Goes(t, [At("place") EXCEPT !.decision = d])
  /\ UNCHANGED <<modes, open, bot, signer, trades, decisions, faults>>

\* trades.uid is UNIQUE: by wallet and round in LIVE, by strategy and round in PAPER.
UidPerStrategy(t) ==     \* fault: a live uid that names the strategy
  \A n \in DOMAIN trades : ~(trades[n].mode = t[3] /\ trades[n].epoch = t[4] /\ trades[n].strategy = t[2])

UidFree(t) ==
  \A n \in DOMAIN trades :
    ~(trades[n].mode = t[3] /\ trades[n].epoch = t[4] /\ (t[3] = "LIVE" \/ trades[n].strategy = t[2]))

\* strategy_decisions is UNIQUE by strategy, round and mode.
DecisionsRepeat(t) == TRUE     \* fault: without the constraint
DecisionFree(t) == ~Decided(t)

Recorded(t, kind) ==
  With(decisions, Of(t), IF Decided(t) THEN Append(decisions[Of(t)], kind) ELSE <<kind>>)

Row(t, d) ==
  [mode |-> t[3], strategy |-> t[2], epoch |-> t[4], direction |-> d.direction, amount |-> d.stake,
   status |-> IF t[3] = "PAPER" THEN "CONFIRMED" ELSE "PENDING", result |-> Null, payout |-> Null,
   claimStatus |-> "NONE", placedAt |-> t[4], settledAt |-> Null,
   gasCost |-> IF t[3] = "PAPER" THEN GasPerBet ELSE Null, claimGasCost |-> Null]

Unsigned(t) == t[3] = "LIVE" /\ ~signer

\* place: the decision and its trade in one transaction.  A second decision throws, and so does a
\* live bet without a signer; a second bet undoes the transaction, and the decision is recorded
\* again, as one not to trade.
Place(t) ==
  LET d == tasks[t].decision
      bets == d.kind = "TRADE"
  IN
  /\ tasks[t].step = "place"
  /\ \/ /\ DecisionFree(t) /\ (bets => UidFree(t) /\ ~Unsigned(t))
        /\ decisions' = Recorded(t, d.kind)
        /\ trades' = IF bets THEN With(trades, Of(t), Row(t, d)) ELSE trades
        /\ tasks' = Without(t)
     \/ /\ DecisionFree(t) /\ bets /\ ~UidFree(t) /\ ~Unsigned(t)
        /\ Goes(t, At("reject"))
        /\ UNCHANGED <<trades, decisions>>
     \/ /\ ~DecisionFree(t) \/ (bets /\ Unsigned(t))
        /\ tasks' = Without(t)
        /\ UNCHANGED <<trades, decisions>>
  /\ UNCHANGED <<modes, open, bot, signer, faults>>

RecordRejected(t) ==
  /\ tasks[t].step = "reject"
  /\ decisions' = IF DecisionFree(t) THEN Recorded(t, "NO_TRADE") ELSE decisions
  /\ tasks' = Without(t)
  /\ UNCHANGED <<modes, open, bot, signer, trades, faults>>

\* A process dies and its evaluations with it.
Crash(w) ==
  /\ \E t \in DOMAIN tasks : t[1] = w
  /\ Fault
  /\ tasks' = [t \in {u \in DOMAIN tasks : u[1] # w} |-> tasks[t]]
  /\ UNCHANGED <<modes, open, bot, signer, trades, decisions>>

-----------------------------------------------------------------------------
\* What goes on around it.

\* The round locks and the next one opens.
NextRound ==
  /\ open < MaxEpoch
  /\ open' = open + 1
  /\ UNCHANGED <<modes, bot, signer, trades, decisions, tasks, faults>>

\* BotControl: the operator stops everything, or resets, starts and arms.
Operate ==
  /\ bot' \in {[status |-> "RUNNING", armed |-> TRUE, failures |-> 0],
              [bot EXCEPT !.status = "EMERGENCY_STOPPED", !.armed = FALSE]}
  /\ bot' # bot
  /\ Fault
  /\ UNCHANGED <<modes, open, signer, trades, decisions, tasks>>

\* setFlags: the flags not named stay as they are.
Turned(flags, mode) == IF mode \in flags THEN flags \ {mode} ELSE flags \cup {mode}

\* PATCH /api/strategies/:id with one flag and no configuration; no other PATCH is under way.
SetFlags(k, mode) ==
  /\ <<k, mode>> \in Patches
  /\ modes' = [modes EXCEPT ![k] = Turned(@, mode)]
  /\ Fault
  /\ UNCHANGED <<open, bot, signer, trades, decisions, tasks>>

\* Another process starts and seeds: without the key it makes the wallet of the address one to
\* watch, with it the signer again.
Seed ==
  /\ signer' = ~signer
  /\ Fault
  /\ UNCHANGED <<modes, open, bot, trades, decisions, tasks>>

\* recordExecutionFailure, to its end; counted no further than the limit.
AfterFailure ==
  LET n == Least2(bot.failures + 1, config.maxExecutionFailures)
  IN  IF n < config.maxExecutionFailures THEN [bot EXCEPT !.failures = n]
      ELSE [status |-> IF bot.status = "RUNNING" THEN "PAUSED" ELSE bot.status, armed |-> FALSE, failures |-> n]

\* preflight: the checks in the order they are made, with the error class of each and whether it fails.
preflight(t, head) ==
  <<<<"STALE_ROUND", t.epoch # open>>,
    <<"ROUND_LOCKING", head.secondsToLock < GlobalLimits.minSeconds>>,
    <<"DUPLICATE_BET", head.bet>>,
    <<"MARKET_PAUSED", head.paused>>,
    <<"BELOW_MIN_BET", t.amount < MinBet>>,
    <<"GAS_PRICE", head.gasPrice > GlobalLimits.maxGasPrice>>,
    <<"INSUFFICIENT_FUNDS", WalletBalance < t.amount + BetGas(head.gasPrice)>>>>

\* fail, afterFailure: the owner's own bet in the round is no failure of execution.
Fails(n, errorClass) ==
  /\ trades' = [trades EXCEPT ![n].status = "FAILED"]
  /\ bot' = IF errorClass = "DUPLICATE_BET" THEN bot ELSE AfterFailure

\* classifyError: the errors that leave open whether the transaction reached the network.
MaybeBroadcast == {"ALREADY_KNOWN", "NONCE", "TIMEOUT", "NETWORK", "UNKNOWN"}
ExecutionErrorClasses == MaybeBroadcast \cup {"INSUFFICIENT_FUNDS", "UNDERPRICED", "CONTRACT_REVERT"}

\* submitLive up to the broadcast: a bet not signed fails on any error, a signed one stays open when
\* the error leaves its fate open.
Sent(n, head) ==
  LET checks == preflight(trades[n], head)
      failed == {i \in DOMAIN checks : checks[i][2]}
  IN
  /\ trades[n].status = "PENDING"
  /\ IF head = Well THEN UNCHANGED faults ELSE Fault
  /\ IF failed # {} THEN Fails(n, checks[Min(failed)][1])
     ELSE IF head.error \notin MaybeBroadcast \cup {Null} THEN Fails(n, head.error)
     ELSE /\ trades' = [trades EXCEPT ![n].status = IF head.error = Null THEN "SUBMITTED" ELSE "SUBMITTING"]
          /\ UNCHANGED bot
  /\ UNCHANGED <<modes, open, signer, decisions, tasks>>

Unresolved(n) == trades[n].status \in {"SUBMITTING", "SUBMITTED"}

\* The transaction's receipt.  A success ends a row of failures; a revert has burned its gas.
applyReceipt(n, success) ==
  /\ Unresolved(n)
  /\ trades' = [trades EXCEPT ![n].status = IF success THEN "CONFIRMED" ELSE "FAILED", ![n].gasCost = GasPerBet]
  /\ bot' = IF success THEN [bot EXCEPT !.failures = 0] ELSE AfterFailure
  /\ UNCHANGED <<modes, open, signer, decisions, tasks, faults>>

\* Without a receipt, after the round has locked: the contract's ledger shows the bet or does not.
FromLedger(n, there) ==
  /\ trades[n].status = "SUBMITTING" /\ trades[n].epoch < open
  /\ IF there THEN trades' = [trades EXCEPT ![n].status = "CONFIRMED"] /\ UNCHANGED bot ELSE Fails(n, "DROPPED")
  /\ UNCHANGED <<modes, open, signer, decisions, tasks, faults>>

\* The round of a bet is over two rounds later.
settleable(n) == trades[n].status = "CONFIRMED" /\ trades[n].epoch + 2 <= open

\* The bet is settled, and its winnings are claimed.
Settle(n) ==
  LET won == (trades[n].direction = "BULL") <=> (trades[n].epoch \in BullRounds) IN
  /\ settleable(n)
  /\ trades' = [trades EXCEPT ![n] =
                  [@ EXCEPT !.status = "SETTLED", !.settledAt = open,
                            !.result = IF won THEN "WON" ELSE "LOST",
                            !.claimStatus = IF won THEN "CLAIMED" ELSE "NONE",
                            !.payout = IF won THEN 2 * trades[n].amount ELSE 0,
                            !.claimGasCost = IF won THEN GasPerClaim ELSE 0]]
  /\ UNCHANGED <<modes, open, bot, signer, decisions, tasks, faults>>

-----------------------------------------------------------------------------

Init ==
  /\ modes \in Flags
  /\ open = 1
  /\ bot = [status |-> "RUNNING", armed |-> TRUE, failures |-> 0]
  /\ signer = TRUE
  /\ trades = <<>> /\ decisions = <<>>
  /\ tasks = <<>>
  /\ faults = 0

Evaluation(t) ==
  CheckExists(t) \/ ReadLedger(t) \/ ReadFails(t) \/ Decide(t) \/ Place(t) \/ RecordRejected(t)

Ledger == \E n \in DOMAIN trades :
  \/ \E head \in {Well} \cup Heads : Sent(n, head)
  \/ \E yes \in BOOLEAN : applyReceipt(n, yes) \/ FromLedger(n, yes)
  \/ Settle(n)

Next ==
  \/ \E w \in Workers, k \in DOMAIN modes, mode \in {"PAPER", "LIVE"} : Begin(w, k, mode)
  \/ \E t \in DOMAIN tasks : Evaluation(t)
  \/ \E w \in Workers : Crash(w)
  \/ \E k \in DOMAIN modes, mode \in {"PAPER", "LIVE"} : SetFlags(k, mode)
  \/ NextRound \/ Operate \/ Seed \/ Ledger

Spec == Init /\ [][Next]_vars

-----------------------------------------------------------------------------
\* Properties.

\* Overlapping ticks, manual orders and processes leave one decision per strategy, round and mode.
\* Every trade is the outcome of a decision to trade, and every such decision has its trade
\* (engine.ts: any round can answer "why?").
EveryBetExplained ==
  /\ \A of \in DOMAIN decisions : Len(decisions[of]) = 1
  /\ {of \in DOMAIN decisions : decisions[of][1] = "TRADE"} = DOMAIN trades

AtRisk == {"SUBMITTING", "SUBMITTED", "CONFIRMED"}

\* The stakes of live bets at risk never exceed the exposure limit, although the strategies of a
\* tick decide on the same ledger, each before it holds the others' bets: only one of them can
\* bet in the round, and a round's evaluations see every bet of the rounds before that can still
\* be sent.
LiveExposureHolds ==
  Sum([n \in DOMAIN trades |-> trades[n].amount],
      {n \in DOMAIN trades : trades[n].mode = "LIVE" /\ trades[n].status \in AtRisk})
    <= GlobalLimits.maxExposure

\* In paper mode nothing keeps strategies from betting in the same round: the limit is overshot by
\* at most one stake of each of the others, and of each bet decided before the round locked.
PaperOvershootBounded ==
  Sum([n \in DOMAIN trades |-> trades[n].amount],
      {n \in DOMAIN trades : trades[n].mode = "PAPER" /\ trades[n].status \in AtRisk})
    <= GlobalLimits.maxExposure + (MaxBusy - 1) * GlobalLimits.maxStake
=============================================================================
