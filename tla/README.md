# A TLA+ verification of unified-bsc-predict

unified-bsc-predict is a trading application for the PancakeSwap prediction markets on
BNB Smart Chain: it watches rounds, evaluates strategies, places paper and live bets,
reconciles them with the chain and claims winnings. This directory holds TLA+ models of
the parts of the program that decide about money, live or in a replay, the TLC
configurations that check them, and TLAPS proofs of the theorems that matter most.

## How to run

    tlc -workers 2 -config MCLiveExecution.cfg MCLiveExecution    # any run: <cfg> <module>
    tlapm LiveExecution_proofs.tla                                # the proofs

`PROJECT.json` lists every run with the properties it checks, the source lines behind
every definition, the mutants that show each property can fail, the hazards and the
findings. A definition whose comment starts with `fault:` is one of those mutants; no
action uses it.

## The system

One Node process (`apps/server/src/app.ts`) serves the HTTP API and, while it holds the
database lease, runs the worker: loops on timers, each a chain of `await`s. All loops and
API calls share one event loop, one database and a few in-memory sets. There is no
mutual exclusion between them beyond "a loop does not overlap itself", the status guards
in SQL (`UPDATE ... WHERE status = :from`), UNIQUE constraints and the execution
service's in-flight set. Every `await` is therefore a point where any other loop, the
operator, the chain or a crash may come in between, and that is what the models are about.

| Component (source) | State it keeps | Operations | What makes it correct |
|---|---|---|---|
| Trade ledger (`core/trade.ts`, `repositories/trades.ts`) | a row per trade: status, hash, error class, claim status, gas | insert, guarded transition, patch | rows follow the TRANSITIONS table; one row per strategy, wallet and round |
| Live execution (`services/execution.ts`) | in-flight set | place, submitLive, applyReceipt, fail, confirmFromLedger | at most one transaction per round; nothing lost by a crash; nothing written off that can still bet |
| Transaction reconciler (`services/txReconciler.ts`) | none (rows read per pass) | run | every pre-confirmation row is eventually decided, by receipt or contract ledger, never by sending again |
| Wallet sync (`services/walletSync.ts`) | `user_rounds_cursor` | run over a page of getUserRounds | every bet on the contract has a row; the cursor never passes an unseen bet |
| Settlement (`services/settlement.ts`) | none | settle a round's trades | only final rounds are settled |
| Claims (`services/claims.ts`) | claim rows, trade claim status, gas | run, applyReceipt, revert, reconcileOpen | CLAIMED means paid; winnings are collected; gas is charged once |
| Bot controller (`services/bot.ts`, `repositories/misc.ts` BotStateRepo) | the bot_state row, the app phase | start, stop, pause, resume, emergencyStop, resetEmergency, armLive, disarmLive, recordFailure, recordSuccess | an emergency stop holds until reset; live trading needs a confirmation after a restart; the breaker disarms |
| Startup recovery (`services/recovery.ts`) | app phase | pending transactions, wallet trades, disarm, READY | the ledger is reconciled before trading; a failing step is retried |
| Worker and lease (`services/worker.ts`, `db/database.ts`) | lease connection, timers | leaseLoop, startWork, stopWork | one worker at a time, up to the time it takes to notice a lost lease and but for what nobody awaits |
| Strategy engine (`services/engine.ts`, `repositories/decisions.ts`) | reservations, decision rows | onMarketState, manualOrder, evaluate, gates | one decision per strategy, round and mode, and every bet has one; no live bet beyond the exposure limit |
| Round monitor, history sync, round store, CSV import (`services/roundMonitor.ts`, `historySync.ts`, `csvImport.ts`, `repositories/rounds.ts`) | rounds rows, sync cursors | tick, confirmFinal, syncEpochs, upsert, import | older reads never undo newer ones; final rounds are right |
| Pool events (`services/poolEvents.ts`, `repositories/poolEvents.ts`) | backfill and live cursors, gaps | collect, append, recordFailure, skipGap | every covered block is stored or recorded as a gap |
| Round rules (`core/round.ts`, `trade.ts`) | none | status, outcome, payouts, P&L | agree with the contract to the unit |
| Risk engine (`core/risk.ts`) | none | mergeLimits, evaluateRisk | a strategy's limits only tighten the global ones |
| Risk state and portfolio (`services/riskState.ts`, `portfolio.ts`, `core/portfolio.ts`) | snapshot rows | ledgerStats, accounts, computePortfolio | every report of the same trades adds up to the same money |
| Strategies, decision pipeline (`core/strategy/*`, `sequence.ts`, `edge.ts`) | none (a ladder is re-derived from the trades) | evaluate per plugin, buildContext, decide | use only what is known; favour no side; keep their cooldown |
| Backtest, walk-forward (`core/backtest.ts`, `walkForward.ts`, `services/backtest.ts`) | a simulation per strategy; backtest_runs | step, settleUpTo, folds; start, progress, end | judge as paper and live would; out of sample is out of sample; a running one is kept |
| Research (`core/research.ts`, `statistics.ts`, `services/research.ts`, `research/*`) | experiments and their tests | studies, scoring, correction; register, run, finish | rules could have been traded as scored; nothing is an edge for having been one of many |
| Configuration, markets service (`config.ts`, `services/markets.ts`) | strategies, wallets | loadConfig, seed | refuses contradictory limits; nothing trades live by itself |
| Chain adapter (`chain/viem.ts`) | nonce, RPC clients | broadcast, getReceipt, waitForReceipt, reads | an answer that leaves the fate of a transaction open is told apart from a refusal |

Left aside: audit and events, shadow checks, the one-time database tools, the dashboard,
most API routes, the command line, scripts and deployment. The components list in
`PROJECT.json` gives the reason for each.

How they interact: the engine asks the bot row, the risk engine and the ledger, then
calls `place`; `place` inserts a row and detaches `submitLive`; `submitLive`, the
reconciler and the wallet sync resolve the same row; round monitor, history sync and
settlement loop call settlement; settlement sets claim statuses, the claim run, its
reconciler (the last call of a reconciler pass) and the wallet sync resolve those;
failures and successes of executions come back to the bot controller through
recordFailure and recordSuccess, where they race the operator's commands. Backtest,
walk-forward, paper and live share the pipeline: `buildContext`, a plugin, `decide` with
`mergeLimits` and `evaluateRisk`; what differs is where the account comes from (running
counters in a replay, sums over the ledger elsewhere), and that is where they could drift
apart.

What is hard here: rows read before an await and used after it; several tasks applying
one receipt; a process dying between signing, recording, broadcasting and the receipt; a
broadcast whose answer is lost; a lease lost while loops run; read-modify-write updates of
one row; cursors that must not pass what was not processed. In the replay and the studies,
which are sequential: using a result a moment before it was known, integer payouts, limits
where zero means none, counters kept beside a ledger, chance taken for an edge. The
hazards list has each at its line.

## Modules

| Module | Models | Composes or implements |
|---|---|---|
| `TradeLifecycle` | what the ledger promises about live bets (abstract specification) | |
| `LiveExecution` | execution, reconciler, wallet sync, settlement, recovery order, against the contract | implements `TradeLifecycle` |
| `MCLiveExecution` | worker sets for TLC | extends `LiveExecution` |
| `LiveExecution_proofs` | theorems and proofs | extends `LiveExecution`, TLAPS |
| `BotControl` | bot_state row and its operations, recovery's disarming, crashes | |
| `MCBotControl` | callers and their operations for TLC | extends `BotControl` |
| `BotControl_proofs` | theorems and proofs | extends `BotControl`, TLAPS |
| `Claims` | claim run, claim reconciler, settlement's and wallet sync's claim marks | |
| `Claims_proofs` | theorems and proofs | extends `Claims`, TLAPS |
| `RoundStore` | rounds table with monitor, history sync and CSV import over a chain that reorganises | |
| `MCRoundStore` | the CSV archive for TLC | extends `RoundStore` |
| `RoundStore_proofs` | theorems and proofs | extends `RoundStore`, TLAPS |
| `PoolEvents` | collection of bet events: range, gaps, failures, overlapping collectors | |
| `MCPoolEvents` | collectors for TLC | extends `PoolEvents` |
| `PoolEvents_proofs` | theorems and proofs | extends `PoolEvents`, TLAPS |
| `Ordering` | sorting and filtering, for the modules that are proved about | |
| `RoundRules` | round status, outcome, payouts; results and P&L of a trade | |
| `RiskRules` | mergeLimits and evaluateRisk | extends `RoundRules` |
| `Strategies` | the built-in plugins, their parameters and analytics | extends `RoundRules`, `Ordering` |
| `Pipeline` | configuration, context, expected value, decision | extends `Strategies`, `RiskRules` |
| `Portfolio` | reports and accounts of a ledger, what the risk engine is told | extends `RoundRules` |
| `CsvArchive` | which rounds a file of each format stands for | extends `RoundRules`, `Ordering` |
| `Pipeline_proofs` | theorems about limits; lemmas on sums, decisions and accounts | extends `Pipeline`, `Portfolio`, TLAPS |
| `Configuration` | loadConfig and the seeds | extends `Pipeline` |
| `Engine` | evaluations of overlapping ticks, manual orders and processes over one ledger | extends `Configuration`, `Portfolio` |
| `MCEngine` | strategies, signals and chain answers for TLC | extends `Engine` |
| `Engine_proofs` | theorems and proofs | extends `Engine`, `Pipeline_proofs` |
| `Backtest` | the replay | extends `Pipeline`, `Portfolio`, `CsvArchive` |
| `WalkForward` | folds, choice and out-of-sample record | extends `Backtest` |
| `Research` | columns, studies, scoring, correction | extends `Backtest` |
| `MCBacktest` | strategies, limits, rounds and pasts for TLC | extends `WalkForward`, `Research`, `Configuration` |
| `Backtest_proofs` | theorems and proofs about the replay and about `Processes` | extends `WalkForward`, `Research`, `Processes`, `Pipeline_proofs` |
| `Processes` | worker lease, shutdown, backtest and experiment rows of several processes | |
| `MCProcesses` | processes for TLC | extends `Processes` |

### LiveExecution

State. `status`, `signed` (the hash column is set), `why` (error_class) and `cursor` are
the database; `ledger`, `tx` and `clock` the chain; the rest is the memory of each
process: `pc` is where `submitLive` stands for a round (not idle: the row is in the
in-flight set), `rec*` a reconciler pass, `ws*` a wallet sync. `sent` counts broadcasts
and is never read by an action.

| Code | Actions |
|---|---|
| `place` | `Place` (the row is committed and goes in flight) |
| `submitLive` | `Checked` / `Reject` (preflight, prepareBet), `PersistSigned` (SUBMITTING with hash), `BroadcastAccepted` / `Unknown` / `Refused`, `RecordAccepted`, `AwaitReceipt` |
| `applyReceipt`, `fail`, `confirmFromLedger`, `transition` | `ApplyReceipt`, `FailRow`, `ConfirmRow`: re-read and guarded UPDATE in one step |
| `TxReconciler.run` | `RecStart` (the rows are read once), `RecSkip`, `RecUnsigned`, `RecReceipt`, `RecLedger`, `RecNothing`; a failing read is `RecAbort` |
| `WalletSync.run` | `WsStart`, `WsNothing`, `WsHead`, `WsRound`, `WsAbort` (UNIQUE violation), `WsEnd`, `WsCutShort` |
| settlement | `SettleRow`: by `settleAll` (`Settle`, from recovery's settlements on) or of a round just made final (`SettleFinalised`) |
| `Recovery.run`, process start and death | `Boot`, the `phase` conditions of reconciler, wallet sync and settlement, `Recovered`, `Crash` |
| contract and network | `Mine`, `ExternalBet`, `Tick` |

Abstractions. Time is in half rounds: round e takes bets in tick 2e-2, is locked from
2e-1, past lock plus buffer from 2e, final from 2e+2. There is one row per round because
`trades.uid` is UNIQUE over wallet, market and round for live trades. Bets land only in
the open round, so the order of the wallet's rounds is the order of epochs and the cursor
is the last round covered; a page is all of them. The grace period for unsigned rows may
end at any time before tick 2e and has ended then. The reads of head and block inside one
task are part of its step. A pass starts at the first row it waits for, since nothing
before it awaits. A transaction in the mempool may be mined at any time or never; chain
reorganisations, stale RPC nodes, nonces and gas prices are not modelled, nor are paper
trades, amounts and bet direction. Several `Workers` stand for the time between losing
the lease and noticing it: the second process works on the same database with a memory
of its own: how two come to work at once is in `Processes`. The bot row is in `BotControl`,
the gates that read it in `Engine`; here bets are placed whenever a round is open, which
allows more than the code does.

### BotControl

Each call is a script of the steps its code awaits: checks that read the row, `tally`
(recordFailure's own read of the counter), and updates. `BotStateRepo.update` reads the
row, awaits, and writes all columns, so an update is two steps, `UpdateRead` and
`UpdateWrite`. `Boot`, `Review` and `Ready` are recovery's end, `Crash` loses all calls.
`stopped`, `fresh`, `confirmed`, `undone` and `lost` are history variables for the
properties: an emergency stop is in effect, the calls begun since, an arming happened since
the last start, an update wrote an armed row back over a disarming since, an update was
overwritten since. Events and audit rows are left out. Failures are
counted up to `FailureCap`.

### Claims

The claim run and the claim reconciler are two tasks of one process; each step is one
awaited row update. `job[t]` is the position of a task, with the claim and the trades it
still has to patch. Settlement (`Settle`), claims made from elsewhere (`ClaimOutside`),
the wallet sync's marking (`SyncClaimed`) and mining are environment. `Age` says that ten
minutes passed since the claim was made: a claim still without a receipt is then given
up. It needs the run to be over with the claim, since the run itself waits at most sixty
seconds. `Die` ends one task (a database error) or both (a crash). `torn` remembers the
claims whose row was closed by a task that died before it had patched the trades: those
trades stay CLAIMING for ever, since neither the claim run (UNCLAIMED only) nor the
reconciler (open claims only) looks at them again. That is a real weakness of the code,
kept out of the two properties by name and listed under hazards. `open` says whether a run
started now would pass the gates at its beginning: the loop asks `canTrade` (`worker.ts:160`),
and `run` itself wants a signing wallet, live trading enabled and no emergency stop
(`claims.ts:25-34`); a run asked for at the dashboard meets only the latter. `Gate` opens and
closes them as it likes while no run is under way. `contested` remembers that both tasks were
applying the outcome of one claim at the same time, the case of finding 2. Simulation and the
SUBMITTED mark are one step. Left out are the batch size, which delays a run by a bounded time,
the order of recovery before the first run, and the second process of a lost lease.

### RoundStore

The chain is two states of the contract: `head`, and `safe`, CONFIRMATIONS blocks deeper.
`NewBlock` ends the locked round and opens the next (or lets the locked one lapse),
`Deepen` confirms it, `Reorg` takes it back; one such change at a time is unconfirmed,
which assumes, as the code does, that reorganisations are shallower than CONFIRMATIONS. A round's
status is its outcome or "pending": the five open statuses differ in nothing that decides
a write, and TIE is one more outcome. `row` is the table, `cursor` the sweep's cursor.

Every writer is a task (`job`): the rounds it has to store, what it read of them, and
where it is inside `RoundsRepo.upsert`. `upsert` reads the row (`Look`) and writes it
(`Put`) in a READ COMMITTED transaction, so another writer may come in between; `Put`
keeps the row for the results stale, unchanged and conflict, otherwise the insert meets
UNIQUE(market_id, epoch) and the update the trigger `rounds_final_immutable`
(`Permitted`), and a refused write throws out of the task. Each row is committed by itself: a
sync's batch is one round (`syncBatchSize` 1), and batches go upwards one at a time.

| Code | Actions |
|---|---|
| `RoundMonitor.tick`, `confirmFinal` | `MonitorStart` (head and pinned read), `Look`, `Put`, `MonitorEnd` (missed rounds are handed to a background sync, not awaited) |
| `HistorySync.syncEpochs` | `SyncJob` (the epochs still wanted, read at the pin), `Repin` (a later batch or a retry reads at a newer block), `SyncFails` |
| `syncIncremental`, and recovery's bounded one | `IncrementalStart`, `IncrementalEnd`; `BackfillEnd` for the monitor's |
| `reconcile` | `ReconcileStart` (stale rounds), `ReconcileGaps`, `ReconcileSweep`, `ReconcileEnd` |
| `CsvImporter.import` | `CsvStart`, `CsvEnd`: beside the worker, not killed with it |
| process start and death | `Boot`, `Crash` |

`Window` stands for GAP_WINDOW and for recovery's 2,000 rounds, `VerifySweep` for
VERIFY_SWEEP. The monitor's backfill takes the slot of the incremental sync, so those two
never overlap each other. The archive holds rounds that were over when it was made; it
may be wrong about them. Settlement, prices, amounts and the import's report are left out.

### PoolEvents

`row` is the row of `pool_event_sync`, `stored` and `gaps` the blocks whose events are
stored or given up; `run[c]` is a collection run with the range it read at its start.
`Forward`, `SkipGap` and `Backfill` are the transactions of `append` and `skipGap`
together with the request before them: the events of confirmed blocks do not change, so
fetching and storing commute with everything else. `ForwardFails` and `BackfillFails`
count the failure in the database (`recordFailure`), `Stop` and `Finish` set
`backfill_done`. The log node owes nothing, any request may fail. Collectors overlap: the
worker, one that lost its lease, `pool-events backfill` on the command line. `Die` ends a
run at any await, `ResetBackfill` is the operator's reset. `safe` only grows: a node that
lags behind answers like a run that started earlier. A successful answer is taken to be
complete.

### RoundRules, RiskRules, Strategies, Pipeline, Portfolio, CsvArchive, Configuration

Operators, one per function of the code, with its name. Amounts are integers and every
division truncates where the code's does. Probabilities are pairs of counts, so that they
compare exactly; confidence, expected value and percentages are whole hundredths. A null
is `Null`, and a field that is left out is not in the record. Reasons, indicators and
wording are left out. `Configuration` decides whether a process starts at all: `config` is
what the constants of a run's modules are read from, so the limits checked are limits the
program accepts. `CsvArchive` knows what can be told of a line (its columns, whether its
fields have their types), not its characters.

### Engine

`tasks` holds the evaluations under way, keyed like the code's reservation by strategy,
mode and round, and by process. An evaluation is the awaits of `evaluate`: `Begin` (the
key is reserved), `CheckExists`, `ReadLedger` or `ReadFails` (the risk state),
`Decide` (the gates are read last; the pipeline does not await), `Place` (decision and
trade in one transaction, or the constraint that stops it), `RecordRejected`. Between any
two come other evaluations, the next round, the operator (`Operate`, `SetFlags`), a start
with or without the key (`Seed`), a crash of a process, and what becomes of live bets:
`Sent` (pre-flight and broadcast, with the error class of the first check that fails),
`applyReceipt`, `FromLedger`, `Settle`. What a strategy signals is a constant, since
`Backtest` checks the strategies; `decide` and everything it calls are `Pipeline`'s. One
market; times within a round are the order of steps. The failure counter of the breaker is
one step here, its races are `BotControl`'s.

### Backtest, WalkForward, Research

`Backtest` reads rounds as an archive file gives them, one per step with every shape of
outcome, pool and damage, and replays each at once for all strategies: `Evaluate` settles
what is known at the decision time, builds the context, decides and places. `Finish`
settles the rest. Because the future of a replay is still open in this module, that a
decision does not depend on it can be stated: `Hindsights` are the same rounds with other
results, prices and pools for all that was not known, and for the round bet on, as they
would have been read. Two bets a replay has open when a day's loss limit stops it may still
lose, and a late refund costs its gas: `DailyLossBounded` is about the bets decided by their
rounds and allows for two of them. `WalkForward` and `Research` are functions of the
rounds read so far, evaluated in every state by their properties; the out-of-sample record
of a fold and the set of rules with their bets are compared over such variants as well. A fold
compares its candidates by either `Objective`; the run takes 'roi' and compares the fractions
as such, where the code divides, and the theorem covers both.
Research's p-values are not computed: `EdgesAreCorrected` goes through all small vectors of
them. The service around a run, its rows and its interruption are in `Processes`.

### Processes

`session` is whose connection holds the advisory lock of the database, `leased` what each
process believes; they differ from the moment a connection drops to the next look.
`jobs[p]` are the calls of a process's loops under way, of the present generation (`new`)
or of one that `stopWork` ended (`old`), and as `detached` what such calls began and nobody
awaits: `track` knows neither the submission of a live bet (`engine.ts:199`,
`execution.ts:144`) nor the monitor's backfill (`roundMonitor.ts:175-177`). What they do is
in the other modules; manual orders come from the API and are no work of the loops.

| Code | Actions |
|---|---|
| `leaseLoop`, `tryAcquireWorkerLease`, `checkWorkerLease` | `Acquire`, `Granted`, `CheckFails`, `CheckTimesOut`, `Lost`, `LoopDrained`, `LoopEnds` |
| `startWork`, `stopWork`, recovery and the loops | `StartRecovery`, `RecoverBacktests`, `RecoveryEnds`, `RecoveryThrows`, `LoopRuns`, `LoopReturns`, `StopWork` |
| submissions and backfills nobody awaits | `Detach`, `DetachedEnds` |
| `main`, `createApp`, shutdown | `Boot`, `Stop`, `StopDrained`, `Release`, `Exit` |
| `BacktestService`, `failInterrupted` | `StartRun`, `Progress`, `EndRun`, `Tick` |
| `ResearchService`, `markRunning`, `finish`, `fail` | `StartStudy`, `FinishStudy`, `FailStudy`, and `Boot` for `failInterrupted` |
| hosts and network | `Crash`, `GhostTimesOut`, `ConnectionDrops` |

A heartbeat's age counts in halves of the stale time: `Tick` may pass only when every run
being computed has beaten since the last, which is the code's assumption that a chunk
takes far less than half a minute.

## Runs

| Run | Instance | Shows |
|---|---|---|
| `execution` | 2 rounds, 1 process, 1 fault, outside bets in the first round, fairness; 221,746 states | nothing is sent twice, confirmed without a bet or written off with one; the cursor covers; the ledger refines `TradeLifecycle`; every trade is resolved unless recovery can never complete |
| `interrupted` | 2 rounds, no fault | violated: `FailedNeverBets` |
| `claims` | 2 winning rounds, one claimable elsewhere, 5 claims, 1 fault, the gate opening and closing, fairness; 1,211,823 states | claim statuses are true and tracked; gas is charged unless both tasks applied one claim at once; winnings are collected unless the gate keeps closing |
| `claim_gas` | 1 round, 2 claims, no fault | violated: `GasChargedOnce` |
| `bot` | all operations, two callers beside recovery, crashes, breaker at 2; 12,192,779 states | stop, confirmation and breaker hold as stated |
| `bot_emergency` | stop against outcome recording | violated: `EmergencyStopHolds` |
| `rounds` | 3 rounds, two of four tasks at a time, one wrong archive row, a reorganisation per block, 1 fault; 3,967,291 states | a final chain row is the truth and never changes |
| `rounds_filled` | 3 rounds, one task at a time, window 0, 1 fault, fairness; 97,981 states | every finished round from the first stored one on becomes final chain data |
| `pool_events` | 2 collectors, 3 blocks, 2 chunks forward and 1 back, gaps after 2 failures, 1 fault, fairness; 337,946 states | the range is covered, never shrinks, reaches the head; backfill ends |
| `replay` | 10 strategies, 4 pasts of 8 to 10 rounds in 3 formats, 6 shapes of round up to the twelfth, 4 walk-forward candidates; 6,256 states | no look-ahead; limits hold; the counters, reports and payouts agree; cooldown; no preferred side; out of sample; rules tradable, scored and corrected |
| `engine` | 2 processes, 2 live strategies, or a paper one beside manual orders; 2 rounds, 2 evaluations at once, 1 fault; 2,000,936 states | one decision each, every bet explained; live exposure within the limit, paper's overshoot bounded |
| `processes` | 2 servers, 1 backtest, 1 experiment, 1 detached call at a time, 2 faults, fairness; 901,369 states | awaited work only under the lease, and no other begun without it; running backtests kept; experiments tested once; somebody comes to trade |

Bounds and why they are enough. `MaxEpoch = 2` lets one row's fate be decided while the
pass waits for another row, which one round cannot show; a third round adds no new pair
of tasks. `MaxFaults` is shared by crashes and failed reads. The theorems below remove
these bounds, and that of one process, for every safety property of the run: two
processes that trade at once, which a lost lease produces, are covered by the proofs for
any number of `Workers`. The same goes for the safety properties of `claims`, `bot`,
`rounds`, `pool_events`, `engine` and `processes`: for each of them the run is the small
instance and a theorem the general case. Outside bets in the first round leave the second one to meet
what they did to the cursor. In `Claims`, five claim rows suffice for
two rounds with one fault: TLC exhausts four (a run then waits for ever for an id) and
never needs the sixth. In `BotControl` two callers plus recovery
give every race of two updates with a third read; `FailureCap = MaxFailures` is where the
breaker trips and nothing distinguishes larger counts. In `RoundStore`
three rounds are one before, one in and one after the window of a recovery; `Window = 0`
is the smallest that leaves a hole, and a sweep of one round at a time makes it pass
its end and start again. `MaxBusy = 2` lets any two tasks meet inside `upsert`, where
more add only more of the same pairs; for the liveness run one at a time is enough, the
holes come from outages and not from races. In `PoolEvents` two collectors give every pair of a
slow and a fast run; a run does two chunks, so that it can go on behind a failed one, and
the larger chunks, which the run leaves out, are covered by the proofs.

In `replay` a round is up, down, a tie, cancelled, has an empty winning side or
contradicting lines: every case of the payout rules and of the import. The four pasts put
strategies into the states that take long to reach (a long run, an alternation, a ladder
under way), and the two to four free rounds after them are more than the one round for
which a result is still open when the next bet is made. The strategies' parameters are the
smallest their schema accepts, so that they bet; the limits of `MCEnv` are small enough
that each one stops some bet. Ten rounds train and one tests, the least the constructor
accepts, so that two folds fit. In `engine` two evaluations at once give every pair of
a tick's strategies, of two processes or of a manual order and a tick; the third round only
lets the first be settled; an exposure limit of 12 holds one bet of 10 or two of 6, not
both strategies' bets. In `processes` two servers are one that loses the lease and one that
takes it over; two faults allow a crash or a dead host during a shutdown or a takeover; one detached call
(`MaxDetached`) is enough to outlive its lease, and waits for no other.

Deadlock checking is on except in `replay`, which ends with its list of rounds, and
`engine`, which ends with its last round. Elsewhere `Finished`, where a module has it,
stutters only in states where nothing is left to do, so a state in which all tasks wait
for each other would be reported; timers keep `RoundStore` and `PoolEvents` going for ever.
In `Claims` the gate can always change while no run is under way, so there it is
`EventuallyClaimed`, and not the deadlock check, that finds a claim nobody looks after.

Fairness. `LiveExecution`: the clock ticks, a process that is down is started again
(the service manager), and the steps of reconciler, wallet sync, submission and
of `settleAll` that stay possible are taken (timers and promises of a running event loop).
The last is called by recovery after its wallet sync and by loops that start after recovery
(`recovery.ts:49-50`, `worker.ts:150-159`), so nothing is promised while the wallet sync
throws; nor of `SettleFinalised`, since a round is made final once. No
fairness on mining, on bets or on faults: a transaction may stay in the mempool for ever, and resolution
must then come from the contract ledger after lock plus buffer. `Claims`: the two loops
run, time passes, and the network eventually mines what it holds. The last is an
assumption about the network, needed because a claim, unlike a bet, has no deadline. A run
starts only while the gate is open, and nothing is assumed about the gate: `EventuallyClaimed`
excepts the behaviours in which it closes again and again, or stays closed.
`RoundStore`: a process that is down is started again, a task that has begun goes on (one
that fails is a fault, and those are bounded), and every loop is started again and again.
The starts get strong fairness because `MaxBusy` makes a loop wait for its turn, which in
the program it does not; fairness on blocks is not needed. `PoolEvents`: every collector's
timer keeps firing and its calls return, with an answer or an error; which, is left open.
`Processes`: the lease loop, timers and shutdown of a process that is up proceed, its calls
return (they time out), and a dead host's session times out; nobody has to start a
process, a backtest or an experiment, and recovery may throw as long as there are faults.
`BotControl`, `Engine` and `Backtest` have only safety properties.

## Findings

Each is a violation run that TLC solves, with the quoted documentation in `PROJECT.json`.

1. `interrupted`: the reconciler reads the pending rows once (`txReconciler.ts:21`) and
   decides after waiting for other rows. A row that was PENDING and in flight when read,
   and is signed, broadcast with an unknown answer and out of flight when its turn comes,
   is failed as INTERRUPTED although its bet is, or can still come, on the contract.
2. `claim_gas`: claim run and reconciler apply the receipt of one claim twice
   (`claims.ts:112` does not look at the claim's status) and charge its gas twice.
3. `bot_emergency`: recordFailure's or recordSuccess's whole-row update, read before an
   emergency stop and written after it, restores RUNNING (`misc.ts:364`).

The passing properties state what does hold beside each: `WrittenOffNeverBets` for every
other reason to fail a row, `CursorCoversBets` for what the cursor guarantees,
`ConfirmedIsCharged` for no gas being lost unless both tasks apply one claim, `StopHoldsOnceQuiet` for a stop once the
calls that were under way have ended.

Met while modelling, without a run of their own:

- The wallet sync leaves an outside bet alone while the round's own row is in flight and
  moves its cursor past it (`walletSync.ts:73`, `:120`); when that row then fails, no trade
  records the outside bet, although README.md:28 says external bets are detected.
- When the cursor has not passed the outside bet, the failed row's uid makes every wallet sync
  throw (`walletSync.ts:67`, `:94`). A running process goes on without it; after a restart
  recovery never completes, so nothing trades, and a trade that this recovery confirms after
  its round was made final stays CONFIRMED for ever. `EventuallyResolved` excepts that course by
  name (`RecoveryBlocked`): TLC finds it when the exception is left out.
- recovery.ts:5-6 says a crash can never silently resume real-money trading, and README.md:76
  that arming is cleared on every restart. A start or resume from the dashboard that
  read the row before recovery disarmed it writes the armed row back (`misc.ts:363-378`):
  TLC finds it with one caller and one crash when `LiveNeedsConfirmation` does not except
  `undone`.
- The two tasks that apply one reverted claim (finding 2) can also lose gas, against the same
  docs/VALIDATION.md:41-42: the run releases the trades, a new claim takes them, and the
  reconciler, still at the old claim, releases them once more (`claims.ts:165-170`) or writes
  back the gas it had read. The new claim is then CONFIRMED with nobody charged. No fault is
  needed, only a claim made elsewhere; TLC finds it when `ConfirmedIsCharged` does not except
  `contested`.
- database.ts:133 says "At most one active worker per database", and DEPLOYMENT.md:33 that
  only one worker is ever active. `stopWork` awaits the calls `track` knows of
  (`worker.ts:167-173`), not the live submissions the engine detaches (`engine.ts:199`): one begun
  under a lease can sign and broadcast its bet after the lock was given back, beside another
  process that trades, or its own under a new lease. Nor does closing the application wait for
  one (`app.ts:140-147`). TLC finds it with one server's lease check timing out.
  `WorkUnderLease` is about awaited calls. That such a leftover makes no second bet rests on the
  row's uid: `OneTransactionPerRound` holds for any number of processes at work.
- A start with `WALLET_ADDRESS` but without the key makes the bot's wallet one to watch
  (`markets.ts:114`), although `:61` calls seeding safe to run on every start: the process
  that is trading then finds its live gate closed and its claims stop.
- OPERATIONS.md:233 says an interrupted backtest is marked FAILED on restart; a restart
  within a minute leaves it RUNNING (`misc.ts:517`).
- Every start fails the running experiments of other processes (`app.ts:90`); one that
  finishes later stores its hypotheses under a failed experiment. `TestedOnce` states what
  still holds.
- Walk-forward chooses its candidate by the result of the last training round, which was
  not known at the first test decision (`walkForward.ts:113`); `OutOfSample` is about test
  windows.
- research.ts:4 says every hypothesis is tested on the training split; 'bull-bias' and the
  baseline of the pool study use all rounds. `RulesAreTradable` covers the families whose
  rules are bet on.
- FADE after a confirmation that was never seen before has confidence 1 from an empty
  sample (`sequenceStrategies.ts:765`), against docs/STRATEGIES.md:73-75.
- A strategy is shown its latest twenty trades, refunded ones included (`context.ts:22`,
  `:91`). An outage of the oracle over twenty bets in a row therefore pushes every loss out of
  sight: the exhausted ladder of the seeded recovery strategy bets again within its cooldown,
  although STRATEGIES.md:124-126 says that cancelled rounds neither advance nor reset it
  (TLC: after twenty cancelled rounds, not after ten). `CooldownKept` is about what it sees.
- With no edge required (`minEdge` 0, which the parameter allows), the Markov and
  transition-matrix strategies bet DOWN at exactly even odds, and so does an ensemble of threshold
  0 on a score of zero (`sequenceStrategies.ts:368`, `:441`, `:974`; TLC: `Impartial` fails with
  these parameters). The defaults require an edge, and so do the configurations of the run.
- A winning bet whose payout truncates to zero is charged the gas of a claim by the
  backtest and not by research; the pools of the run are too large for it.
- The live account's inferred starting bankroll is short of the gas of the bets at risk;
  `ReportAgrees` says by exactly how much.

## What is proved

`LiveExecution_proofs`, for any number of rounds, any set of processes, any outside bets
and any number of faults, from the two named assumptions on the constants (`MaxEpoch` is a positive
natural number, `MaxFaults` a natural number):

| Theorem | States |
|---|---|
| `TypeCorrect` | `Spec => []TypeOK` |
| `HashAlwaysRecorded` | whatever was broadcast has its hash in the database |
| `NeverResent` | at most one broadcast per round |
| `WriteOffIsFinal` | a row failed other than as INTERRUPTED has no bet and can get none |
| `ConfirmedOnlyWithBet` | a confirmed or settled row has a bet on the contract |
| `CursorNeverSkips` | no bet at or below the cursor is without a row |
| `LifecycleImplemented` | `Spec => Ledger!Spec`, with bets and finality read off the chain variables |

The argument. None of the safety properties is inductive alone: that a round is sent once
depends on where the one submission of it stands. `Inv` conjoins `TypeOK` with
`ReceiptsBet` (a transaction that succeeded made the bet), `PagesPlaced` (a wallet sync
only holds rounds that have bets), `OneSubmitter` (a step of a submission is with one
process, and a row exists), `SentOnce` (what each step says of `signed`, `sent` and `tx`),
`BotBets` (nothing unsent has a transaction, and the app's bet
is the one its transaction made) and `WrittenOff` (the round of a row failed other than as
INTERRUPTED has expired, or its transaction reverted, or nothing was sent and nobody is
about to send it). `StepIsCore` first digests every action into one of a few shapes of change
of the variables these conjuncts mention, so that their preservation is argued over the
shapes and not over some thirty actions; one lemma per conjunct follows. The cursor needs
`SyncOrder` on top (the rounds of a running sync's page lie after its position, and a
bet without a row is on the page or newer than all of it) and `NewBetIsNewest`: a new bet is in the open
round, later than all placed ones. The refinement maps each action to a step of
`TradeLifecycle` or a stutter (`StepLedger`), using that `Finalise` corresponds to `Tick`.

`PoolEvents_proofs`, for any chunk sizes and backfill depth, any set of collectors and any
number of faults, from `BoundsAssumption` (the sizes are natural numbers, chunks not
empty):

| Theorem | States |
|---|---|
| `TypeCorrect` | `Spec => []TypeOK` |
| `RangeIsCovered` | every block of the collected range is stored or in a gap |
| `RangeNeverShrinks` | no step shrinks the collected range |

The argument. `CoveredIsStored` is not inductive: a run that remembered a range beyond the
row's could store a chunk that does not touch it. `Inductive` adds `Within` (the range a
run remembers lies within the row's) and `Skipping` (a chunk is given up only where there
is one). `Within` is what the other collectors could break, and `RowGrows`, the content of
LEAST and GREATEST in SQL, is why they do not: `OthersKeep` for the runs that stand still,
`MoverKeeps` for the one that moves.

`Backtest_proofs`, for any strategies with configurations `parseStrategyConfig` accepts, any
limits, amounts and archives, any number of rounds and any course of them, from
`ConfigAssumption`, `LimitsAssumption`, `AmountsAssumption`, `TimesAssumption`,
`ShapesAssumption`, `WarmupsAssumption`, and of the modules below `NullAssumption`,
`ResultsAssumption` (a null is no result), `ScaleAssumption` and those on buffer, fee and
the length of a day:

| Theorem | States |
|---|---|
| `DecisionsNeverLookAhead` | with any other future, the same trades are settled and the same decision is made |
| `EveryBetIsWithinTheGlobalLimits` | every bet was within the global limits as they stood |
| `DailyLossIsBounded` | no day ends more than two losing bets past the daily limit |
| `CountersAreTheLedgers` | net result, day's result, loss streak and last loss are what the ledger says; cash, stakes at risk and gas add up to the start and the net result |
| `BetsArePaidLikeTheContract` | to the unit, whatever the pool and the archive |
| `EdgesAreTrue` | an edge is a rule that clears and is significant among all tried; so is a test among all experiments |
| `FoldsAreOutOfSample` | whatever the last round of a test window turns out to be, its fold chose and bet the same |
| `LaddersCoolDown` | an exhausted ladder does not bet within its cooldown, as far back as it is shown its own trades |
| `TypeCorrect` | `Spec => []TypeOK` |

The argument. `RoundsInv`: the rounds imported are ascending and each says what became of it,
whether its archive held it once, twice, damaged, contradicting or not at all (`ImportedSays`,
on `Ordering`'s sorting instead of the community modules'). For the look-ahead, two lists of
rounds that are `Similar` (the same rounds, and the same results where known) settle the same
bets (`SettlingAgrees`), give the same context (`ContextAgrees`, through every field of
`buildContext`) and so the same step (`EvaluateAgrees`); every hindsight is similar. The rest
is the invariant `Kept` of every simulation. `SimInv` types the ledger: entries are of
ascending rounds, and pending or resolved as the contract would (`IsResolved`). `UpTo` says
that resolved are exactly the bets known at the time of the last decision, for which decision
times have to grow (`DecisionTimesGrow`); without it a streak or a sum after a late result
could not be compared. `CountersAgree` and `Balanced` relate the running counters to sums over
that ledger: a settling adds the sum over what it settles (`SumOfParts`), a bet moves its stake.
`LossesBounded` is what makes the daily limit inductive: it counts every open bet as lost
(`Worst`) on the day its round closes, and since at most one earlier round can be open
(`OpenLoseOne`), a bet allowed by `MAX_DAILY_LOSS` adds a second loss to a day that is still
above its limit.

`EdgesAreTrue` needs no invariant, but what the correction computes, for any p-values and any
number of tests (`TestsAssumption`). The code walks down the sorted p-values with a running
minimum of rounded fractions; the property speaks of sets of tests significant at the level of
the set. `PlacesAreDistinct` says that sorting numbers the tests from 1 to m (equal ones keep
their order), `AdjustedBelow` that the running minimum at a rank is below alpha exactly if some
rank from it on is at its own level (`DivBelow`: rounding down does not matter), and
`SurvivorsAre` that the tests up to the last such rank are the largest significant set.
`SignificantByName` then carries this to rules without a p-value (`EdgesAre`) and to tests
spread over experiments (`ViewsAre`), since neither the sets nor the levels depend on what a
test is called. A study tries finitely many rules (`StudiesAreFinite`), so their number is one.

`FoldsAreOutOfSample`, for any list of candidates with accepted configurations
(`CandidatesAssumption`), any window sizes (`WindowsAssumption`) and either objective, carries the look-ahead
argument to the simulations a fold runs for itself. These are recursive functions over the
rounds of a window, so `IsReplay` gives the invariants of a simulation at each of their
rounds (`Replayed`). Two lists that differ in what became of their last round (`OtherEnding`)
are replayed alike up to the round before it (`AllButLast`, `ReplaysAgree`); a window that ends
there makes the same bets (`TestedUnseen`, with `LastRoundUnseen` for its last decision), and
training windows end earlier, so that the choice among candidates is the same (`ChosenUnseen`).

`LaddersCoolDown` is about what was known when a bet was placed, and the ledger records it
only later. `LossesShown` says that the losses the strategy counted, latest first, are those of
the ledger before the bet (`LostBefore`): a trade that was resolved then (`UpTo`) was resolved
before the bet, and one that was not shows neither a win nor a loss. `NewBetKeepsCooldown`
follows from the code of the ladder (`LadderCoolsDown`, `LossesAre`). What settles afterwards
has become known after the last decision and so after every bet (`SettlingKeepsLadder`), and
cannot change what an earlier bet was shown (`CooldownStays`). The invariant `LadderInv` adds to
`ReplayInv` that every bet of a ladder was placed by the time of the latest decision.

`Backtest_proofs` also holds the theorems about `Processes`, for any number of servers and
command lines, backtests, experiments and faults, from `ProcessesAssumption` (servers are
processes, and the markers "none" and "ghost" are not) and `IdsAssumption` ("none" is no
backtest and no experiment):

| Theorem | States |
|---|---|
| `BacktestsKept` | a backtest that is being computed is RUNNING and its only one |
| `ExperimentsOnce` | an experiment is tested at most once |
| `UnderLease` | until they return, the calls of a process's loops are under the lock or its connection has failed, and so is what they begin and leave to itself, when they begin it; none runs beside awaited calls of an earlier lease |

The argument. `RunsKept` says that a run being computed has beaten within the stale time
and that one process computes it, which is why a recovery elsewhere leaves it alone.
`StudiesCounted` relates an experiment's status to who runs it and how often it was tested.
`LeaseKept` says of the lease loop (`Held`) that a process which believes in a lease has the
session or its connection has dropped, and of what it works on (`Worked`) that loops run only
in a process that is up and leased, that all awaited calls of a running generation are of this
lease, and that after letting go none is under way; `AllOld` is what `stopWork` leaves. Nothing is
said of old calls that nobody awaits.

`Claims_proofs`, for any rounds, any rounds claimable elsewhere, any number of claims and of
faults, from `EpochsAssumption` (rounds are natural numbers, those claimable elsewhere are
among them) and `BoundsAssumption` (room for one claim at least):

| Theorem | States |
|---|---|
| `TypeCorrect` | `Spec => []TypeOK` |
| `ClaimedWasPaid` | a trade marked CLAIMED has been paid by the contract |
| `ClaimingStaysTracked` | a CLAIMING trade has an open claim, a task resolving it, or a claim whose task died half way |
| `ConfirmedWasCharged` | unless both tasks have applied one claim at once, the gas of a confirmed claim has been charged to each of the trades it claimed |

The argument. The three properties are about trades and claims, what breaks them would be a
task that acts on what is no longer so. `Inv` therefore says what each step of a task may
count on. `Prepared`: until a claim run has broadcast, the claim is its own, with no
transaction and unknown to the reconciler. `Applying`: while a receipt is applied, by either
task or by both at once, every trade attached to the claim is on the task's list until the
row is closed, and CONFIRMED is said of a transaction that succeeded. `PaidBySuccess`,
`NotBefore` (nothing refers to a claim before its row exists) and `Attached` (a trade is
attached to a claim for its round, one that was not claimed to none) tie the claims to the
chain and the trades.

Charging is a second layer, `Charging`, on top of `Inv` and under the premise that the two
tasks never applied one claim at once. `Exclusive` says that no claim is applied twice.
`Assembled`: the trades a run has put into its claim are in no other until it is broadcast.
A claim in the network keeps its trades (`Whole`) or is `Hopeless`: it reverted, was never
sent, or has failed and nobody will look at its transaction again. `Handling` says that while
one task applies an outcome its list is all of the claim's trades, with the gas they really
have, so that writing back what was read loses nothing (`Charged`).

`BotControl_proofs`, for any callers, any operations they may call and any number of faults,
from `OpsAssumption`, `RecoveryAssumption` (recovery is none of the callers) and
`FailuresAssumption` (the breaker trips within what is counted):

| Theorem | States |
|---|---|
| `TypeCorrect` | `Spec => []TypeOK`, the plans of the calls in progress included |
| `LiveWasConfirmed` | live bets pass the gate only after an arming since the last start, or after an update that wrote the armed row it had read back over a disarming |
| `BreakerHasDisarmed` | at the limit live trading is disarmed, once the calls that count are over |
| `StopHolds` | an emergency stop holds against all later calls, outcomes and restarts but a reset |

The argument. Updates race, so the invariant speaks of what calls may still do. `Planned`
lists every remainder of a call (`Plans`) with what it has read and counted. `Held` says that
under an emergency stop every call begun since is left with a remainder whose checks fail on
what it read (`FreshPlans`). `Unconfirmed` and `Tripped` say of an armed row nobody confirmed,
or with too many failures, that recovery or a call is about to disarm it; an armed row that
is written back (`undone`) and an overwritten update (`lost`) are what they cannot exclude,
and the properties say so.

`RoundStore_proofs`, for any number of rounds, any archive, any overlap of the writers and
any number of faults, from `BoundsAssumption`, `EndsAssumption` and `ArchiveAssumption`:

| Theorem | States |
|---|---|
| `TypeCorrect` | `Spec => []TypeOK` |
| `FinalRowsAreTrue` | a final row read from the chain says what the confirmed blocks say |
| `FinalRowsStay` | no write changes it |

The argument. `ReadsAreTrue` says that what a task has read as final is what the confirmed
blocks say, however long ago it read it, and `ChainGrows` why that lasts: the newest block
differs from the confirmed ones by one change at most, and a confirmed result is not taken
back. `Put` then writes truth, or an archive's word, over rows the trigger lets it change.

`Engine_proofs`, for any processes, strategies, evaluations at once, rounds and faults, any
environment `loadConfig` accepts and whatever the strategies and the chain answer, from the
assumptions of `Engine` and the modules under it (the strategies' configurations are ones
`parseStrategyConfig` accepts, signals ask for an amount or none, the bounds are natural
numbers, the scale of fractions is positive):

| Theorem | States |
|---|---|
| `BetsExplained` | one decision per strategy, mode and round; a bet for exactly the decisions to trade |
| `LiveExposureStays` | the live stakes at risk stay within MAX_TOTAL_EXPOSURE |
| `PaperOvershootStays` | on paper they exceed it by at most a stake of each other evaluation that can be under way |

The argument. `EveryBetExplained` is inductive: the transaction of `Place` adds a decision
only where there is none and its bet with it (`BetRecorded`, `NoBetRecorded`), a rejected bet
is recorded as one not to trade, and whatever happens to a bet later keeps its row
(`LedgerKeepsRows`).

The exposure is a sum over the ledger, compared with a limit at a moment when other bets were
not there yet. Two things come before the invariant. Sums: the community modules define them
by a recursive function on sets, and `SetInduction` (well-foundedness of the strict subsets of
a finite set) gives that it exists (`SumsExist`), that any summand may be taken first
(`SumWithout`), that parts are no more than the whole (`SumOfPart`, `SumAtMost`) and how large
a sum of bounded summands gets (`SumIsBounded`). Decisions: `ConfigTyped`, `StrategyTyped` and
the lemmas on merged limits give `DecidedIsBounded`, that a bet decided on is positive, at most
the stake limit, within what was read to be available, and within the exposure limit together
with the exposure that was read; `AccountTyped` says that the latter counts every bet at risk.

`Inv` then says how far what was read still holds. Live: `LiveWithinLimit` counts the one bet
of the open round that may still be sent (`Sendable`) with those at risk, since the pre-flight
refuses a bet whose round has locked; `LiveTold` says that an evaluation of the open round
knows of all live bets of earlier rounds at risk (`Held`), or saw no wallet, with which it
cannot bet; `OneLiveBet` (the uid) that a bet it did not know of is one it cannot be placed
beside. Paper: `PaperWithinRoom` adds to the stakes at risk the `Room` of every evaluation
under way, what it may still stake, so that reading, deciding and placing move an amount from
one summand to the other. `StepIsCore` digests the actions into six shapes (nobody learns
anything, one reads, one decides, one bets, a bet's fate, the next round), and one lemma per
shape shows that the whole of `Inv` is kept. TLC found no violation of `Inv` on the instance of
`engine` before it was proved.

`Pipeline_proofs`, for all limits, overrides, accounts and stakes, from `NullAssumption`
and `ScaleAssumption`:

| Theorem | States |
|---|---|
| `OverridesOnlyTighten` | a bet within the merged limits is within the global ones |
| `ApprovedIsWithinLimits` | a bet that `evaluateRisk` approves is within both |

The argument. Each way of merging a limit tightens it, "zero is no limit" included
(`MinPositiveTightens`); a rule that passes under tighter limits passes under the global
ones (`RulesTighten`, by the rule); the stake is cut to every cap before the rules see it
(`StakeIsCapped`). The module also has the lemmas that
`Engine_proofs` and `Backtest_proofs` share: sums over finite sets, elements in order, types
of a strategy's configuration and of what it decides.

Only model-checked: the liveness properties (`EventuallyResolved`, `EventuallyClaimed`,
`EventuallyComplete`, `EventuallyCovered`, `BackfillEnds`, `SomeoneWorks`; fairness and
ENABLED are outside the prover's reach), the violations, and of the `replay` run
`ReportAgrees`, `Impartial`, `RulesAreTradable` and `ScoredAsReplayed`. Reports, contexts of
analytics and studies are made with selections, sorts, flattenings and folds of the community
modules, which are recursive there: the prover has no definitions to work with, and what they
return could not be proved even if it had (induction over data). `Impartial`, besides, holds of
the configurations of the run and not of every one that is accepted: see the remark on `minEdge`
above, and a momentum that asks for a percentage measures it from the first of its prices,
which is another one in the mirrored market. Every other safety property of every run is stated
by a theorem.

## Plan

Done: the core (`TradeLifecycle`, `LiveExecution`, its proofs), the components whose races
touch money or control (`Claims`, `BotControl`, `Engine`, `Processes`), the ones that keep
what every decision is made from (`RoundStore`, `PoolEvents`), what makes the decisions and
judges them (`Pipeline` and the modules under it, `Backtest`, `WalkForward`, `Research`), and
the proofs about all of these.

Left: the properties of reports and studies listed above, then shadow checks and the API's remaining writes.

## Not modelled, and why

P-values, confidence intervals, correlations and the other floating-point results of the
studies: a small instance says nothing about their precision. Encoding, decimals in
strings and the characters of CSV files: conversions no property here depends on. API
authentication, dashboard, command line and scripts are input and output; the operations
they call are modelled. Nonce handling, RPC inconsistency, and reorganisations elsewhere
than in `RoundStore`, belong to the chain adapter and would need a model of the node.
Shadow checks, audit and events record only. A trade settled from archive data that the
chain corrects later, and the direction of a bet found on the contract, are listed as
hazards without a property. The components list in `PROJECT.json` is the complete account.
