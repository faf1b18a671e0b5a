# A TLA+ model of ez-trading

ez-trading is a Python framework for backtesting, research and (paper) trading.
This project models the parts of it where state, time and failure meet: the live
scheduler with its store and event log, the QMT gateway, the way from a backtest
to a live engine, the account arithmetic of the engines, the bar cache, user
code, and research runs. The models are checked with TLC on small instances. Every
safety property that a passing run checks is also proved with TLAPS, for all values of
the constants that satisfy the assumptions named with its theorem: of the
scheduler and its refinement of an abstract journal, the broker-order table and
the replayed log, the gateway and the views of its callbacks, the way to an
engine, the account arithmetic, the bar cache, user code and research. Liveness is
model-checked.

`PROJECT.json` lists the components, the runs, the mutants, the source lines of
every definition, the disagreements found, the hazards and the theorems.

## 1. Inventory of the system

| Component | State it keeps | Operations | What makes it correct |
|---|---|---|---|
| Live scheduler (`ez/live/scheduler.py`, `ez/api/routes/live.py`, `ez/api/app.py`) | engine map, paused set, one `asyncio.Lock`, refresh tasks | deploy, approve, start, pause, resume, stop, tick, resume_all, cancel_order, pumps | map and records agree; a day is traded once; a tick covers its batch; the lock comes back; every day is dealt with |
| Deployment store (`ez/live/deployment_store.py`) | records, specs, snapshots, events, order links, cursors in DuckDB | one transaction per method | events, snapshot and processed date commit together |
| Broker order links and statuses (`_broker_order_links.py`, `events.py`) | one row per client order | update per event or report | never behind a report, final stays final, a cancel request is not hidden |
| Event ledger (`ledger.py`) | none (a reducer) | replay | replays to what was saved, and agrees with the links |
| Paper engine, OMS, paper broker (`paper_engine.py`, `oms.py`, `paper_broker.py`) | cash, holdings, trades, breaker | a day: rebalance, hold, emergency sale | what a tick saved is what a restart recovers; trades explain the account |
| QMT gateway (`ez/live/qmt/`) | host thread, sessions, owners, callbacks, closures, gates | connect, supervise, synchronise, compare, submit | every callback is stored, and refreshed unless the refresh itself raises; a session in use is alive; orders go out behind open gates |
| Risk, capital policy, allocation (`risk.py`, `capital_policy.py`, `allocation.py`) | stage, kill switch | judge an order | the account keeps the caps |
| Deployment spec and gate (`deployment_spec.py`, `deploy_gate.py`, `ez/api/_live_helpers.py`) | specs by content hash | build, evaluate | the engine trades as its source run was tested |
| Research agent (`ez/agent`) | user files, registries, experiment store, tasks | save, load, refresh, delete; run, claim, record, cancel | a save that fails its test or its guards leaves nothing; a spec is completed once; a budget holds |
| Backtest and portfolio engines, matcher, market rules (`ez/backtest`, `ez/portfolio`, `ez/core`) | account of a run | bars, days, fills | trades explain the cash; limits use real prices |
| Data providers and store (`ez/data`, `scripts/build_data_cache.py`) | rows, parquet files, manifest | serve, fetch with failover, build | a request is answered by what reaches it |
| Research pipeline, ML factors (`ez/research`, `ez/portfolio/ml`) | folds, models | train, score, walk forward | nothing is judged in its own sample |
| Monitor, alerts, LLM clients, web interface | read-only views | poll, send | not modelled |

How they interact. HTTP routes call the scheduler on the event loop, except
deploy and approve, which FastAPI runs on worker threads and which write to the
store directly. A background task calls `tick` for each market batch. A tick
runs each engine, which calls the OMS and the broker, then writes events,
snapshot and processed date in one transaction. A QMT client calls back on
threads of the broker's library: the session manager hands the event to the
event loop, where it is stored and a refresh task is scheduled, and pumps read
the same callbacks again by cursor. The host service has a supervisor thread of
its own. After a restart `resume_all` rebuilds each running engine by replaying
its events. A backtest is stored as a row; a walk-forward adds its metrics to the
row; a deployment builds its spec from it; an engine is built from the spec.
Saves of user code and batches of experiments run on worker threads over one
class registry and one database connection.

What is hard. (1) Everything an engine does in memory, and every real order,
precedes the transaction that saves it. (2) Each step of an error path is a
transaction of its own. (3) Approval is not under the lock. (4) Broker events
are late, repeated, reordered, lost or nameless, and handled by different rules:
by arrival in the link table, by time in the ledger, by rank in the merged view.
(5) Threads outlive the calls that stop them: the host's supervisor, a batch
that timed out. (6) The process may die between any two transactions.
(7) Configurations travel through dictionaries with defaults. `PROJECT.json`
lists the hazards at their lines, with the properties that watch them.

## 2. The modules

### Scheduler and store

| Module | What it models |
|---|---|
| `LiveScheduler` | records, snapshots and events (durable), engines, lock and tick (volatile), failures of every step, crash and restart |
| `TradingJournal` | the abstract promise: a journal of business days, each settled once, in order, only while running |
| `LiveSchedulerRefinement` | the mapping under which `LiveScheduler` implements `TradingJournal` |
| `LiveLedger`, `TickLedger` | the reducer over the event log; one engine whose ticks produce that log, and recovery |
| `DeployChain` | run, walk-forward, deployment, gate, approval, engine |
| `LiveSchedulerProofs` | theorems: types, registry and records, dates, days traded once |
| `LiveSchedulerTickProofs` | theorems: what a tick covers, counts, dates and saves; that `LiveScheduler` implements `TradingJournal` |

In `LiveScheduler`, `status`, `lastDate`, `errors` are columns of
`deployment_records`, `rows` the snapshot rows, `ledger` the account the event
log replays to (that it does is what `TickLedger` checks). `engines`, `paused`,
`book`, `autoTick` are the scheduler's fields; `stage`, `date`, `batch`, `todo`,
`cur` are the program counter and locals of the coroutine that holds
`Scheduler._lock`. An account is the bag of business days whose trades it
contains; day 0 of the bag counts liquidations. One action is what lies between
two transactions of the store. Deploy and approve do not hold the lock: the
status check (`ApproveCheck`) and the write (`ApproveCommit`) are separate steps.

| Action | Code |
|---|---|
| `Deploy`, `ApproveCheck`, `ApproveCommit` | the routes in `ez/api/routes/live.py` |
| `Start(Fails)`, `Pause`, `Resume(Fails)` | `start_deployment`, `pause_deployment`, `resume_deployment` |
| `StopBegin`, `StopLiquidate`, `StopLiquidateUnsaved`, `StopRetire`, `StopFails` | `stop_deployment` |
| `ManualTick`, `AutoTick`, `TickSkip`, `TickExecute(Fails)`, `TickAfter(Fails)`, `TickRecordError`, `TickCountError`, `TickEscalate`, `TickAborts`, `TickEnd` | the loop of `tick` |
| `Crash`, `Restart`, `ResumeOne(Fails)`, `ResumeAllAborts`, `ResumeAllEnds` | process death, `lifespan`, `resume_all` |

`Env` says which troubles and requests an instance allows, so that each theorem
can name the assumption it needs. `DeployChain` keeps, of a configuration, the
market, its trading rules, the optimizer and the thresholds of the risk control;
the ghost field `tested` is what the source run executed.

### Broker orders and the gateway

| Module | What it models |
|---|---|
| `BrokerOrderStatus` | normalization, ranks and transitions of broker statuses, as operators |
| `BrokerOrderLinks` | the link table, the event log, cancel requests, a broker that reorders and repeats |
| `BrokerOrderViews` | the link row and the replayed order over the same log |
| `OrderIdentity` | which row a report belongs to when broker ids are used again and all reports of a pull are resolved before the first is saved |
| `CallbackSync` | callbacks of two clients on their way to the log, by push and by pull, over one cursor row with two scopes |
| `CallbackRefresh` | one refresh task per deployment, re-armed by a pending set, under the scheduler's lock; pumps that succeed, raise or find no engine; ticks that pump too |
| `CallbackViews` | the merged order view of a session, the lifecycle closures, and when callbacks alone are enough |
| `QMTHost` | the host service: supervisor threads, client factory, `stop()` that waits a bounded time |
| `QMTSessions` | one session: owners, pins, clients, consumer threads, supervision in two steps |
| `Reconcile`, `AccountReconcile` | the comparison of orders, and of account, positions and trades, with the broker |
| `QMTGates` | the hard gate and the submit gate, as operators |
| `QMTRealSubmit` | the tick that pumps, evaluates the gates, submits one by one and saves; crashes |
| `LedgerProofs` | lemmas: what replaying a finite log computes, what a fold over a sequence computes, and bounds of a division |
| `GatewayProofs` | theorems about `BrokerOrderLinks`, `BrokerOrderViews`, `QMTHost` and `QMTSessions` |
| `OrderIdentityProofs` | theorems about `OrderIdentity` and `CallbackViews` |
| `LivePartsProofs` | theorems about `Reconcile`, `CallbackSync`, `QMTRealSubmit`, `DeployChain` and `TickLedger` |

In `BrokerOrderLinks`, `link[o]` is the row of a client order; `log` is a set,
because an event id is stored once. `Append` is `append_events` followed by the
updates of the row, which happen even when the insert was ignored. A status word
stands for each branch of the normalizer; share counts are "some filled" and
"some remaining". In `QMTHost` and `QMTSessions` an action is what runs between
two acquisitions of a lock or around one call of the broker library, since the
factory, `close()` and the health probe run outside the locks. Times are
abstracted to what the code asks of them: within the grace period or not, due or
not. In `CallbackViews` and `Reconcile` the broker has an order book of its own
(`truth`), so that a property can say whether the view is right. In
`CallbackViews` the dictionaries of the merge are functions from keys to callbacks
(`CallbackView` folds `Absorbed` over the callbacks in order of arrival), and the
closures and their aliases are functions from identity tokens.

### Engines, research and data

| Module | What it models |
|---|---|
| `OrderManagement` | allocation, desired orders, capital stages, every rejection of the risk engine, fills and booking |
| `PortfolioDays` | the day of a portfolio in backtest and paper engine: rebalance, lots, costs, limits, breaker, emergency sale, final liquidation, restart |
| `SingleBacktest` | the bars of a single-stock backtest: three matchers, limits, lots, partial sales; the compiled loop beside the Python loop |
| `AlphaTraining` | when a machine-learning factor trains, what it trains on, what its diagnostics report |
| `WalkForward` | the windows of the four out-of-sample judgements |
| `DataCache` | rows, providers and their failover, parquet files, manifest, and builds of some periods up to a given end that may die between two writes |
| `CodeSandbox` | saves, tests that fail, time out or raise, loads, guards, roll-backs and their failures, deletion and refresh of user code; registries by key and by name |
| `ResearchRuns` | research tasks with budget and cancellation, batches, submissions, claims, deletions, restarts |
| `TradingProofs` | theorems about `SingleBacktest`, `PortfolioDays` and `OrderManagement` |
| `ResearchPartsProofs` | theorems about `ResearchRuns`, `CodeSandbox`, `AlphaTraining`, `WalkForward` and `DataCache` |

Money is integer: prices, lots and percentages are chosen so that the code's
rounding points are exact or show a difference that matters. Strategies, models,
language models and gates that judge a metric are free inputs.

### MC modules

`MCLiveScheduler`, `MCGateway`, `MCLiveParts` and `MCResearchParts` prepare them
for TLC. The last three hold several parts that share no state: a variable `part`
picks one in the initial state, the others keep their values, so that the state
space is the sum of the parts and not their product. A part with theorems is
extended, so that the run checks the definitions the proofs are about and TLC
evaluates their assumptions, and its operators bear its name (`SyncNext`,
`ReconcileSpec`); the others are instances with fixed constants:

| Module | Extends | Instances |
|---|---|---|
| `MCLiveScheduler` | `LiveSchedulerRefinement` | |
| `MCGateway` | `BrokerOrderViews`, `QMTHost`, `QMTSessions` | `CallbackRefresh` |
| `MCLiveParts` | `CallbackSync`, `CallbackViews`, `Reconcile`, `OrderIdentity`, `QMTRealSubmit`, `DeployChain`, `TickLedger` | |
| `MCResearchParts` | `CodeSandbox`, `ResearchRuns`, `DataCache`, `OrderManagement`, `PortfolioDays`, `SingleBacktest`, `AlphaTraining`, `WalkForward` | |

## 3. The runs

Passing runs:

| Run | Instance | What it shows |
|---|---|---|
| `scheduler_faults` | 2 deployments, 2 days, error limit 2, 1 crash, all failures but those of the error record | types; registry and records agree, and no running record is a phantom; a clean engine is durable; no day is traded twice; only a pending record is approved; dates advance; `LiveScheduler` implements `TradingJournal` |
| `scheduler_markets` | 2 markets with different holidays, 3 days, failing executions, saves and error records, liquidations | no deployment is marked ahead of its market; a tick covers its batch; nothing keeps running at the error limit |
| `scheduler_liveness` | 2 deployments, 2 days, 1 crash, fairness | every trading day is dealt with; the lock comes back |
| `gateway_threads` | 1 order, 6 report words, 3 events; 2 starts and 2 clients of the host; 2 deployments, 1 process and 2 clients of a session; 2 callbacks each of 2 deployments, every pump may fail; fairness | no report is lost, final stays final, cancel requests stay visible, row and ledger agree; a ready host and an owned session hold an open, heard client; reconnection and supervision happen; a callback is refreshed or its last pump raised |
| `live_parts` | 3 ticks; 3 callbacks over 2 clients; 1 order with 3 callbacks; 1 order with 2 lost reports; 3 orders of one broker id within 4 days of the clock, 2 new reports and a repeated one in a pull; 2 days of 2 orders with a crash; 2 runs, 2 new deployments and an old one | the log recovers the tick; no cursor passes an unsaved callback; open orders are shown once; verdicts on orders are real; a client's row is fed by its order only, when no pull mixes orders; submission behind gates, once per process; an engine trades as tested |
| `research_parts` | 2 files; 4 days of 2 symbols; 4 days of bars and 2 providers; 2 rebalances; 2 specs, 1 task of 3 iterations and 1 request; 4 bars; 9 days of 2 symbols; 148 splits | names resolve to the latest class and saves refused by a verdict leave no trace; trades explain accounts; files of builds that go forward reach requests; caps hold; a spec is completed once and budgets hold; scores and judgements are out of sample |

Runs that end in a counterexample (the findings of `PROJECT.json`):

| Run | Violated | What happens |
|---|---|---|
| `scheduler_double_approval` | `ApprovedFromPending` | the second of two approvals overwrites a later status |
| `submission_resubmitted` | `NoOrderSubmittedTwice` | death between submission and save: the restarted process submits the same client order id again |
| `accounts_mirrored` | `MirroredAccountOpensGate` | cumulative local trades against the broker's fills of the day close the hard gate |
| `breaker_replayed` | `RestartKeepsBreaker` | the breaker is rebuilt from equities it was not checked with |
| `limit_units` | `LimitsUseRealPrices` | adjusted execution price against unadjusted close |
| `deployed_thresholds` | `DeployedRiskIsTested` | risk thresholds are stored and looked for under different names |

Why the bounds are enough. Deployments only share the lock, the batch of a tick
and the market's date, so two show every interference; two days are needed to
trade one again after another, and three when local dates differ by one. The
error counter matters relative to its limit only. One crash puts the process at
every point between two writes once; a second meets states of the same kind, and
the theorems hold for any number. Rows of different orders only share the lock of
a cancel call, so one order suffices, except for identity, where the third order
is the one that can meet a row of the first and a row of the second, and the gap
in which a broker id still proves something spans two days, so that an order can
end, be reported again and leave a shadow row before its successor; a pull of two
new reports has one that is resolved before the other is saved. Two clients
are what a reconnect takes: the one that goes and the one that comes; the second
start of the host is the one that can meet the thread of the first. Three
callbacks are one stored, one in flight and one behind it. A backtest of four
days has a breach, an emergency sale between rebalances, a recovery and the last
day; the cache has a weekend, a short range and a sparse one within four days
because its thresholds are parameters. Two iterations and the batch left behind
by the first are what a budget can be overrun by. `MaxTrades` lets a day be
entered twice, so that trading it twice is a reachable mistake.

Runs without deadlock checking are those whose bounds exhaust: the calendar ends,
the log is full, the job is done.

Mutants. Each property of each passing run has a changed definition, kept beside
the original and marked "Mutant", under which TLC finds it violated. Where one
property has several parts, or guards several pieces of code, it has several
mutants.

### Fairness

`LiveScheduler.FairSpec`: a section under the lock awaits nothing that depends on
others, so it runs on (weak fairness of `TickStep`, `StopStep`, `RecoveryStep`).
`asyncio.Lock` is FIFO and the auto-tick task never ends, so it gets the lock
again and again although operators also take it (strong fairness of `AutoTick`
for each day). Weak fairness of `RecoveryStep` also says that something restarts
a dead process. `DaysAreProcessed` leaves out a database that fails while
`resume_all` rolls back: then the code starts no auto-tick task
(`ez/api/app.py:69`).

`QMTHost.HostFairness`: a supervisor thread keeps turning, its retry interval
ends, a `stop()` call proceeds, and the client factory does not fail for ever
(strong fairness of `Connected`). `QMTSessions.SessionFairness`: ticks and pumps
supervise the session of a loaded deployment again and again, detached owners
finish their last synchronisation, retries become due and the broker does not
refuse for ever. `CallbackRefresh.RefreshFairness`: the event loop runs what is
ready and its lock is fair; a pump comes to an end, by success or by an exception,
and nothing says that it ever succeeds. `MCGateway` spells these out action by action.

Nothing is assumed of operators, of failures, or of which deployment comes first.

## 4. The proofs

All proofs are for any number of deployments, markets, orders, days, errors,
crashes, clients, threads, runs, events, bars, stocks and prices. The assumptions
on constants are the named `ASSUME`s of the modules, which TLC evaluates on the
instances: ranges of the bounds, values of "none" that are no value, prices that
are positive. Three of them say more: labels reach no further than what is purged
(`AlphaAssumption`), which `ez/portfolio/ml/alpha.py:233` demands of its caller; a
share that is sold brings in at least what its sale costs (`PortfolioAssumption`),
since the code books a sale whatever its costs are; and an account starts without
debts or short positions (`OrdersAssumption`). Every other assumption is written in
the theorem. All follow one argument: an inductive
invariant, one step per action, and the property from the invariant.

What a fold or a replay computes is part of several invariants. It is proved
without an induction rule that takes a predicate: the places up to which a
statement holds are a set of naturals, and `PlacesInduction`, or the least
counterexample, says that the set has them all.

`LedgerProofs`

- `LogInduction`: a statement about logs, as a set of logs, holds of every finite
  log if it holds of the empty one and of a log whenever it holds of the log
  without its last event. `ReplayStep`: replaying a log applies the last event to
  the replay of the others, whichever order of events with the same key the model
  picks (`UnfoldingExists`, `UnfoldingsAgree`).
- `FoldingExists` and `FoldClimbs`: a fold over a sequence is the last of a
  sequence of values, each made from the one before by one element. Every proof
  about `FoldLeft` starts from these values.

`LiveSchedulerProofs`

- `TypeCorrect`. The only inductive fact it needs beyond `TypeOK` itself is that
  the latest snapshot row exists when some row does (`GreatestExists`, by
  well-foundedness of the naturals).
- `NoPhantoms` (`[]NoPhantomRunning`), by `RunningInv`: during `resume_all` a
  running record has an engine or is still on its list, and the auto-tick task
  only exists while the process is up.
- `RegistryMatchesRecords` (`[]EnginesAreLive`) and `OnlyPendingIsApproved`, both
  under `Approvers = 1`, by `LiveInv`. The property alone is not inductive: an
  approval past its check must still find the record pending, the deployment a
  tick is working on must still be registered, and the list of `resume_all` must
  hold running records without engines. `scheduler_double_approval` shows that
  the assumption is necessary.
- `DatesAdvance` (`LastDateAdvances`), without liquidations, by `DateInv`: the
  date about to be recorded is not before the recorded one.
- `DaysTradedOnce` (`[]NoDayTradedTwice`), by `TradeInv`: an account in memory
  holds each day at most once and none after `last_processed_date`, or after the
  date whose failure is about to be recorded; what is stored reaches no further.
  It assumes that recording a failure does not itself fail (otherwise a save and
  an error record that both fail let the retried date trade again) and that
  nothing is liquidated, since a liquidation may set the date back to the host's.

`LiveSchedulerTickProofs`

- `TicksCoverTheirBatch` (`[]TickCoversBatch`), without assumptions, by
  `CoverInv`: every member of the batch is still on the list, has nothing to do,
  or is dated; and the engine whose try block the tick is in is on the list.
- `TooManyErrorsHalt` (`[]ErrorsEscalate`), by `EscalateInv`: an engine at its
  limit is halted or about to be. It needs `LiveInv`, hence one approver, and no
  crash and no failing or undone halt: each of them leaves a running engine, or
  one that `resume_all` restores, at its limit.
- `DatesStayBehindTheMarket` (`[]ProcessedNotAhead`, and that only the record of a
  stopped deployment is ahead of its market, `OnlyTheStoppedAreAhead`), by
  `AheadInv`: a date ahead of its market belongs to a liquidation, whose deployment
  is being stopped or is stopped. Both speak of states with a free lock. It assumes `StopsComplete`: a liquidation dates its row by the host,
  so that a stop that is half done and taken back leaves a date ahead.
- `CleanEnginesAreDurable` (`[]CleanEngineIsDurable`), by `DurableInv`, with
  crashes: it assumes only that a failure can be recorded. Otherwise an account
  that traded and was not saved keeps an error counter of zero.

- `SchedulerImplementsJournal` (`Spec => JournalSpec`). `MemoryInv` says that an
  account in memory is never behind what is stored, so that a save only adds. The
  step of the journal is a tick's save or the record of its failure (`ExecuteSettles`,
  `RecordSettles`); every other step moves one status or stutters. The
  assumptions are those of the invariants it uses: one approver, recorded
  failures, no liquidation.

`GatewayProofs`

- `TypeCorrect`, `FinalOrdersStayFinal`, `NoReportIsLost`,
  `CancelRequestsStayVisible`. The key lemma, `UpdatedRowAdvances`, says that no
  event of any kind takes a row's progress (its rank, a pending cancel aside)
  back; with it each property is preserved by one case per kind of event.
- `CancelsAreBalanced`: when no event is handed over twice, requests are at most
  one more than failures. The invariant counts requests against failures for
  rows that are pending and for rows that are open. With repetition it is false:
  a redelivered failure re-opens a newer request.

- `ViewsAgreeOnFinal` (`[]FinalInBothViews`). The link table advances by arrival,
  the replay by time. That an order is over in the replay if and only if the log
  has a final report of it (`ReplayedIsFinal`) is proved by `LogInduction`; that
  it is over in the table if and only if so, by the invariants before and
  `FinalIsReported`, which follows the log back from the row.
- `ReadyHostsHoldOpenClients`, without assumptions, by `HostInv`: the client in
  the host's field is not closed unless a `stop()` has closed it, and a live
  health has a client. It holds whatever an older supervisor still does, because
  each of its steps compares under the lock.
- `OwnersHoldTheHeardClient`, without assumptions, by `SessionInv`: the manager
  has a listener exactly when it has a client, that client is open and heard, and
  every owner holds it.

`OrderIdentityProofs`

- `OrdersKeepTheirRows` (`[]OneOrderPerRow`), under `MixedBundles = FALSE`, by
  `IdentityInv`. Its part `Told` describes the rows once one of them was told of the
  latest order: at most one row of an older order is within reach of a report, and
  that one is finished and older than the order; the order's last report is in its
  own row, in the shadow row, or, while it is open, the order borrows an open
  shadow row of the order before. Between an order and the next, `Aside` says that
  the older order is over and all rows but its own are out of reach. `Begun` and
  `Unbegun` say of the reports of a pull that are resolved and not saved yet that
  they follow one another and that the rows chosen for them still fit when their
  turn comes. The lemmas that carry the proof, `ComingStays` and `FirstReportFinds`,
  say which rows the resolution can pick; `AgainKeepsTold`, `NextKeepsTold` and
  `FirstReportTells`, that a repeated, a next and a first report leave the
  description true. `MixedBundles = FALSE` excludes what the code does not handle
  (section 6): the end of an order, or a nameless report of it, pulled before a row
  was told of it, and a new order whose predecessor has reports yet to be pulled.
  What else it takes from the broker is in the guards of the model: an id goes to
  no third order within the gap (`Place`), and an open order is not silent for
  longer than the gap (`NextDay`, kept by `OpenOrdersSpeak`), or else its next
  report would not find its row.

- `OpenOrdersAlwaysShown` (`[]OpenOrdersAreShown`), under `LateIds = FALSE`: a
  callback has the system id of its order. The fold over the callbacks leaves each
  order it has seen under its system id, by a callback of the order that no other
  one ranks above, and has no second entry for it (`WellSeen`, kept by one more
  callback in `OneMoreSeen`). `RowsAre` gives the rows of an order from that: one
  of the query, one of the callbacks, or none. `BrokerInv` says that whatever was
  read or received is not ahead of the broker, and that a report that the order is
  over is its last. A query that is as new as the callback, or newer, can then not
  bring back an order that is over, and a callback can not hide an open one. With
  late ids the property is false.
- `SilentAlwaysQueried` (`[]SilentOrdersAreQueried`), without assumptions, by
  `ClosureInv`: what a closure records of an order, a callback of that order said,
  and an acknowledged order has a closure that knows it, whichever of its tokens
  came first.

`LivePartsProofs`

- `VerdictsOnOrdersAreReal` (`[]OrderDriftIsReal`), without assumptions, by
  `ReconcileInv`: neither a report nor a row is ahead of the broker; when nothing
  is lost, every order's present status is in its row or in what is yet to be
  read, by a report at least as late as any other. That the merge takes the
  foremost report (`LatestIsLast`, `MergedIsForemost`) is proved with it.
- `CursorsPassNothing` (`[]PullKeepsUp`), by `SyncInv`: what lies between the
  persisted cursor and the one a pump is about to persist is in the hands of that
  pump, and in the log once it has saved.
- `GatesAreChecked` (`[]SubmitsBehindGates`), whatever fails, by `GateInv`: the
  projection a tick reads was made from what its own pump stored, and the gate of
  a later day is not decided yet.
- `OrdersLeaveOnce` (`[]GivenBehindGates`), by `DayInv`: a day not marked as
  processed has orders this process has not given. It assumes that the failure of
  a day can be recorded; otherwise the next tick of the same process gives its
  orders again.
- `EnginesTradeAsTested`, by `ChainInv`: a stored run says what was executed, a
  spec has its own hash as its key, so that specs of the same hash have the same
  terms, and every record's spec agrees with its source run.
- `LogAlwaysRecovers` (`[]LogRecoversTheTick`), without assumptions beyond the
  ranges, by `TickInv`: the last entry of the log is the checkpoint of the last
  committed tick, and the engine's status of every order of the log is the
  furthest the log has of it (`EngineKnows`). That the replay ends with the
  account of the checkpoint and with the furthest statuses (`ReplayedCheckpoint`,
  `ReplayShowsFurthest`) is proved by `LogInduction`; each kind of tick keeps the
  invariant, the failed one because the log has nothing of its order.

`ResearchPartsProofs`

- `SpecsCompleteOnce` (`[]CompletedOncePerSpec`), by `ClaimInv`: a completed run,
  stored or about to be, holds the claim of its spec, unless the spec was the
  object of a deletion.
- `TasksKeepTheirBudget` (`[]BudgetIsKept`), by `BudgetInv`: what a batch has
  stored and may still store is within the budget, and the task has counted what
  it stored before it starts another.
- `RefusalsAreUndone` (`RefusedSavesLeaveNoTrace`, an action property), by
  `SandboxInv`: until its load a save has left the registered class alone, and so
  has everyone else, and a registered class is one that could be loaded, so that
  the roll-back can load it again. It speaks of the saves that the code means to
  undo: refused by the verdict of the test or the guards, or by the load of a
  factor. The saves that fail otherwise are steps of the model with other answers
  (`Load`, `TestRaises`, `RollBackFails`), and leave what section 6 says.

- `NamesAlwaysResolve` (`[]NamesResolveToLatest`), by `NamesInv`: a name that
  stands for a file stands for the last one registered, and only the guards, one
  file at a time, let it stand for a probe.
- `ScoresStayOutOfSample` (`[]ScoresAreOutOfSample`), by `AlphaInv`: no model has
  learned from a label that ends on its day or later, and scores are noted with the
  model that gave them, which was there on their date.
- `JudgementsAreOutOfSample` (`[]JudgedOutOfSample`), by `WalkInv`: each fold is
  one of the division, what is in the curve comes in order and before the fold to
  come, and the folds of a walk cover all rows before it. Excepted from "trained
  before its test" is a portfolio's fold whose test begins at the first row of all:
  it has no day to train on, and index -1 has the code train it on the whole range.
- `FilesAlwaysReach` (`[]FilesReachTheRequest`), under `AnyEnd = FALSE`, by `CacheInv`: a file that the
  manifest names reaches the manifest's end, since the build writes the manifest
  last; a file that was written reaches the end of its build. The assumption is that
  `--end` neither goes back behind the last build nor lies ahead of today; without
  it the property is false.

`TradingProofs`

- `BacktestAlwaysAccounts` (`[]BacktestAccounts`), by `BacktestInv`: the recorded
  trades and the open position explain the cash, at the end the cash a sale of
  everything would leave, and the compiled loop holds the book of the Python loop.
  The sum over the trades grows with each trade; the rest is arithmetic on fees
  and slippage.
- `TradesAlwaysExplain` (`[]TradesExplainTheAccount`), by `PortfolioInv`: folding
  `Booked` over the trades gives the account, no prefix overdraws it, and a day's
  trades sell first (`TradedBy`). Each loop of a day over the stocks keeps that
  from one stock to the next.
- `CapsAlwaysHold` (`[]AccountKeepsTheCaps`), by the property itself with the
  types. Each order is judged by what the accepted ones before it will leave, so
  that the list as a whole, carried out, keeps the caps (`JudgementIsSound`);
  trading at the market price leaves the value of the account as it is
  (`SellKeepsValue`, `BuyKeepsValue`); execution holds of each symbol no more than
  was accepted, or leaves it alone (`ExecutedStaysBelow`), and with every sale
  filled it holds nowhere more than what was judged.

Only model-checked:

- the liveness properties `DaysAreProcessed`, `LockIsReleased`,
  `ReconnectHappens`, `SessionComesBack` and `CallbacksAreRefreshed`: liveness
  under fairness, and `ENABLED`, are outside the provers' reach;
- the six violated properties, which are counterexamples and not theorems. The
  assumption under which a theorem excludes such a behaviour is named with the
  theorem.

## 5. What the models leave out

Of the modelled components:

- `LiveScheduler`: accounts are bags of days; strategy state (a pickle beside the
  snapshot row), legacy recovery without checkpoints and owner events are the
  failures `execute` and `after`. `TickBegin` reads the engines and takes the
  lock in one step; the code reads them first.
- `TickLedger` trades one symbol at price 1, one order a tick, and assumes that
  ticks are further apart than the clocks of broker and host (`TickGap > Skew`).
- `BrokerOrderLinks` assumes one broker order id per order, named reports, and a
  cancel request stamped later than the events handled before it; `OrderIdentity`
  drops the first two. Shadow ids are not pruned.
- `QMTHost`, `QMTSessions`: asset and position callbacks; payloads of read-only
  views.
- `OrderManagement`: risk-budget and optimising allocators, volatility target.
- `PortfolioDays`: adjusted and raw prices are the same (`SingleBacktest` has
  both); the bars an engine loads are inputs.
- `OrderIdentity`: reports are handed over in order, one broker id is shared, and the
  pulls of a run do not mix orders.
- `CodeSandbox`: the first write of a save is one step (half a file is an `Edit`);
  the frozen build, which tests in the process of the server.
- `DataCache`: validation, adjustment bases, the fundamental store, protocols; a
  file is replaced in one step, in one directory and for all symbols.
- `ResearchRuns`: one statement of the store is atomic, although `execute` and
  `fetch` of a shared connection are two calls; taking back a claim does not fail.
- `DeployChain`: the code of a strategy, which is loaded by name; the index
  benchmark, tracking error, industry map, alpha combiner, the fundamental store.

Not modelled: metrics, significance tests, attribution, optimizers, factor values
and strategies (numeric code without interacting state); monitor, alerts and
read-only routes; LLM clients; the web interface; migrations; tests and scripts
other than the cache builder.

## 6. Notes on the code, without a run of their own

Each line is something the model shows, or makes visible, that a property
excludes or permits.

Scheduler and submission
- A save and an error record that both fail let the retried date trade again.
- A liquidation is dated by the host clock: after a crash the restored
  deployment may skip its market's day.
- A missed day is never made up, and a failing `resume_all` starts no auto-tick.
- The first hard-gate event of a day wins (`INSERT OR IGNORE`), so a later verdict
  of the day is dropped and the gate of the day stays what the first one said
  (`ez/live/events.py:561`). `GivenBehindGates` takes that as the rule.

Broker orders
- A redelivered cancel failure re-opens a newer request; the table replaces one
  final status by another (`TerminalSticky` asks for finality only).
- System ids that arrive late make one order two in the view (`LateIds`).
- A new client numbers its callbacks from one while the cursor row keeps the
  number of the client before: a pump may skip its first callbacks, which only the
  push stores. `PullKeepsUp` speaks of the callbacks after the first cursor that
  the client's session has persisted.
- The refresh task discards the pending flag before it pumps: a pump that raises is
  logged and not tried again (`ez/live/scheduler.py:486`), and what it missed waits for
  the next callback, start or tick. `CallbacksAreRefreshed` excepts it.
- All reports of a pull are resolved against the stored rows before the first is
  stored (`ez/live/scheduler.py:1192`). A pull with the first report of an order and a
  final one of it, when the broker id was used before, resolves the final one to the
  finished row of the order before; the row of the order itself stays open.
  `MixedBundles = TRUE` in `LiveParts.cfg` gives the trace.
- A consumer may be running while the account is not subscribed; a session is not
  always closed with its last owner.
- Nameless reports of orders that share a broker id share a shadow id. Once a
  late report has made a shadow row beside a finished one, the next order's
  nameless last report finds two finished rows and goes to the shadow row too
  (`ez/live/scheduler.py:1355`): the shadow row mixes two orders, and the second order's
  own row stays open. `OneOrderPerRow` speaks of the rows of clients.
- Late or repeated reports, and the time between collecting and querying, give
  order drifts that vanish with the next synchronisation; `OrderDriftIsReal`
  allows for the ones a moving broker explains.

OMS
- The concentration check refuses sales of a position that is over the cap, and
  the whitelist and the kill switch refuse sales too. A blocked sale with an
  accepted purchase exceeds `max_gross_exposure`. Orders are judged in the order
  of symbol names. With the paper broker the kill switch loosens the caps to
  those of `paper_sim`. An emergency sale bypasses the OMS.
- Weights that went through floating point may round a lot down and sell it
  (`oms.py:499`).

Portfolio engine
- A breach on a rebalance day whose strategy gives no weights reduces nothing; an
  emergency sale that is limit-down is not tried again; emergency sales of the
  paper engine are not in `engine.trades`; a target day prefers the weekday before
  over the one after; a missing previous close skips the limit check; the ISO week
  is used without its year.

Backtest
- The drift of a position is not corrected while its target is unchanged; T+1
  never binds with one fill per bar; the bar after a missing bar has no limit.

Deployment
- A walk-forward writes its metrics to any `source_run_id` without comparing
  configurations, and leaves out `use_open_price`, `skip_terminal_liquidation` and
  `commission_rate`.
- Strategies are loaded by name, so that the code may have changed since the test;
  rows of before the configuration deploy as `cn_stock`; Chinese rules on another
  market pass the gate and are refused at start.

User code
- A refresh does not reload a file that was repaired. Deleting or reloading the
  latest of two classes of the same name leaves the other without its name.
  Concurrent saves and a refresh can make a version live before it is tested.
- A strategy or portfolio strategy that passes its test and fails its load stays on
  disk, and its class is gone from the registry although the answer says that the
  previous one is still there (`ez/agent/sandbox.py:961`, `1445`). The calls before
  the test of a strategy are outside its `try` (`ez/agent/sandbox.py:1162`): when they
  time out the file stays and the save ends in an exception. When the disk refuses a
  roll-back, a factor is out of the registry, and a class blocked by the guards
  stays in it.

Data
- A build with an `--end` before that of the last one, which dies after a file and
  before the manifest, leaves a file shorter than the manifest promises; a build
  with an `--end` in the future leaves a manifest that promises days no file can have
  (`scripts/build_data_cache.py:1087`). `AnyEnd = TRUE` in `ResearchParts.cfg` gives
  the traces.
- Missing days inside a range, or after the last row within the three-day slack,
  are not fetched (`ez/data/provider.py:122`). A partial first provider and an
  empty last one answer with nothing although rows were saved. Without a manifest
  the files are used unchecked; `--periods daily` leaves the weekly file behind.
  A sparse range of 15 to 30 days is fetched again and again.

Research
- A cancellation during the last generation of code is seen after the batch; one
  during a batch that times out, or during the report, ends as "completed". A task
  record stays "running" after a crash. A deletion that races with a save allows
  two completed runs of the deleted spec. A death between claim and save leaves a
  claim without a run. The identity of a spec ignores the code of the strategy.

Out of sample
- An earlier date after a later training is scored by the later model; the horizon
  of labels must not exceed what is purged, which is left to the user. A train
  ratio that rounds to nothing makes the first fold of a portfolio train on the whole
  range, its test included (`ez/portfolio/walk_forward.py:135`); the
  first return of a fold is not in the chained curve; baseline and candidates of
  the nested split are judged on the same rows. The ensemble's hypothetical returns
  skip a day per period.

## 7. Plan

The components are modelled as far as section 5 says, and what the runs check of
their safety is proved. What could follow: the merged view when system ids are late
(`CallbackViews` with `LateIds`), where the order is two and a weaker promise would
have to be stated first; the risk-budget and optimising allocators of
`OrderManagement`; the validation and adjustment of bars before `DataCache`.
