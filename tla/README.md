# ml-service2.0 in TLA+

TLA+ modules, TLC runs and TLAPS proofs for `ml-service2.0`, the service that trains
models on NSE market data, scores the universe during the trading session, keeps a
ledger of the signals it gave, and decides which model may trade. Source paths below are
relative to the repository; `PROJECT.json` names the source lines of every definition.

1. [What the system is](#1-what-the-system-is)
2. [The modules and the code](#2-the-modules-and-the-code)
3. [The runs](#3-the-runs)
4. [Fairness](#4-fairness)
5. [The proofs](#5-the-proofs)
6. [Where the code and its documentation disagree](#6-where-the-code-and-its-documentation-disagree)
7. [What is not modelled](#7-what-is-not-modelled)
8. [Plan](#8-plan)

To check a run, `tlc -config MC_X.cfg MC_X.tla`; to check proofs, `tlapm XProofs.tla`.

---

## 1. What the system is

### Inventory

| Part | State it keeps | Operations | Meets others through |
|---|---|---|---|
| **Signal ledger** `src/analytics/signal_ledger.py`, `src/data/signal_db.py` | tables `sessions`, `signals`, `positions`; `signals.jsonl` | `record_signals`, `update_mark_to_market`, `settle_session` | the tables: autorun, orphaned autoruns and end-of-day jobs are different processes |
| **Live session** `scripts/daily_autorun_scheduler.py`, `session_watchdog.py`, `autorun_till_close.py`, `signal_ledger_daily.py` | processes and handles, `latest_scores.json` and its age | start, stop, restart, sample, settle and record after the close | `Popen`, `pgrep`, file age, the signal ledger |
| **Data-service client** `src/clients/data_service.py` | failure counter, open-until time | `_get`, `_post` | up to hundreds of coroutines share one breaker |
| **Model registry and hand-over** `src/registry/registry.py`, `src/training/orchestrator.py`, `src/api/training.py` | version directories, `champion.json`, `_staging/model.pkl`, in-memory champions | `register`, `get_champion`, `load_artifact` | files: one thread and one `ModelRegistry` per training request |
| **Model lifecycle and gates** `src/registry/lifecycle.py`, `promotion.py` | `_roles.json`, its copy in every manager | challenger, shadow, promotion, rollback | the file: operator sessions and self-learning cycles |
| **Scoring pipeline** `autorun_till_close.py`, `feature_weight_manager.py`, `reversal_detector.py`, `symbol_ic_tracker.py` | per sample: scored list, directions, flags; over samples: the session threshold | ten blocks that set, drop or flip directions | the fields of one dict per signal; quotes, news, weights |
| **Forecast ledger** `src/analytics/forecast_ledger.py` | `forecasts.jsonl`, table `forecasts` | `record_session`, `resolve_session` | the file: each restarted autorun continues it; the mirror in the database |
| **Portfolio backtest engine** `src/backtest/portfolio_engine.py` | cash, positions, orders, peak, streak, daily result | nine steps per bar | signals in, trades and equity curve out |
| Self-learning, feedback `src/training/self_learning.py`, `src/data/feedback.py` | outcome counts, time of the last retrain | `should_retrain`, `run_cycle` | orchestrator, lifecycle; no production caller |
| Counterfactual and IC ledgers `src/analytics/counterfactual_ledger.py`, `symbol_ic_tracker.py` | JSON files rewritten whole | record, resolve | the autorun |
| Drawdown manager `src/risk/drawdown_manager.py` | equity, peak, state, bars at the peak | `update`, `update_pnl` | no production caller |
| Signal promotion, alpha decay, forward paper | batch files | resolve, classify | the forecast ledger |
| Caches, streaming, audit log, trial ledger | TTL map, socket list, append-only files | get/set, broadcast, append | - |
| Features, labels, models, meta engine, calibration, scanners, monitoring, other backtests, validation splits | none shared | numeric transformations | - |
| HTTP API, news and gRPC clients, research scripts | none of their own | request routing, one-shot jobs | - |

### How they interact

```
 scheduler --starts/stops--> watchdog --starts/restarts--> autorun --first sample--> record_signals
                                |                             |                           |
                                +--after close--> signal_ledger_daily <--after close------+--> PostgreSQL + signals.jsonl
                                                  (settle, then record)
 autorun: quotes -> scores -> weights -> sectors -> reversals -> news -> rank -> overrides -> signal and forecast ledgers
 autorun --up to 500 symbols at once--> data-service client (breaker) --HTTP--> data-service2.0
 POST /training/run, self-learning --> orchestrator --_staging/model.pkl--> registry --champion.json--> servers
                     |
                     +--register_challenger, promote_to_shadow--> lifecycle <--promote (gates), rollback-- operator
```

### What is hard about it, and what would make it correct

* **Ledger.** Every operation is several transactions with nothing held between them; the
  lock in `signal_db.py` is a lock of one Python process, while four kinds of process use
  the tables. Decisions are made from rows read earlier. A process may die between the
  commit and the append to the audit file. *Correct*: the foreign keys always hold, a
  settled row agrees with itself and never reopens, the audit file never claims what the
  tables do not have, nothing is settled twice by one process slot, and one process at a
  time gives each symbol one position that is opened once and closed once.
* **Live session.** Three supervising loops poll a clock, a file age and `pgrep`; a killed
  parent leaves its children alive; timeouts of `subprocess.run` raise where nothing
  catches. The scheduler looks for a watchdog and starts one later, and its look may fail.
  *Correct*: it never adds a second watchdog of its own while its look works, no settlement
  before the close, every position of an undisturbed day settled, and every day ends.
* **Breaker.** Requests suspended in their HTTP call finish after the circuit opened or
  closed. *Correct*: counter and time never disagree, a failed probe reopens, the circuit
  always comes to admit again and closes when the service stays up.
* **Registry.** Every run has a lock of its own, so runs race file by file, and
  `champion.json` is rewritten in place. A server reads a model twice, to check it and to
  load it. *Correct*: the pointer never dangles, registered files are immutable, and no run
  gets between a server's check and its load.
* **Lifecycle.** Each manager rewrites the whole file from memory it read at its start.
  *Correct*: no version trades and is on trial at once, a rollback only restores what was
  champion, statuses are honest, saves are atomic and durable while managers do not overlap.
* **Scoring pipeline.** Ten blocks write one direction field in turn; a block knows what
  earlier ones did by flags, and each honours a different subset of them. *Correct*: a news
  veto is final, a forced signal follows its own move, a silenced one does not come back
  against its sector, and nothing is emitted against its own stock but on purpose.
* **Forecast ledger.** A changed row costs a rewrite of the whole file, with new rows of the
  same file in a buffer and a mirror in a database that may not answer. *Correct*: one live
  forecast per symbol and session, and no row lost, wherever the autorun is killed.
* **Portfolio engine.** Signals are evaluated before the orders of the same bar fill, bars
  may be missing, and limits are computed from an equity that every closure changes.
  *Correct*: never more commitments than positions allowed, fills in time and never from
  the bar of their signal, two positions of one symbol only from orders queued on one bar,
  and money that can be accounted for.

The hazards, each at its line and with the property that would catch it, are listed in
`PROJECT.json`.

---

## 2. The modules and the code

| Module | Models | Extends / uses |
|---|---|---|
| `SignalLedger` | the ledger, transaction by transaction | - |
| `TradingBook` | what the ledger promises, without tables or processes | - |
| `SignalLedgerBook` | the refinement mapping from the first to the second | `SignalLedger`, `INSTANCE TradingBook` |
| `LiveSession` | one trading day of the four scripts | - |
| `CircuitBreaker` | the breaker around `_get` and `_post` | - |
| `ModelRegistry` | training runs registering, servers loading | - |
| `PromotionGates` | the six gates, as operators on metrics | - |
| `ModelLifecycle` | managers of `_roles.json` | `PromotionGates` |
| `SignalPipeline` | one sample of the autorun, block by block | - |
| `ForecastLedger` | recording and grading of forecasts, file operation by file operation | - |
| `PortfolioEngine` | the event loop of the backtest | - |
| `*Proofs` | theorems about the module they extend | `TLAPS` |
| `MC_*` | constants for TLC; claims of docstrings and tests that do not hold | the module named |

Some modules hold definitions marked **Variant**: a mutated form of a definition (a lost
filter, a forgotten reset, a swapped order). No `Next` uses one. Each is listed under
`mutants` in `PROJECT.json`: put in place of the definition it belongs to, it makes TLC
report the property named there, which shows that the property does depend on the code.

### SignalLedger

One action is one method of `SignalDB`, that is one transaction, or one append to the
audit file. `pc[c]` is the transaction that process `c` executes next.

| Code | Actions |
|---|---|
| `record_signals` | `StartRecord` (`upsert_session`), `ReadExisting`, `InsertSignals` (the batch), then per signal `InsertPosition`, `AppendOpen` |
| `update_mark_to_market` | `ReadOpenToMark`, `UpdatePrices` |
| `settle_session` | `ReadOpenToSettle`, per position `SettlePosition`, `AppendSettled`, at last `CloseSession` |
| the process dies | `Crash` |

A `signal_id` is a pair of symbol and call number: `uuid4` draws fresh ids, and the ids of
one call differ by symbol. `view[c]` is what `c` read, and settlement computes from it
while `SettlePosition` writes to the row as it is by then, as the `UPDATE ... WHERE
signal_id` does. Prices are positive integers, 0 stands for `NULL` or an unusable quote.
The net return after costs is compared in exact integer arithmetic where the code divides
floats; prices that differ by a rounding error from break-even are outside the model. The
counters of the session row are reduced to who wrote them last (`RECORDED` or `ZEROED`).
`price_snapshots`, the reports and the read-only queries change nothing modelled and are
left out.

`TradingBook` has one variable, `book[y]`: at most one position of symbol `y`.
`SignalLedgerBook` maps a position row to an entry of the book; the book forgets signals
that have no position yet.

### LiveSession

The clock is the three periods the code tests for (`open`, `closing` = after 15:30, `closed`
= after 15:36). `sched`, `owned` are the scheduler and its `_proc`; `wpc`, `mine` the watchdogs
and their `_autorun_proc`; `apc` the autoruns; `job`, `loaded` the ledger job each of them
launches. A ledger operation is one step here. Killing a parent leaves its children as they are.

| Code | Actions |
|---|---|
| scheduler: `watchdog_alive`, `start_watchdog`, `stop_watchdog` | `SchedulerCheck`, `SchedulerStart`, `SchedulerStop` |
| `watchdog_alive` when `pgrep` fails and the answer is no | `SchedulerBlind` |
| watchdog: `start_autorun`, the grace period | `WatchdogStart`, `GraceEnds` |
| a turn of its loop: the decision, then terminate, then `start_autorun` | `WatchdogDecide`, `WatchdogTerminate`, `WatchdogStart` |
| its close: wait, report, safety net, `break` | `WatchdogClose`, `WatchdogWaited`, `WatchdogReport`, `WatchdogExit` |
| autorun: top of the loop, a sample, the actions after the close | `AutorunCheck`, `AutorunCycle`, `AutorunIngest`, `AutorunLedgerDone`, `AutorunWrapUp` |
| `signal_ledger_daily.py` | `JobSettle`, `JobRecord` |
| from outside | `SchedulerRestart`, `ManualStart` (a watchdog started by hand looks for no other one), crashes, timeouts, `SnapshotAges` |

The scheduler's check and its `Popen` are two steps, and so are a watchdog's decision, its
terminate and its start: anything may happen in between, the close included. `blind` remembers
that `pgrep` failed, `byHand` which watchdogs were started by hand; the two are history and no
process reads them. `SnapshotAges` is a snapshot that grows old because its autorun is slow or
hangs. Where `stop_watchdog` prints `_proc.pid` although the watchdog was found by `pgrep`
alone, the scheduler dies; the model keeps this as `sched = "crashed"`. It is one day long: in
the code that scheduler does not come back the next morning. `pgrep -f` finds any process with
the file's name in its command line; that it finds watchdogs only is assumed.

### CircuitBreaker

A coroutine is atomic up to its `await`, so `Send` is everything before the HTTP call, and
`Success`, `Failure`, `Refused` everything after it; requests the open circuit rejects
change nothing. `left` counts ticks to `_circuit_open_until`. The failure counter only ever
meets the threshold in a comparison and is counted up to `Threshold + 1`.

### ModelRegistry

A run is a sequence of file operations: `Stage` (dump and rename to `_staging/model.pkl`),
`MakeDir`, `CopyFile` and `CopyStat` (the halves of `shutil.copy2`), `WriteMetadata` (with the
checksum), `TruncatePointer` and `WritePointer` (`champion.json`, for a production version),
`Unlink`. A server loads its champion once, when its classifier is made at import: it reads
pointer and metadata (`GetChampion`), reads the file to compare its checksum (`LoadArtifact`),
and opens it again to unpickle it (`LoadModelFile`), three steps between which runs, kills and
`Damage` (bytes altered on disk) may fall. Any exception on the way leaves it with heuristics
(`GiveUp`) until its next `Restart`. `late` remembers whose file was damaged between the two
readings. In the repository the
orchestrator registers challengers; only the tests register production
versions. The registry supports both, and the model chooses freely.

### PromotionGates, ModelLifecycle

The gates are operators on the metrics of a challenger and of the champion, with metrics in
units of 0.0001 where the code has floats; `Outcome` is the decision. In `ModelLifecycle` a
manager is a process with `mem[m]` loaded once (`Start`). An operation changes the memory
(`Change`) and is followed by `Truncate`, `Fill`, `Replace` of `_roles.json.tmp`. Two managers
share this name: a rename takes the file of a writer away, who goes on writing into what is
`_roles.json` by then (`at[m]`), and two texts written over each other may be `Garbled`.
The history and the reasons are left out; a version is registered as challenger once, as
training draws a new version each time; an operator evaluates the shadow of the moment and
later passes these metrics to `promote_shadow_to_champion`.

### SignalPipeline

A block of the sampling loop is an action and `stage` names the next one. A signal is its
score in thousandths, its direction and the set of flags the blocks leave (`sector_dimmed`
is `sector_up` or `sector_dn`, `news_dimmed` is `news_veto` when the direction was set to 0
and `news_pull` when only the score was pulled).

| Code | Action |
|---|---|
| quote batches | `FetchQuotes` |
| `score_all`, ensemble agreement, first ranking | `ScoreUniverse` |
| `apply_dead_filter` | `DropDead` |
| session threshold, `detect_regime`, `FeatureWeightManager.apply` | `ApplyWeights` |
| both sector passes | `SectorPass` |
| `merge_with_momentum` | `MergeReversals` |
| `apply_news_damper` | `DampNews` |
| final ranking, live-price override, stock damper | `FinalRank`, `LtpOverride`, `StockDamper` |
| ledgers, `latest_scores.json`, sleep | `EmitAndSleep` |

What the blocks are told is free: scores, which symbols fail to score or disagree, quotes
and missing quotes, dead symbols, the market regime, reversal setups, news. The rankings,
thresholds, caps and the mean are computed as in the code. A quote has a price and a change
or is missing; `NIFTY` and the few quotes outside the universe, which enter the mean move,
are left out. News beyond 0.25 and important events are two kinds of news, in the order
the code tests them.

### ForecastLedger

`file` and `pg` give each row its status. `fh.write` leaves a row in `buffer` or flushes
(`WriteRow`); `write_text` is a truncation (`MarkSuperseded`, `ResolveSession`) and a later
write of `image` (`WriteSuccessor`, `WriteResolved`). The map of open rows that the code reads
once before its loop is read again by `OpenRows` for each symbol: no step in between changes
an open row of a symbol the loop has not reached. `Mirror` upserts all rows or, when the
database does not answer, none. `Kill` drops the buffer and the rewrite under way, and `Launch`
starts the next autorun. A write after its truncation is one step, so a file cut in the
middle of a line is not modelled; `_load_all` would skip that line. One autorun at a time.

### PortfolioEngine

The loop of `run` for mode `B_portfolio`: `MarketBar` (steps 1 and 2), `FillOrders` (3),
`ClosePositions` (4 and 5), then per signal `SubmitOrder` or `CloseOpposite` (6 to 8) in any
order, `RecordEquity` (9), and `FinishRun` after the last bar. A signal that is rejected changes
nothing and is no action. Abstractions:

* daily bars, so each bar is a new date; `EQUAL` allocation; amounts are whole paise,
  quantities whole shares and slippage an integer in basis points, drawn from `Slips` since
  its noise is seeded by a random id;
* the filter on expected value is a set of signals, `LowValue`;
* positions close in the order of two dictionaries, which decides the streak of losses
  that remains: `Streaks` allows any order;
* the equity stays above one rupee, where the code's exposures agree on the divisor.

`deal[i]` keeps the money side of a position after it closed, for the account of
`CashExplained`; the code has it in the trades.

---

## 3. The runs

| Run | Question | Bounds | States |
|---|---|---|---|
| `ledger_concurrent` | what do the tables and the audit file keep under any interleaving? | 2 processes, 1 symbol, 2 prices, 2 recordings, 1 kill | 2,651,239 |
| `ledger_serial` | is the ledger a `TradingBook` if operations do not overlap? | 1 process, 2 symbols, 2 prices, 2 recordings, 1 kill | 186,729 |
| `live_session` | does the day keep its order, and does it end? | 2 watchdogs, 2 autoruns, 1 symbol, 1 fault or start by hand, `pgrep` fails once | 950,915 |
| `circuit_breaker` | is the breaker consistent, and does it recover? | 3 requests, threshold 3, timeout 3 ticks | 488 |
| `model_registry` | what survives racing runs, kills and damage? | 3 runs, 1 server that restarts at will, 2 faults | 910,591 |
| `registry_staging` | *refuted*: does a run register its own model? | 2 runs, no fault | - |
| `model_lifecycle` | what survives stale managers and interrupted saves? | 2 managers, 2 versions, 1 kill | 2,917,328 |
| `lifecycle_gates` | *refuted*: does only a version that passes the gates become champion? | 1 manager, 2 versions, no kill | - |
| `signal_pipeline` | which decisions of a block do the later blocks respect? | 3 symbols, 2 scores, 3 moves or no quote, one signal per side | 1,837,739 |
| `forecast_ledger` | what do file and table keep when the autorun is killed anywhere? | 2 symbols, 2 sessions of 2 samples, kills unbounded | 432,972 |
| `portfolio_engine` | do orders, positions and money stay within their rules? | 4 signals, 2 symbols, 4 bars, calm, crash or no bar | 143,664 |
| `portfolio_equity` | *refuted*: does the final equity reconcile with the results? | the same | - |

Why the bounds are enough to show the cases that matter:

* *Ledger.* All conflicts are between two operations on rows of one symbol; two processes
  and two calls give every pair of operations in every order, including both recording the
  symbol, marking between the read and the write of a settlement, and a kill between any
  two transactions followed by a rerun. Two prices make win, loss, break-even and a changed
  quote. The serial run has two symbols instead, for partial batches.
* *Live session.* The second watchdog and the second autorun are the ones a restart, a
  blind check or a start by hand creates; one disturbance anywhere in the day is the case the
  scripts are written for. With more the bounded supply of processes would run out before the
  day ends and liveness would be about the bound; the safety properties are proved for any
  number. Processes are born in a fixed order, as those not yet running are alike. The
  liveness properties are checked without symmetry.
* *Breaker.* The threshold is the code's. Three ticks stand for its 60 seconds: late
  failures can arrive before, inside and at the end of the open period.
* *Registry.* Three runs are enough for one to stage, one to unlink and one to copy in
  between, each with or without the pointer; two faults allow a killed run and a damaged
  file together, and damage before, between and after a server's two readings.
* *Lifecycle.* Two versions are what champion, previous champion and a trial need at
  once, two managers what a stale memory and a shared temporary file need. Which version
  passes matters through the outcome of the gates only: the versions of this run pass
  alone and fail against each other.
* *Pipeline.* Two symbols share a sector of the live sets and one is in none; the second is
  dimmed under the bear regimes and the third is switched off, so every filter of the weight
  manager occurs. The moves lie below the override, above it against the signal, and beyond
  the sector and stock thresholds; the scores on both sides of the mean, and one of each
  grade the news rule tells apart. One signal per side makes the ranking leave a symbol out.
* *Forecasts.* Two symbols put one in the buffer while the other's old row is rewritten; two
  samples supersede, the second session must leave the first one alone.
* *Portfolio.* Two slots for four signals, three of them on one symbol and in both
  directions. Prices move by 7% or not, which reaches the stop of a long and the target of a
  short; a horizon of two bars makes positions expire. The policies are the defaults of the
  code (`IGNORE`, `CLOSE_ONLY`); `CLOSE_AND_REVERSE` is in the module and in the theorems, not in
  this run.

What the properties say is in the comment above each; in short:

* `SettlementCoherent`, `AuditTrailSound`, `SettleOncePerClient`, `OrphanSignalOnlyByCrash`,
  `MarkLeavesSettledAlone` hold for overlapping processes. `BookRefinement` holds for one
  process at a time; for two it fails (both read, then both insert), so only the serial run
  claims it. `SettleOncePerClient` is per process slot for the same reason.
* `OrphanSignalOnlyByCrash` counts: at most one call per killed process leaves signals without
  positions, so overlap and the other calls' kills take nothing from a call.
* `OneWatchdogUnlessBlind`: two watchdogs of the scheduler's own making need a failure of
  `pgrep`. Its restarts, watchdogs started by hand and the gap between check and `Popen` do not
  suffice; a watchdog started by hand does stand beside the scheduler's, which nothing prevents.
* `OneAutorunPerWatchdog`, `NoSettlementBeforeClose` hold with a disturbance anywhere.
  `FaultFreeDaySettles` and `DayEnds` are liveness; the first holds also beside a second
  watchdog, the second also demands that the scheduler survives a day on which nobody interfered.
* `TrippedIffThreshold`, `FailedProbeReopens`, `ClosesAfterRecovery`.
* `PointerNotDangling`, `ChampionLostOnlyByKill`, `RegisteredIsImmutable`. `ServedAsChecked`: what
  a server predicts with is what the metadata of a registered production version was written
  for, though the second reading compares nothing; the one exception is damage between the two
  readings, and TLC reaches it.
* `TradingExcludesTrial`, `RollbackTargetWasChampion` hold for every record in a memory or a
  file, however stale; `SoloRolesDurable` as long as no two managers have been up at once.
  With two it fails: a save may be lost or garbled.
* `VetoIsFinal`, `OverrideFollowsMove`, `FightsOnlyOnPurpose`, `SilencedReturnsWithSector`. The
  last two have an exception each that the code makes: a signal boosted with its sector and
  then flipped by a reversal is emitted against sector and stock, since the damper skips
  whatever carries `sector_boost`.
* `OneLivePerSymbol`, `LostOnlyByKill`: what a kill costs is exactly the rows of the file it
  emptied, which the table then keeps open, and the successor of one superseded row.
* `CommittedWithinLimit`, `LifecycleTimely`, `PairsOnlyFromOneBar`; `CashExplained` says where
  every rupee is, the amount a closed short misplaces included; `DormantForever` says that an
  empty portfolio halted by drawdown or by its losses never trades again.

Further invariants are stated in the modules and proved without a run of their own:
`ForeignKeys`, `LifecycleForward`, `OneSignalPerSymbol` of the ledger, `StatusHonest`,
`SoloSaveIsAtomic` of the lifecycle; `SidesBounded` of the pipeline and `EndInv` of the portfolio
engine are stated beside their proofs.

`CHECK_DEADLOCK FALSE` is set for the ledger (calls are bounded), for the session (the day
ends), for the registry (runs end and faults are used up), for the forecasts (sessions are
bounded) and for the backtest (the bars end). The breaker, the lifecycle and the pipeline
never stop.

---

## 4. Fairness

* `LiveSession!FairSpec`: weak fairness of `Advance` (time passes) and of the steps of every
  scheduler (check, start, stop), watchdog, autorun and ledger job. All three loops end each turn in a sleep, and
  the subprocess calls inside them have timeouts. A hang is modelled as a turn so slow that
  the snapshot grows stale; the watchdog may kill it, and if not it ends. Faults, a failing
  `pgrep`, starts by hand and `GraceEnds` have no fairness: nothing has to go wrong, and a
  restart need not be reached before the market closes.
* `CircuitBreaker!FairSpec`: weak fairness of `Tick`, of each `Send` and of each answer.
  `httpx` runs every call under a timeout, and the universe is fetched again every cycle.
  `Outage` is not fair; `ClosesAfterRecovery` assumes the service comes to stay up.
* The other modules have safety properties only. The ledgers, the registry and the lifecycle
  are used by whoever calls them; pipeline and backtest are loops in which a step is always
  possible, so termination would say nothing of the code.

---

## 5. The proofs

Every invariant and action property of the passing runs is proved for all values of the
constants. Only liveness is model-checked (`FaultFreeDaySettles`, `DayEnds`,
`ClosesAfterRecovery`): fairness and `ENABLED` are out of the prover's reach. The assumptions are
the named `ASSUME`s of the modules: bounds and caps are naturals, prices and capital positive,
threshold and timeout positive, fees and slippage integers, and the values standing for "none"
are not members of the sets they are added to. TLC evaluates them in the runs. Only
`PortfolioEngine` assumes a finite set, its signals, for counting positions and summing amounts.

**Sums.** The sector's mean move and the amounts of the portfolio are sums over sets, which the
library computes by a fold that takes the elements in an order of its choice. The proofs need
that such a sum exists, does not depend on the order, and changes by the share of one element
when that element is added, removed or changed. The provers cannot use the library's
induction theorems, which take an operator as a parameter, so each of these facts is proved by a smallest
counterexample: the subsets of a finite set are well-founded under inclusion
(`FS_StrictSubsetOrderingWellFounded`), so a set without the property has a minimal one
(`WFMin`), and taking one element from that contradicts its minimality (`SetInduction`).

**SignalLedgerProofs.** The inductive invariant is `Inv`: the properties themselves and
four facts about what is under way. `FreshIds`: ids of a call still to draw them are unused,
without which an insert could overwrite a row. `RowsComplete`: the columns of a row fit its
status. `RecorderLocals` and `SettlerLocals` tie `todo`, `view` and `toLog` of a process to
the tables: a position to insert has its signal and no row, the row of a position to settle
has the entry price the settler read, an event to log has its row. The second is why a
settlement from stale reads is coherent: entry prices and signals never change. Kills
empty the locals, so the invariant survives them. `OrphansNeedACrash` is an induction of its
own: a signal becomes an orphan only in the kill of the process that has its position still to
insert (`OrphanStep`), what such a process inserts was drawn by one call (`OneCallEach`), and so
a kill adds at most one to the set of calls with orphans. `SerialLedgerIsABook` and `SerialSignalsAreUnique`
assume that all clients are equal (one process at a time); they strengthen `Inv` to `SerialInv`, in which an id drawn for a
symbol excludes any other; every step is then a `TradingBook` step or a stutter.

**CircuitBreakerProofs.** `TypeOK` and `TrippedIffThreshold` are inductive together. The one
case that needs thought is a late failure with the counter beyond the threshold, which the
code lets count on and push the time.

**ModelRegistryProofs.** `RunsInOrder` says what a run at each program counter has already
done (its directory exists, its metadata is written or not yet), which makes version
directories private to their run; `PointersPromoted` says that the pointer and every cache
name production versions with metadata. From these follows immutability. `CheckHolds` is about
a server between its two readings: the file it checked still has the checked bytes, or was
damaged since. It rests on immutability, since a run that could replace a registered file would
get between check and load. `ServersServeWhatTheyChecked` follows.

**ModelLifecycleProofs.** `RecordsSound` is one predicate on role records, relative to the
versions born and promoted so far, which only grow: so stale records stay sound when they
are loaded, copied, or written back, and the three properties over all records follow.
`WriterOpen` and `SoloSave` follow the one manager that is up through its save, for the two
`Solo` properties. `PromotionsDoNotAlternate` is about the gates: no two versions can each
be promoted over the other, since the predictive gate wants a strict improvement and its
margin is not negative. `PromotionsNeverCycle` says the same of chains of any length: along a
chain of promotions, each over the champion before it, the information coefficient only grows, so
no version returns, while Brier score and drawdown can each worsen by one tolerance per promotion and
by no more. The drift that the tolerances allow is thus real but bounded. The proof takes the
least number of promotions at which the claim would fail.

**LiveSessionProofs.** `OneWatchdogUnlessBlind`, `OneAutorunPerWatchdog` and
`NoSettlementBeforeClose` for any number of processes and faults. `ChecksHold` is what a check of
the scheduler is worth when it gets to `Popen`: unless it was blind, the only watchdogs alive are
ones started by hand since. `Parented`: every live autorun is in the handle of some
watchdog, dead or alive, and a watchdog about to start one has none alive, so two autoruns under
one watchdog are impossible, and an orphan is counted under its dead parent. `AfterClose` ties
the program counters past the close, and every ledger job, to the clock.

**SignalPipelineProofs.** `FlagStages` says at which stage each flag can exist, so a block that
adds a flag knows that no later block has run. `BoostRunsWithStock` is the fact the stock
damper's exemption rests on: a boosted signal moves with its stock until a reversal or the
news touches it. `MeanIsStable` carries the mean of the final ranking to the override and on:
no score changes in between.
`SilencedFollowSector` rests on the sum of a sector's moves being one integer: the sector cannot be
above +1% and below -1.2% at once, so the pass never boosts a signal to the side it has just
silenced. `SectorSide` carries what a silenced signal may be from the sector pass to the emission,
through reversals, news, the final ranking and live prices.
`SidesAreBounded` is about the rankings: the k best of a list are at most k, because the last of
them has fewer than k ahead of it. It holds after the first ranking for either side, for LONG
signals after the weights, and after the final ranking for the signals that ranking may move. The
LONG cap of the regime is not among the facts about the final ranking, which assigns afresh.

**ForecastLedgerProofs.** The file is empty while it is rewritten, so the invariant speaks of
`Ledger`, what the file holds or is about to hold. `Fresh`: rows of the file and the buffer are
of earlier samples or of symbols done with, hence a new row is new. `BufferAlone` and
`TurnCleared`: no live row stands beside one in the buffer or one being replaced.
`MirrorBehind`: the table has rows of the file only, until a kill empties the file.

**PortfolioEngineProofs.** `Ages` bounds submission and entry of every order and position by the
stage of the bar; `PairsInFlight` strengthens `PairsOnlyFromOneBar` to the orders in flight,
which is where two positions of one symbol come from. Cardinalities are compared by
`FiniteSetTheorems`.
The money has an induction of its own. `MoneyInv` types every deal and says that the equity's peak
is not below the initial capital, and that the losing streak is not longer than the list of
trades. `Balance` is the equation that each step preserves: cash plus what is `Held` in open
positions is initial capital plus realised result plus what is `Misplaced` by closed shorts, twice
the move of each. A step changes the share of some signals on both sides by the same
amount (`MovedBalance`); the bar that closes any number of positions at once is the case that needs
sums of differences. `CashIsExplained` follows, and with it `LongOnlyReconciles`: when every signal
is a LONG and no position vanished with its symbol, the reconciliation that the
run `portfolio_equity` refutes does hold at the end, so shorts and vanished positions are
all there is to the difference. `DormantIsForever` is an action property over the same invariant.

---

## 6. Where the code and its documentation disagree

Three runs refute a sentence of the repository; `PROJECT.json` quotes each and describes its
trace.

| Run | What is said | What the code does |
|---|---|---|
| `registry_staging` | the champion is registered as the immutable artifact | concurrent runs share one staging file (a bug) |
| `lifecycle_gates` | no shadow becomes champion without passing all gates | the gates see the metrics passed, the promotion takes the shadow of the moment |
| `portfolio_equity` | final equity is initial capital plus all net results | closing a short credits the price of a sale (a bug) |

Further disagreements met while modelling, without a run of their own. The models follow the
code in each.

* `signal_ledger.py:85` calls a second `record_signals` for a date a no-op; it skips recorded
  symbols, not recorded dates, so it records what has become active since.
* `session_watchdog.py:152`: the second ledger job of an evening is to find 0 positions; the
  first one records after it settled, and the second settles those.
* `docs/architecture/01_CURRENT_ARCHITECTURE.md:192`, `REMEDIATION_BACKLOG.md:163`: the scheduler
  prevents duplicate watchdogs. It does against its own restarts. When `pgrep` cannot be run the
  answer is no watchdog (`daily_autorun_scheduler.py:64`), and one started by hand during the
  check, or later, is not prevented from running beside the scheduler's.
* `daily_autorun_scheduler.py:5` "Runs forever": after its restart during the session, or beside a
  watchdog started by hand, it dies at the close on `_proc.pid` with `_proc` `None` (83).
* `session_watchdog.py:220` "never restart after market close": a restart decided just before 15:30
  starts its autorun after it, which runs the post-close actions.
* `session_watchdog.py:150`: the safety net is to cover an autorun that crashed; the scheduler
  may terminate the watchdog first (`daily_autorun_scheduler.py:141`).
* `registry.py:199`, `.kiro/specs/ml-service2/design.md`: artifacts with a mismatched checksum are
  rejected at startup. The file is opened again after the check (`regime_classifier.py:305`), so
  bytes damaged in that window are served. A server that starts while `champion.json` is
  truncated serves heuristics until its next start.
* `data_service.py:138`: one probe after the timeout; every request goes out until the first
  answer.
* `strategy/feature_weights.json:143`: LONGs are limited per regime and the rest are flat; the
  final ranking gives filtered, capped and disabled symbols a direction again, since the
  weight manager leaves no flag it honours. The same happens to the first "force neutral" of
  the ensemble before the first ranking overwrites it.
* `feature_weight_manager.py:220`: the session threshold is not written to disk; it is set in the
  dict that later updates save as a whole.
* `autorun_till_close.py`: the comment above the stock damper says 1.5%, the code 1%.
* `forecast_ledger.py:224`: `net_pct` accounts for the direction - of the closing ranking, not
  of the forecast; rows of symbols that close neutral stay open for ever, and the table
  learns of a grading only at the next recording.
* `portfolio_engine.py:1201`: the symbol policies, `IGNORE` among them, look at open positions only,
  so two orders queued on one bar open two positions of one symbol; `PairsOnlyFromOneBar` says that
  this is the only way.
* `portfolio_engine.py`: the daily-loss halt cannot fire on daily bars, as the daily result is
  computed and then reset within one step 9 (1049, 1073); the halt by drawdown takes the
  absolute value and so also stops a portfolio that gained (1179); runs are not
  deterministic, the slippage is seeded by a random id (740); an order of a symbol that shows
  no more bars never expires (725); positions of a symbol without a bar on the last date
  vanish without a trade (1081, 1102); losses of opposite closes do not count in the streak.
* `symbol_ic_tracker.py`: the correlation of score and signed return calls a symbol dead whose
  shorts always win.

---

## 7. What is not modelled

* *Numeric code* (features, labels, estimators, calibration, meta engine, scanners, drift
  statistics, the other backtests): sequential floating-point arithmetic without shared state. TLC
  has no floats, and integer stand-ins would check the stand-ins.
* *I/O adapters and routing* (news and gRPC clients, HTTP API): no state of their own; the
  concurrency of the training endpoint is in `ModelRegistry`.
* *The training itself*: windows, acceptance gates and fits are a single step of a run.
* *Issue and validation of approval tokens* (`approval_token.py`): the lifecycle asks only
  whether the token is empty.
* *Several trading days* of the session: the signal ledger is keyed by date, and the only
  state a session carries over, the scheduler's loop, is described above. The forecast ledger
  is modelled over sessions.
* *Overlapping autoruns* in the forecast ledger: one autorun at a time, killed and restarted.
* *Mode A and the other allocation methods* of the portfolio engine, capacity and stress
  analysis: the same loop without constraints, other formulas, and repeated runs of it.
* *Self-learning loop, drawdown manager, outcome resolver, recording of blocked signals*: no
  production code calls them; see the plan.
* *Several model families*: they share `_roles.json`, so overlapping managers of different
  families can undo each other's saves as those of one family can; the model has one.
* *Candidates for later*: see the plan.

---

## 8. Plan

The order of construction was: the signal ledger and its abstract book, the session that
drives it, the breaker, the registry, the lifecycle, the scoring pipeline, the portfolio
engine, the forecast ledger, and the proofs after each. What is left, most important first:

1. **RetrainLoop** (`self_learning.py`, `feedback.py`): `should_retrain` and `run_cycle` composed
   with `ModelLifecycle`. The rate limit and the count of consumed outcomes live in memory
   and are lost by a restart, and a retrain is marked before training that may raise.
   Properties: no two retrains within the limit while the process lives; outcomes trigger
   at most one retrain; an abstract "one shadow per retrain" to refine.
2. **Overlapping forecast writers**: `ForecastLedger` with two autoruns that rewrite the file from
   different reads, and the saves of `feature_weight_manager.py` and `symbol_ic_tracker.py`,
   which have the same pattern. Properties: what an overlap can lose, and that no graded row
   reopens; an abstract append-only ledger that one writer at a time implements.
3. **DrawdownManager**: the states over equity and peak, with the recovery counter that a new
   high resets. Properties: states escalate with the drawdown and de-escalate only through
   recovery; liveness of recovery, and where it fails.
4. **Composition of registry and lifecycle**: two files that name a champion each, written
   by different operations.
5. **Validation splits and embargo** as operators against a reference definition over bounded
   inputs; the promotion ladder of signals; caches and the streamer.
