# TLA+ verification of the backtest visualizer backend

The repository is a FastAPI service that runs student trading strategies over
historical bars in worker processes, stores the finished reports, and activates an
uploaded strategy once a validation backtest has passed. This directory holds TLA+
models of the parts where order, failure or arithmetic decide whether that is correct,
TLC configurations for small instances, and TLAPS proofs for instances of every size.

## 1. Inventory

Paths below are relative to the repository root.

| Component | State | Operations | Hard behaviour | What makes it correct | Modelled in |
|---|---|---|---|---|---|
| Job manager `src/workers/job_manager.py` | `_jobs`, one `_Job` (future, IPC state, detail, finished_at, saved) per run, pool, IPC manager, closed flag | register, submit, cancel, get_detail, live_summaries, `_on_done`, `_prune`, shutdown, boot recovery | callbacks race cancels; lookup before lock; pool breaks; shutdown while requests run; crash between two commits | an accepted cancel excludes a report; every dispatched run ends; one place answers for a run; verdict agrees with report | `JobManager` |
| Report job `src/workers/report_job.py` | none (IPC dictionary) | execute_report, build_report | polls a cancel flag at 0.1 s; may never return | returns a whole report or an error | `JobManager`, `Backtest` |
| Backtest service `src/services/backtests.py`, run controls `src/services/run_controls.py` | none | create, poll, delete; validate a form, overlay its controls | one form read by API, worker and engine | the engine runs what the API accepted | `JobManager`, `RunRequest` |
| Submission, validation runs `src/services/strategies.py`, `src/services/strategy_validation/runs.py`, `src/repositories/strategies.py` | row in `app.strategies` | submit_strategy, start_validation, attach, mark unstarted, overdue timer, delete, sweep of staged rows | package, row, run and attachment are four transactions | an upload leaves `validating` with the right verdict; a row has its package | `JobManager`, `StrategyPackage`, `RunRequest` |
| Strategy store, packaging `src/integrations/strategy_store.py`, `src/services/strategy_validation/packaging.py`, `engine/strategies/user_loader.py` | objects under a prefix, local or S3 | put, compare, delete, materialize; migrate, publish, seed, claim | no transaction over two objects and a row; a cutover by hand | nobody reads half a package; no stored object is replaced | `StrategyPackage` |
| Scanning, authoring `src/services/strategy_validation/scanning.py`, `authoring.py` | none | check, scan, draft, load a class | three readers of one file, each with its own rules | what checks clean is accepted; what is shown is what runs | `StrategyScan` |
| Durable run worker `src/workers/run_job.py`, `src/repositories/runs.py` | row in `app.backtest_runs`, its results, heartbeat | claim, load, beat, persist, fail, verdict, delete, cancel | redelivery, worker death, deletes racing claims | one executor per run; no completed row without results | `RunRow` |
| Reconciler `src/workers/reconciler.py` | none | reconcile, settle, requeue | liveness of a worker is inferred from a timestamp | does not fail a living run; interrupted runs end | `RunRow` |
| Market data `engine/data/cache.py`, `engine/core/utils.py`, `src/services/market_data.py`, `engine/data/fmp.py` | parquet file per ticker, symbol and search caches, pending futures, index of known tickers | fetch, merge, save; validate, search, backfill | two processes write one file; coalesced requests fail; loads race invalidation | a run gets every stored bar, whole; no failure becomes a verdict | `BarCache`, `MarketData` |
| Intraday data `engine/data/intraday.py`, `bar_interval.py`, `db_adapter.py` | none | chunk, bucket, probe, size, warm up | a provider that truncates silently; rows of another resolution | every day is served; no bar is seen before it is over | `Intraday` |
| Event engine `engine/core/runner.py`, `engine/run_single.py` | bars, poll time, samples, final marks | bar, OnData, record, finish, cancel | poll interval above the bar interval; strategies that raise | curve ends at the reported equity | `Backtest`, `IndicatorFeed` |
| Simulated broker `engine/core/executor.py` | cash, positions, marks, fills | default_trade_size, execute_trade, commission limit, gate | stale equity within a bar, fee above price, flips | no negative cash, margin, no crossing of the spread | `Executor` |
| Order interface `engine/strategies/order_interface.py` | a bar's snapshot | buy, sell, target_weight, close_position, execute | many orders against one snapshot | sell never opens a short | `Backtest` |
| Sentiment gate `engine/core/sentiment_gate.py`, `src/workers/sentiment_gate_loader.py` | loaded articles | load, score_at, blocks_long_entry | window edges in two time zones | decides as if it had read every article | `Backtest` |
| Trade pairing `src/services/trade_pairing.py` | open lots | pair_fills | partial closes, flips | FIFO; rows explain the account | `TradePairing` |
| Indicators `engine/indicators/`, `engine/strategies/portfolio_BASE/strategy.py` | deques and running sums | Update, AddIndicator's warm-up, the feed of a poll | window lengths; the seam between warm-up and run | the value defined over the history; every bar once | `Indicators`, `IndicatorFeed` |
| Vectorised engine `engine/analytics/vector_strategy_adapters.py`, `vectorized_backtest.py`, `engine/core/backtest_engine.py` | matrices | adapters, weights, returns, growth | one shift too few reads the future | causality | `FastMode` |
| Reporting `engine/analytics/reporting.py`, `engine/run_single.py` | frames | benchmark, minute replay, curve, drawdown | unsorted and repeated rows, first days that differ | the benchmark is an account; the replay is the fills | `Reporting` |
| Sign-in, starter reports, saved reports `src/services/auth.py`, `src/repositories/users.py`, `src/services/starter_reports.py`, `src/repositories/reports.py` | rows of `app.users` and `app.backtest_reports` | authenticate, get_or_create_user, lock_user, ensure_starter_reports, save, remove, list | first requests of one identity race; a user loaded before the lock; older examples stored as user reports | one id per identity; examples once, with their marker; lists that agree | `Onboarding` |
| Built-in strategies; news, context, sample data; portfolios, public runs; routes, schemas, token verification; database set-up | rows of others | – | – | – | not modelled, section 6 |

Interaction: the API's handlers call the job manager in threads; the manager hands a
`RunSpec` and an IPC dictionary to a pool process, which loads the strategy's package
from the store and the bars through the cache, runs the engine (runner, executor,
strategy) and returns a report; the done callback, in a thread of the API process,
inserts it and settles the strategy. `server.py` serves runs this way. `run_job.py` and
`reconciler.py` are the durable form of the same worker, on the rows of
`app.backtest_runs`; the transient worker reuses their functions, and the integration
tests drive them.

`PROJECT.json` lists every component, the hazards with their lines, and the map from
definitions to source lines.

## 2. Modules

State machines:

| Module | Models | Notes |
|---|---|---|
| `JobManager` | job manager, its clients, the pool, two tables | each method under the job's lock is one action; `_on_done` of a saved report is two, because the insert commits before the manager records it |
| `RunLifecycle` | what a client may rely on about a run | abstract; `JobManager` implements it (`RefinesLifecycle`) with `PhaseOf` as the refinement mapping |
| `RunRow` | `app.backtest_runs`: run_job, API statements, reconciler | one action per transaction |
| `StrategyPackage` | the strategy store, the rows that point into it, submission, deletion and sweep, the workers that load, the operator's scripts | one action per store call or transaction; a local put is two, because the file is truncated first |
| `BarCache` | `public.market_data`, the parquet file per ticker, the load of a run's history | one action per query, per half of a file write |
| `MarketData` | extends `BarCache` with the symbol requests of the API | one action per section under `_symbol_lock`, per provider answer, per half of an index load, per commit of a backfill |
| `Onboarding` | the transaction of an authenticated request: the row of its identity, the one-time examples; the reports they join | one action per SQL statement, under READ COMMITTED with row locks |
| `Executor` | the account, sizing and settlement | integral money; weights and confidences as numerators, `math.floor` as `\div` |
| `Backtest` | event loop, order interface, gate, report; extends `Executor` and `TradePairing` | the strategy is arbitrary |

Algorithms, as operators over bounded inputs:

| Module | Models | Reference it is checked against |
|---|---|---|
| `TradePairing` | pair_fills | the account of `Executor`, along every run of `Backtest` |
| `StrategyScan` | check_compatibility, scan_source, drafts, user_loader | each other |
| `Indicators` | eight streaming indicators, exact fractions | their definition over the whole history |
| `IndicatorFeed` | warm-up, poll feed, history slices | the set of bars of the window |
| `FastMode` | four adapters, weights, returns, turnover, growth | the same on every prefix of the data |
| `RunRequest` | validation of a form, controls, overlay, validation window, the engine's refusals | the form |
| `Intraday` | chunks, buckets, the resolution probe, window bounds, warm-up days | the days and minutes themselves |
| `Reporting` | buy-and-hold benchmark, minute replay, curve, drawdown | an account that buys once; the account the fills left |

Proofs:

| Module | Proves |
|---|---|
| `JobManagerProofs` | types, the invariant of dispatch, callbacks and saved reports, the invariant of outcomes (what is still owed to a job, verdicts), polls, the refinement of `RunLifecycle` |
| `RunRowProofs`, `MarketDataProofs`, `OnboardingProofs`, `StrategyPackageProofs` | the invariant of the component and every safety property that rests on it |
| `BacktestProofs` | cash, margin, gate, report and trade table of a backtest |
| `AlgorithmProofs` | the properties of the algorithm modules, for every case |
| `FoldTheorems` | what the sums and folds of the community modules compute, for every finite set and sequence; recursion and induction over places; how sequences grow; lists in an order; weekdays among days |

`Algorithms` has one state per case of an algorithm module: the sets of cases and the
tables of a deployment are its constants, what the code guarantees of both are its
assumptions, and its invariants are the properties of section 3. `MC*` modules hold
model values, bounds and constraints for TLC.

Correspondence worth knowing when reading:

* `JobManager`: `req` is the request that creates a job (row, registered, looked up,
  dispatched, done), so the gap between lookup and lock in `submit` is a state.
  `Failed` is `_fail`; `Settle` is `_settle_validation` with its swallowed database
  error (`unsettled`). `unsure` records an insert whose commit raised. `Crash` ends the
  process; `Boot` is `_recover_validation_outcomes` and `start_job_manager`. The pool
  (`PoolTake`, `Return`, `WorkerDies`, `PoolCancels`) is external and modelled from the
  documented behaviour of `ProcessPoolExecutor`: up to one call beyond the workers is
  already marked running, and one dead worker breaks the pool.
* `RunRow`: `call[w]` is the program counter of one call of `run_job`; `stale` is the
  heartbeat's age against the cutoff, abstracted to a set. `faults` fixes, per
  behaviour, what may go wrong: the database failing before a claim (`claim_raises`), a
  worker dying before its claim (`dies_early`), a living worker whose beats do not
  arrive (`missed_beats`). Deaths after the claim, swallowed errors and restarts
  can always happen.
* `StrategyPackage`: `proc[r].pc` is where a request is in `submit_strategy`,
  `migrate_staged_sources` or `delete_strategy`; `loop` is the request that holds the
  event loop, because the sweep calls the store without a thread while a submission goes
  through `asyncio.to_thread`. An object is absent, torn or has a version. `mig` and
  `pub` are the two scripts; their guards (`--api-workers-stopped`, exit status 0 before
  the backend is switched, no job using the built-in) are the operator's runbook and
  stand in the actions. `dirty` is history: uploads a crash, a failed cleanup or an
  unreadable insert may have left objects of.
* `BarCache`: times are half days, so that a query that starts after a day's open
  (the left edge of a later slab) returns a `partial` bar. `job[w]` is one
  `fetch_historical_data`; `SaveStart` truncates the file and `SaveEnd` writes it, and
  two writers at once leave it unreadable. `job[w].gaps` are the missing ranges with their
  tickers (`range_to_tickers`); the code takes them in the order it met them, the model in
  any. `stepped` is history, see section 5.
* `MarketData`: `pending[q]` is the shared future of a query (open, or set and not yet
  popped), `caller[c].pc` a request; `Holding` are the permits of `_symbol_requests`.
  `behind` is history: what an index load could not see. `loader[l]` is a coverage
  request in `backfill_missing`: `todo` are the absent tickers it has not taken yet, `at` the
  one it holds (history fetched, listing asked for under a permit, rows about to be
  committed), `wrote` those whose bars it committed. Only `BackfillEnds`, after the last
  ticker, drops the index; `Skipped` is an unavailable provider and `BackfillRaises` any other
  error or a cancelled request, which leave the loop early.
* `Onboarding`: `txn[r]` is the session of one request, `txn[r].user` the user as the
  identity map holds it, `adds` and `marks` what it has flushed; `holder` is the lock of a
  user's row, or of the unique key while the row is being inserted. A statement sees what is
  committed when it runs; `Commit` publishes the row, the marker and the examples together
  and `Rollback` is `session_scope` after any error. The rows and reports of `Init` are what
  the additive migration of the marker meets. The curves and trades of an example are
  abstracted to its owner, key and purpose. `backtest_reports.owner_id` has no foreign
  key, so a job that saves does not wait for the lock; a report saved between the onboarding
  check and its commit stands beside the examples, as if it had been saved after them.
* `Executor`/`Backtest`: an order carries the arrival price (the close the strategy
  saw), which is not the executor's mark while the ticker has had no bar inside the run.
  `port` is the equity shown to the strategy for all its orders of a bar. `execute` with
  the legacy weight and the explicit-target calls share `Place`. The branches for an
  order manager are left out: `run_single` never sets one.
* `Executor`: `QuantityLimit` has the three bounds of `_commission_quantity_limit`: the margin
  that closing releases, the case in which a closing share's fee at leverage costs more than
  it releases, and the cash a purchase or an underpriced sale needs. `OrderFees` are the fees
  of the order a step placed.
* `StrategyScan`: the body of a file is its binding statements in order: classes, and "bind"
  for every other one (import, assignment, `def`, `del`). `Values` gives what each name is bound
  to as the module executes; the scan reads only how bases are spelt, while `Candidates` are the
  variables of the finished module that hold a strategy of the file, counted once per name.
* `FastMode`: `Pivot` drops the tickers without any close in the window, so the columns are
  those of the whole run; `OffColumns` is the defensive group of `trend_rotate`, with its
  fallback to the last column. `Prefix` is the data of a run that ends earlier.
* `Reporting`: `InForce` is what `resample("min").ffill()` puts at a minute, the cell of the last
  row up to it, empty cells included; `GridPrice` is the `bfill()` after it, with 0 for a column
  that stays empty, because the sum skips it. `Pivots` is that `pivot` does not raise.
* The algorithm modules take their tables (allowed imports, limits, the registry,
  window lengths) as CONSTANTS; `Algorithms` instantiates the modules and `MCAlgorithms`
  gives the values. A syntax tree is
  the set of facts the rules read, prices divide `Scale`, weights are multiples of
  `1 / Shares`, so that every quantity of `FastMode` and `Reporting` is an integer.

Mutants: an operator `X_Something` before `X` is a plausible wrong version of it, used
only to show that a property notices.

## 3. Runs

| Run | Instance | Shows |
|---|---|---|
| `JobManagerSafety` | one user run, one owned upload, one worker; 1.19 M states | all safety properties of the manager and the refinement of `RunLifecycle` |
| `JobManagerLiveness` | a user run that never returns, an internal upload, two workers | the upload's run ends, its row leaves `validating`, a shutdown that starts at any moment ends |
| `JobManagerStartup` | one owned upload | *violated*: an upload whose row has no `validation_job_id` is never reconciled |
| `BacktestAccount` | one ticker, three bars, two orders a bar | cash, the books and their FIFO order, curve, gate |
| `BacktestMargin` | two tickers, fee as high as the cheap price, three orders a bar | the shared margin: what an order adds or closes and what it pays in fees fit the leverage, on every branch of the commission limit |
| `BacktestUnmarked` | as above | *violated*: a ticker with a lookback close and no mark breaks the identity of the report |
| `RunRow` | a user and a validation run, two calls, all fault sets; 0.76 M states | claims, rows under execution, verdicts, ended runs |
| `StrategyPackage` | two uploads, one staged row, two requests, one loading worker, both backends | a row has its package, a worker loads one version, a failed upload leaves nothing, stored objects stay |
| `MarketData` | one ticker over three days, two loading workers, slabs of a day; three requests for two symbols and a prefix, two permits, two coverage requests; 1.50 M states | a run gets every stored bar, each whole; coalescing, answers, index |
| `Onboarding` | three requests of one identity, with and without a row and reports from before the marker; 0.12 M states | one id, examples once, no failed flush |
| `Algorithms` | 226,012 cases, a state each | the seven algorithm modules against their references |
| `IndicatorsFedTwice` | the feed cases of `Algorithms` | *violated*: the first poll may hand on a bar the warm-up already consumed |

Bounds. Two jobs are the least at which a request, a callback and a shutdown sweep
concern different jobs while competing for a slot; one worker makes the queue matter,
two are needed so that one may hang. `LeftAlone` keeps the hanging run of
`JobManagerLiveness` uncancelled: cancelling what never reads its flag changes nothing for
the other run. A run in the durable table concerns other runs only through calls, so two
calls and two runs cover redelivery and the sweep over several rows. For the account,
prices that double and halve make both margin and flat targets bind, `PollInterval` 2 over
bars one or two apart skips polls, and two or three orders a bar are what stale equity
needs. `DayLength` 2 puts several samples in a day. `MaxBars` and `MaxOrders` are the only
caps in guards. The articles of `MCBacktest` lie just inside and just outside the loader's
window.

`StrategyPackage`: two requests are a submission or deletion beside a sweep, or two sweeps
of one row; the constraint `Separate` leaves out mixtures whose steps touch nothing in
common (a publication beside uploads; more than one request beside a load; objects of two
uploads).

`MarketData`: three days give a file a left gap, a right gap and a hole-free middle; one-day
slabs make every gap of two days take two queries; two workers are one that reads a file and
one that writes it. Three requests meet on one symbol as leader, waiter and late comer; two
permits let a search and a symbol check compete. A coverage request commits before it ends, so
two of them and one symbol request are the least at which an index is loaded, expires and is
dropped between the commits of one backfill and the end of the other. Loads and API requests
share only the table, and a symbol request asks of it only whether a ticker has bars:
`SeparateSpec` keeps them in different behaviours, with the writers of the table in both.
`Bounded` ends a behaviour where `ServedWhole` has nothing more to say, and keeps three
requests to what they meet on: three symbol requests to an empty database, coverage requests
to questions about `x` before a verdict is kept, a coverage request about to write to one load
of a run.

`Onboarding`: three requests, because the deepest race needs one that loads the user, one
that seeds and one that inserted the row and deferred; each is made once, and a retry is
the next of them. Users of different identities share no row and no report.

`Algorithms`: every bound is a definition of `MCAlgorithms`. Files have up to three statements
that bind two names (classes with every base and nesting, aliases, imports), or one class with
every form of `OnData` and a file that is wrong elsewhere; streams are up to five bars, so
every window of up to three drops an element; feeds have every set of bars of one ticker over
four days around the start date beside four of another, for poll intervals below and above a
day; matrices have one ticker with every four closes beside others that are priced throughout,
listed late or never, in every place of the order and with and without a defensive one, for
windows of one and two days; requests combine all values of the fields about what is traded,
and all values of the others, each of them absent, malformed, at its limit and beyond it;
downloads are up to three overlapping windows longer than several chunks, over every day,
weekdays and rare days; stores change their resolution inside and after the sampled days;
frames have up to three rows of two tickers in every order, with repeated times; ledgers
replay fills over quotes with empty cells, tickers quoted late and a repeated row.

Deadlock is checked except in `Backtest`, where a run ends, and `Algorithms`, where a case
is the last state.

Fairness. Only `JobManagerLiveness` assumes any: threads, the executor and terminating
strategy code make progress (weak fairness per job); users, the clock, failures, the start
of a shutdown and restarts are never forced, and jobs of `Hangs` never return. No strong
fairness is assumed.

Each violated property quotes the sentence of the repository it formalises; `findings`
in `PROJECT.json` gives the line in the code and the quotation.

* `JobManagerStartup`: `_recover_validation_outcomes` selects only rows that name their run.
* `BacktestUnmarked`: `_place` accepts a ticker that has no mark yet.
* `IndicatorsFedTwice`: the first poll takes the latest bar of the window as new, and
  if the ticker has none on the start date that bar was part of the warm-up.

What is deliberately not a property of a run: type invariants and the inductive invariants are
proved (section 4), and so are two consequences that need no run of their own: a completed row
has its results (`CompletedHasResults`), and the report lists agree (`ListsAgree`). A durable
run that is left `running` after a restart faster than the heartbeat's grace window is a
behaviour of `RunRow`, and no document promises otherwise.

## 4. Proofs

`JobManagerProofs` (any `Jobs`, `Validation`, `Unowned`, `MaxWorkers`; assumptions
`JobsAssumption`, `WorkersAssumption`): `TypeCorrect`, `JobInvariantHolds`, and from the
latter `CancelExcludesSave`, `FinishedStaysFinished`, `AnsweredFromOnePlace`.
`CancelPreventsSave` alone is not inductive: a save must be excluded by the cancel flag,
so the invariant has to say that an accepted cancel leaves the flag set or its process
gone; that the callback still sees the flag because it runs once, after the future is
done; and that a dispatched job stays unfinished until its callback is over, so that
no second path ends it. `JobOK` states this per job; `Frame` shows that an action
touching one job keeps it for the others.

The same module proves `OutcomeInvariantHolds`, and from it
`NoJobIsOrphaned`, `IpcIsOpenForCallbacks`, `VerdictsMatchReports`, `ValidationIsUnderWay`
and `PollsMoveForward`. `OutcomeInvariant` says what is still owed to a job: a registered
unfinished job has a request, a future or a callback that will end it, and what `shutdown`
and `Boot` may assume of jobs, rows and the IPC manager at each of their steps. A verdict
is written by three actors that never see each other, so the invariant relates the row to
the report and to the callback that is due. `ManagerImplementsLifecycle` is the
refinement: the initial states map to initial states of `RunLifecycle`, and each action maps
to a step of one run or a stutter, with `PhaseOf` as the mapping.

`RunRowProofs` (any `Runs`, `Workers`, `Faults`; assumption `RunsAssumption`):
`TypeCorrect`, `RowInvariantHolds`, and from it `OneCallExecutes`,
`CompletedRunsHaveResults`, `ExecutedRowsStayRunning`, `VerdictsAgree`,
`EndedRunsStayEnded`. Exclusive claims need that an owned row was queued for the last
time. The results without faults need more, because `_fail` and `_persist_success` write
by id alone: no two claimed calls (dead ones included) hold one run, and a living one
finds its row running, fresh and without a verdict.

`MarketDataProofs` (any `Callers` (finite), `Symbols`, `Listed`, `Permits` and any tables
and loads of `BarCache`; assumptions `BarsAssumption`, `SymbolsAssumption`):
`SymInvariantHolds`, and from it `QueriesAreCoalesced`, `AnswersAreSound` and
`IndexIsCurrent`. None of the three is inductive. That nobody waits in vain needs the
owner of a future between setting and popping it: a query's pending entry is there exactly
while one caller owns it, and its value tells where that caller is (`Ownership`). That no
failure becomes a verdict needs what the future holds after it was set (`SoundTables`) and
that only a search reaches the fallback (`Sound`). The index needs what a load under way
has read and may miss (`Indexed`), and what a backfill under way has committed and may still
leave behind (`Written`). Each part has a lemma that every step keeps it, action
by action; that `Loaded` only grows (`LoadedGrows`) is all they use of the bar cache.

The same module proves the bar cache (any `Tickers`, `Workers`, `LastDay`, `Slab`, any tables):
`BarsInvariantHolds`, and from it `RunsAreServedWhole`. A load works on a copy that other
workers do not see and saves it back over whatever they saved, so the invariant is about one
ticker of one load (`Consistent`) and about the files (`FilesOK`): a file never skips a stored
day between its first bar and its last (`Unbroken`). While a load runs, every day it wants is
held or in a gap that is left (`WantedOK`), gaps lie apart with a held bar at each seam
(`RangesOK`, `SeamsOK`), and the only hole is in the gap that is being read (`HolesOK`). The
seams are why no bar is partial: a query that begins at a day's close finds that day held
already. `StartConsistent` derives this from `missing_ranges`, `FetchConsistent` keeps it over a
slab, `SavedUnbroken` shows that what is saved has no hole unless the gap was on the left and
took several slabs, and `BackfilledConsistent` that a ticker stored in the middle of its own load
does no harm: an empty cache has no gap that begins or ends at a close.

`OnboardingProofs` (any `Identities`, `Requests`; assumption `OnboardingAssumption`: ids
drawn by requests are new): `OnboardingInvariantHolds`, and from it `StartersComeOnce`,
`FlushesNeverCollide` and `IdentitiesHaveOneOwner`, every property of the run, and
`ReportsAreListedOnce`. The marker is read by one statement and written at the commit, so the
invariant has to say that what a request knows of its row stays true in between: it holds
the lock from the moment it decides, knows the row exactly then, and before that only the
id and a marker that was set (`KnowsRow`, `Writes`). Ids are in one row (`IdsAreUnique`), so
an owner nobody marked has no examples (`ExamplesAreMarked`) and a flush cannot collide.
`OneRequestMoves` reduces each statement to its own request; `CommittedRow` and
`CommitInvariant` are the step that publishes.

`StrategyPackageProofs` (any `Uploads`, `Staged`, `Requests`, `Workers`):
`PackageInvariantHolds`, and from it `RowsHavePackages`, `LoadsAreWhole`,
`FailedUploadsLeaveNothing` and `StoredIsNeverReplaced`, every property of the run. No
transaction covers two objects and a row, so `PackageInvariant` gives each object one
writer by the program counters: who stored which object for a row that does not exist
yet, what a sweep has compared before it changes a row, that the cutover scripts run
alone, and that a worker copies objects which only a deletion may remove. The proofs do not
use the constraint `Separate` of the run. With the sweep's store call moved to a thread
they fail, as they should: the sweep's check of the row would be stale.

`FoldTheorems` states once what the folds over finite sets compute. Recursion over subsets has
one solution (`SolutionExists`, `SolutionsAgree`), by taking a smallest subset for which it
has none; hence sums do not depend on an order (`SumsExist`), are what
`SumFunctionOnSet` computes (`SumsAre`), and change by the change of a summand
(`SumChange`). A sum over positions is the sum of its groups' sums (`SumByGroup`), which is how
the lots of a ticker become its position; `SeqSum` gives the sums over a sequence when it is
appended to, concatenated, or changed at one place; and a fold over a sequence is the
recursion that takes its last place off (`LastPicks`, `RecursionIs`).

`BacktestProofs` (any tickers, prices, weights, confidences, articles, fees, slippage,
leverage and windows; assumptions `AccountAssumption`, `RunAssumption`, which say what the
configuration and the query give: positive closes, a threshold of at most 0, an offset within
the embargo):

* `TypeCorrect` and `CashStaysNonNegative` are proved together (`Solvent`): the limit
  divides by prices plus fees, so a share count is integral only for a positive price, and a
  sale at a price below its fee is paid from cash.
* `MarginIsRespected`: the fees of an order count at leverage against what it may hold, so the
  property notices a closing part that costs more than it releases. A limit bounds the shares
  either by what closes, if that is paid for, or by what the buying power pays for with the
  margin that closing releases (`MarginLimit`); without a holding on the other side nothing
  closes (`NothingCloses`); one order changes the exposure and the equity by one summand
  each (`TotalsChange`); the rest is slippage.
* `GateIsNeverPassed`: a gated target above the holding is flat, and a cover whose notional
  is at most the short at the execution price is at most the short in shares (`CoverBound`).
* `GateMissesNothing` needs only that the bars are within the run's dates (`InDates`).
* `ReportEndsAtEquity`: `RecordsOK` says that sample times never fall, that none is of the
  current bar before `OnData` returned, and that the last one values the account as it
  still is. TLC checked it on both instances before it was proved.
* `TradesExplainEquity`: `Explained` says that the positions are the net of the open lots of the
  book that `PairFill` builds from the log, and that the cash is the capital plus the gains of
  its closed rows less what its open lots cost. It has to speak of the log alone: the
  report pairs the fills once, at the end, while the account moved with each. One turn of
  the closing loop moves quantity and cost from the fill to the book and leaves both sums plus
  what is still due unchanged (`TurnKeepsTotals`); it also keeps the rows and lots of a ticker in
  opening order (`TurnKeepsOrder`), because it takes the oldest lot. What every turn keeps the
  loop keeps (`CloseLotsStays`). A fill then adds
  exactly what `Settle` does to the account (`SettleExplained`), and the marks of
  the open rows are those of the positions (`LotsAreWorthNet`, `RowsAddUp`).

`AlgorithmProofs` (any cases and tables): each theorem says that a property holds of every case
the assumptions of `Algorithms` admit, however long its sequences and large its sets, so it is
about the code's inputs and not about the bounds of `MCAlgorithms`. The recursions of these
modules are recursive functions, so that they can be unfolded (`TraceExists`,
`CourseOfValues`); what holds at every place follows by `PlaceInduction`.

| Theorem | Assumes, and where the code gives it | Argument |
|---|---|---|
| `RequestsRunAsSubmitted` | `StrategiesAreRegistered`: a row's universe is the tickers of its `config.json`, each once, its weights name them and add up to at most 1, and it has no bar size; `ModesAreKnown`: `RUN_MODES` is `("event",)`; `RequestsAreParsed`: the schema's types | what the API accepts passes each of the engine's refusals in turn; the overlay of the controls keeps the form's fields; the weights of a universe bound those of its tickers (`SumOfParts`) |
| `CheckedFilesAreAccepted` | `FilesAreRead`: the parser gives the statements in order and names lines of the file | check and scan pick a class by the same spelling; that class is a strategy of the module unless its `BasePortfolio` is none (`Impostor`), and any other candidate is a second name (`Aliased`) or extends a strategy from outside (`Sibling`), by induction over the statements; a draft's scaffold binds neither |
| `FastModeIsCausal` | `MatricesAreRead`: tickers are priced on one set of dates, each with some close, and closes are positive; `LimitsArePositive`: the adapters' windows | the columns of a prefix are among those of the run, and a column without a close yet gives no signal, no weight and no return; so two matrices that agree on their first rows give the same positions, returns and growth there (`Positions` and `Growth` by induction over rows), with `trend_rotate` where both group the common columns alike (`SameGroups`) |
| `IntradayRunsAreWhole` | `DownloadsAreRead`, `StoresAreRead`, `WarmupsAreRead`: days are days, a bar size is a supported one, a period is at least 1 | the windows of a request cover it and are no longer than the provider's chunk; the memo of served days holds every day of a window that was asked for; a row divides the bar of a finer store; seven days have five weekdays, so the warm-up's days have enough bars |
| `FeedsAreFaithful` | `FeedsAreRead`: finitely many bars, no negative poll, lookback or period | polls increase; what an indicator consumed after a poll is the warm-up with every later bar up to the poll's time, in order, by induction over polls; the last one is the latest of the window the strategy sees |
| `IndicatorsAreExactAlways` | `StreamsAreRead`: no constructor takes a period of 0, nor an RMI's a `momentum_period` of 0; cells are numbers or missing, volumes not negative; a negative RSI period or DMA displacement, which nothing refuses, is left out. `AbsentIsNoValue`: a missing cell is not a number | per class, what the indicator keeps is a function of the rows it was given (`KeptSMA` … `KeptVWAP`), and one update keeps that so (`SMAStep` … `VWAPStep`): a deque is the last values (`PushKeepsLast`), a running sum their total (`SlideKeepsTotal`), Wilder's average the written-out smoothed one (`WilderStep`) and an EMA that up to a common factor (`EMAStepped`); induction over the bars (`AfterIsKept`), then each is compared with its definition |
| `ReportsAreExact` | `ReportsAreRead`: quotes and fills of tickers of the run, prices that may be missing, fills at minutes of a finite grid, samples of a positive value; allocations that are multiples of prices, which keeps shares integral and is a choice of the model | the changes of a ticker's value telescope to the profit of its latest close, and grouping them by ticker gives the account's (`SumByGroup`); a shorter window observes the same closes up to its end; a position of no shares drops out of the replay, and the cell in force, when it has a price, is the last price of its ticker (`InForceIsLast`), which the back-fill then keeps (`GridPriceIs`); the drawdown's minimum is one of finitely many fractions, compared by cross products |

Only model-checked: the liveness properties (fairness is out of the prover's reach). Every
safety property that a passing run checks is a theorem.

## 5. Edges of the code that the models show and no property forbids
These were met while modelling. Each is excluded by name where a property comes near it.

* `JobManager`: when the insert of a report commits and only its acknowledgement is lost,
  `_on_done` fails the job although its report is saved (`unsure`). `RunInOnePlace` excepts
  such a run; `docs/COMPLETED_REPORT_STORAGE.md` says that failed runs never enter history.
* `BarCache`: a gap to the left of a cached file is fetched in slabs from the oldest day
  on and saved after each, so a query that fails between two slabs leaves a file with a
  hole that `missing_ranges` never looks for. `ServedWhole` excepts tickers in `stepped`,
  and the run leaves them out.
* `Intraday`: a store whose resolution changes inside a sampled window, or that has one
  row a day, passes the probe; `NothingFromTheFuture` excepts exactly these. Polls further
  apart than `LOOKBACK` lose bars. The warm-up may be short for a DMA or RMI, which consume
  more than their period.
* `RunRequest`: an `INTERVAL` parameter is overwritten by an intraday bar size; the lookback
  can make a window that the API accepted too large for the engine; fast mode is not
  offered by the API.
* `StrategyScan`: the check reads what names say, the loader what they stand for, although
  `check_compatibility` says it "establishes that the file *can* be loaded". Four kinds of file
  check clean and may be refused: the class is bound again or deleted later in the file (`Stays`),
  its `BasePortfolio` is another class (`Impostor`), a strategy has a second name, which counts
  it twice (`Aliased`), or a class beside it extends a strategy imported from elsewhere or
  under another name (`Sibling`).
* `FastMode`: the first row's turnover is never charged. The columns are the tickers with some
  close in the whole window, so with no TLT column the defensive group of `trend_rotate` is the
  last ticker that is *ever* priced, and a TLT listed late replaces it from the first day on:
  which group is held before the listing can depend on it. `NoLookAhead` excepts exactly
  the days on which the groups differ (`SameGroups`).
* `Reporting`: `ffill` does not fill an empty cell of a row that another ticker has, so at
  such a minute the table takes the next close of the ticker, a later price, or counts nothing
  when there is none. A repeated row makes `pivot` raise, which the caller logs: the report
  then has no minute table. The minute replay drops fills that are not on the minute grid.
* `StrategyPackage`: a crash between the two objects of a staged upload leaves a partial
  package, which the row's next sweep refuses for good.
* `MarketData`: `invalidate_known_tickers` promises that after bars were written the next
  request re-reads. It is called once, after the last ticker of a backfill: an index that was
  loaded before stays without the tickers committed so far, and stays so until it expires when
  a later ticker raises or the request is cancelled (`Written`, `behind`). The comments name a
  saved report as a reason to drop the index too; nothing drops it then.

## 6. Not modelled

* Built-in strategies: `Backtest` leaves the strategy arbitrary.
* The numbers of the starter reports: fixed curves that nothing computes with.
* `cscv.py` and `purged_kfold.py`: no code imports them. Monte Carlo paths, seasonal
  overlays, plots and performance ratios: floating-point artefacts that nothing reads back.
* News, market context, article pages and sample data: reads with no state of their own.
* Portfolios, public runs, routes, schemas, token verification: single queries, formatting
  and checks around the services.
* Database set-up and configuration: pure I/O.
* Scripts other than migrate, publish, seed and claim.
* `execute_child_order`: not reached, since `run_single` never builds an order manager.
* Left out of the modules above: the loss of the IPC manager process, the bound on
  requeued runs, the version history of a strategy, paging and exports, parsing of
  provider rows, registration of indicators by name.

## 7. Plan

1. Done: the state machines and algorithms of section 2, the proofs of section 4.
2. `JobManager` with the loss of the IPC manager, and the composition of its pool
   with the loads of `StrategyPackage` and `BarCache`.
