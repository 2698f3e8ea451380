# Formal model of the MakeMeRich trading engine

This directory is a TLA+ development of the engine in `engine/te`: modules that
translate its stateful components, TLC configurations that check them on small
instances, and TLAPS proofs of the properties that hold for every instance.
File names below are relative to `engine/te/` unless they start with `engine/`.

## 1. The system

The engine is one Python process: a FastAPI application, an APScheduler with a
thread pool, and a SQLite database through SQLAlchemy. Each minute of the
session the *paper cycle* (`engine/cycle.py`, driven by
`engine/scheduler.py:PaperCycleRunner`) asks strategies for signals, sends them
through risk gates, sizes and submits orders through the execution core, and
runs the exit plan of every open position. Broker feeds, data ingestion,
monitors, audits and the HTTP API run beside it, in other threads, over the same
database.

### Inventory

| component | state it keeps | operations | talks to | what is hard | what makes it correct |
|---|---|---|---|---|---|
| execution core (`execution/manager.py`, `inflight.py`, `store.py`, `idempotency.py`, `reconcile.py`, `domain/orders.py`) | `order_events` (append-only), the halt flag | `submit`, `drain_fills`, `on_fill`, `check_inflight`, `reconcile` | broker, halt flag, slippage monitor | dropped acks, crashes between appends, redelivered fills, in-flight checks overlapping a submit | intent durable before the network; no fill twice or past the order; one owner per venue order; the log implements a ledger |
| position lifecycle (`engine/cycle.py`, `persistence/repos/paper_trading.py`, `api/routers/positions.py`) | `open_positions`, `trades`, the order log behind them | entry, exit, manual square-off | execution core, risk | two closers of one position; crash between a fill and the row that records it | every closed position has one closing order and one trade; a reduce-only order never opens exposure |
| halt, kill switch, risk limits (`execution/halt.py`, `risk/killswitch.py`, `risk/limits.py`) | halted flag with kind and reason, in-process kill flag, peak equity | `set_halt`, `clear_halt`, `clear_daily_halt`, the `check_*` gates | cycle, scheduler jobs, API | a halt written over another; the 09:05 reset against a halt that needs a person | a halt that needs a person is only cleared by a person |
| capital guardrails (`engine/state.py`, `api/routers/engine.py`, `risk/limits.py`) | guardrail settings, peak equity, `capital_set_at` | change guardrails, drawdown gate | cycle | settings read before and used after a change | a change of capital is not a drawdown |
| exit plan (`engine/exits.py`) | trailing stop, locked profit, last and pending marks | `sanity_checked_mark`, the exit decision | cycle | bad ticks, ratchets, precedence of exits | the stop never loosens; one bad tick never closes a position |
| marks of open positions (`engine/scheduler.py`, `engine/cycle.py`) | the memo of one run, each row's marks | the premium source, the gates' and the exits' pricing | broker, exit plan | a broker that answers twice differently, or with an envelope nobody can read | gates and exits see one mark; one bad symbol does not stop the others |
| feed supervisor and websocket client (`engine/scheduler.py`, `broker/openalgo_ws.py`) | thread, loop, task; connection and registrations | start, stop, health check, refresh, reconnect | bar recorder, broker, API | unlocked calls from several threads; a connection that stays open and silent; a replay of a snapshot | one feed; what is registered is subscribed; a started feed ticks again |
| bar recorder (`data/recorder.py`) | open bars, flushed keys, volume baselines | `on_tick`, `flush` | bar store | late, duplicate and out-of-order ticks | a bar is written once; volume is never counted twice |
| approvals (`engine/approvals.py`) | approval rows | create, list, decide, expire | API | requests that read the same pending row | a decision is final |
| mode and live gate (`engine/state.py`, `risk/live_gate.py`, `api/routers/mode.py`) | mode, freeze, stage, registry | the check in three sessions, the switch in a fourth | API, ML, trades | what was read changes before the switch | live money is earned |
| rate limiter (`broker/ratelimit.py`) | tokens, last refill | `acquire` | execution core | bursts; a full bucket per stack | no more than capacity plus rate times the window |
| scheduled jobs (`engine/scheduler.py`) | job store in memory, stamps and logs in the database | login, recorder window, calendar refresh, ingest | everything | misfires, restarts, withdrawn holidays, the turn of the year | the day's work is caught up with, once |
| monitors and throttle (`risk/monitors.py`, `risk/killswitch.py`) | CUSUM sums, slippage sample, throttle flag | observe, update, trip, throttle | kill switch | restarts between the days | the chart is of all the days; a trip is the operator's to lift |
| sizing and domain calculations (`domain/costs.py`, `geometry.py`, `pnl.py`, `risk/sizing.py`, `regime.py`) | none | charges, exit levels, lots | cycle | rounding, boundaries, caps that compose | an order goes out whole and within its budget |
| contract resolution (`engine/contract.py`, `broker/instrument_sync.py`, `engine/strategy_config.py`) | selections, lot sizes, chain cache | sync, select, resolve, strike band | broker, cycle, feed | stale caches, syncs that fail, monthly and weekly expiries | what is traded is confirmed, and of the nearest expiry |
| strategies and indicators (`strategy/*`) | the frame of a session | `evaluate`, 25 rules | cycle, backtests | late and missing bars; three ways to build one frame | a rule decides on what was known |
| labels, features, training, gates (`ml/*`) | evaluations, trial ledger, registry, stage, predictions | label, build a row, train, register, predict, promote | nightly job, cycle | look-ahead, leakage, uncounted trials, a stage that moves under a call | learning is honest |
| market data ingestion (`data/*`) | bar store, manifest, ingest log | archive load, backfill, bhavcopy | feed, ML, labs | kills in mid-file, torn lines, overlapping files | what the manifest names is stored; copies are bounded |
| backtest labs (`backtest/*`) | none beyond a run, the trial ledger | walk, sweep, report, score; structures | bar store, ML | money of the future, survivorship, a second way to compute the same | the labs are honest |
| session audit (`audit/session_audit.py`, `api/trade_stats.py`) | none (reads the database) | rules over a day | scheduler | counts otherwise than the gates it audits; fills without a row; halts lifted by hand | the audit misses fills without a row only, and finds no entry over a cap or behind a halt nobody lifted |
| API and dashboard | none of their own | HTTP | all of the above | concurrent requests | the handlers that change state belong to the component they change |

The full list, with the status of every part, is under `components` in
`PROJECT.json`; the places where this code can go wrong in ways a unit test
would hardly reach are listed there under `hazards`, each at its line. Where the code
does go wrong at one of them, the property beside it leaves that case out by a
history variable (`raced`, `late`, `excused`, `crossed`, `disturbed`, `overlap`, a task
that died) or by the serial mode, and the hazard has a note instead of a property.

### How the parts interact

- The scheduler starts `run_once` every minute of the session (`max_instances=1`,
  `coalesce=True`). A cycle reads pause and halt, runs the entry cycle unless one
  of them is set, and then always runs the exit cycle.
- The entry cycle asks the risk gates, which read `open_positions`, `trades` and
  the halt flag and may set the flag; it calls `ExecutionManager.submit` and then
  writes the `open_positions` row in a transaction of its own.
- The exit cycle reads the open rows once, asks the exit plan about each, and
  closes through `_close_position`: SELL first, then row and trade in one commit.
  The square-off endpoint calls the same function from an API thread.
- `submit` persists the order, calls the broker, records the acknowledgement and
  drains fills. `check_inflight` and the reconciler are written to be called
  periodically, but no job calls them yet.
- The halt flag is one row, written by the risk gates, the overfill guard, the
  reconciler, the exit cycle and the operator, and cleared by the 09:05 job and
  the operator.
- The feed runs in a thread with an event loop of its own. Cron jobs, the health
  check, the relogin endpoint and the application's start-up call the supervisor;
  its ticks go to the bar recorder, and the bars it writes are what strategies,
  labels and features read.
- In the evening the ingest and the training jobs read what the day left: firings
  are labelled, models trained and registered, and the next cycle's hook picks up
  the newest one. The stage decides what a prediction may do to an entry.

There is no lock around any of this. SQLite serialises commits; what one thread
read before another committed is stale, and every module below has a step
boundary at each such place.

## 2. Modules

| module | role |
|---|---|
| `OrderLifecycle` | the execution core: submit, fills, in-flight checks, reconciliation, crashes, the venue |
| `OrderLedger` | what an order log promises; `OrderLifecycle` implements it |
| `PositionBook` | the entry cycle, the exit cycle and the square-off over the position and trade tables |
| `PositionLedger` | what a book of positions promises; `PositionBook` implements it when the cycle is alone and nothing fails |
| `HaltLadder` | the halt flag, its kind, and who sets and clears it over several days |
| `ExitPlan` | the mark filter, trail, profit lock, barriers and clock of one position |
| `BarRecorder` | ticks of one symbol into one-minute bars, with redelivery, failing writes and restarts |
| `Feed` | the supervisor's unlocked calls over the websocket client: connect, replay, publish, drop, silence |
| `Account` | guardrail saves, the anchor of the equity and the drawdown watermark against a running cycle |
| `LiveGate` | the request for live money in its four sessions |
| `Approvals` | approval rows and the requests that read and commit them |
| `RateLimit` | the token bucket of every execution stack |
| `Monitors` | slippage, CUSUM and envelope over the two layers of the kill switch |
| `Jobs` | login, recorder, calendar and ingest with catch-ups, misfires and restarts |
| `CycleMarks` | what one run of the cycle is told of the prices of its positions |
| `Sizing` | charges, exit levels and lots of one order, and what it loses |
| `Contracts` | instruments, lot sizes, expiry chains and the contract of a signal, over days |
| `Signals` | every rule of the strategy library on the three frames it may be given |
| `Labels`, `Features`, `Training`, `Maturity` | what a model learns from, is asked with, how it is trained, and what it may do |
| `Audit` | the day's audit beside the gates it audits |
| `Lab`, `Structures` | the strategy lab with its sweep, report and scoring; the iron fly and the credit spread |
| `Archive` | the option archive's loader, its manifest and the other writers of the bar store |
| `MCDesk`, `MCResearch` | small components that share no state, run side by side, one per behaviour |
| other `MC...` | the small instances TLC checks |
| `...Proofs` | the theorems; `DeskProofs` is about the components of `MCDesk`, `LabProofs` about `Lab` and `Audit`, `ResearchProofs` about the other components of `MCResearch` |

`PositionBook` and `HaltLadder` each see of the other only what they need: to the
book the halt flag moves by itself (`HaltMoves`), to the ladder a position is one
of four words. `ExitPlan` is the detail behind the book's choice between `Hold`
and `FireExit`, `CycleMarks` behind the quotes `ExitPlan` is given, `Sizing` and
`Contracts` behind what a signal buys, and `OrderLifecycle` behind the book's
`SubmitBuy` and `Sell`. `Feed` decides which ticks `BarRecorder` loses or sees again;
`Signals`, `Labels` and `Features` read the bars it stored, nothing writes back.

The two composed modules choose a component in the initial state (`desk`, `bench`)
and let only that one move, so that their state spaces add up. Two modules are
only in one of them when they share no variable in the code either.

Definitions that are not reached from a specification (`...Unguarded`, `...Raw`
and the like, beside the one they resemble) are plausible wrong versions of the
code; a property is only kept if TLC finds it violated when one of them is put in
place of the right one. `PROJECT.json` lists them under `mutants`.

### OrderLifecycle

One step per append to `order_events`, per broker call and per read that a later
append relies on. The log of an order is kept as its fold (`fold` in
`domain/orders.py`): status, filled quantity, venue order and the trade ids seen.

| variable | code |
|---|---|
| `status`, `filled`, `applied`, `attached` | `fold(events)` of the order and the venue trade ids in its events |
| `halt` | the persisted flag, labelled by who set it last |
| `pc` | how far `submit` has come for each order |
| `backlog`, `pending` | the reports `drain_fills` iterates over, and what `on_fill` decided before it appends |
| `check` | the local variables of a running `check_inflight` |
| `venue`, `vfilled`, `tape` | the venue, the environment |

- `PlaceOrder` has the three outcomes of the network: taken and acknowledged,
  taken and the acknowledgement lost, not taken. An exception ends `submit`; the
  code does not retry.
- Fills are redelivered by construction: `ReadFills` reads everything the venue
  has, as `fill_reports()` does. `FillFails` is the `except` of `drain_fills`.
- `TagLookup` chooses the broker: one that echoes the client id and has
  `query_order`, or one that has neither, so that `match_pending_order` goes by
  symbol, side, quantity and time. `Alike` is that likeness; it is reflexive or
  not, as the time window may miss the order itself. `lifecycle_tagged` has the
  tags, `lifecycle_shapes` has none and two orders that cannot be told apart.
- `Concurrent` says whether `check_inflight` or the reconciler may run while a
  `submit` is running. No job calls them yet: `check_inflight` is "callable
  directly (e.g. from a manual/ops script or a test)" and meant to become a
  recurring job of the scheduler (`execution/manager.py:257-262`). By hand between
  cycles is the serial mode, the job beside the cycle the overlapping one. Both
  runs are serial; of the overlapping mode only the theorems `TypeCorrect` and
  `IntentIsDurable` speak, since the code does not keep the rest there.
- Two managers do not share a broker here, and `reconcile` is one atomic step: its
  reads are all done before its only write, which is the halt.
- Trades have an identity given by the venue; the fill `check_inflight` books has
  the synthetic one of the code, `<venue_order_id>-resolved`.

### PositionBook

One session in dry-run mode, in which the simulated broker of each call fills at
once, so BUY and SELL are single steps. One step per commit and per query whose
result is used after another thread could have written. `target` is what an actor
has in hand between finding a position and writing it.

- `RiskGates`, `Evaluate`, `CountTrades`, `InstrumentGates`, `SubmitBuy`,
  `BookEntry` are the entry cycle in its order. `underlying_entries_today` runs
  two queries; they are two steps, and a row closed between them is counted by
  both. The gates look at rows, not at fills, and are done before the order is
  sent: `FillsWithinLimits` is what has to come out of that.
- `ReadRows` is the exit cycle's one query; `Hold` and `FireExit` are left to
  chance except past the hard exit, where a priceable position must close.
- `SquareOff` takes any open priceable row: the two look-ups before it change
  nothing.
- `Fail` ends any actor before its next step: an exception leaving the handler or
  the death of the process. Fills and commits stay, the rest is gone.
- Pauses, halts, strategy signals, contract look-ups, the losing-streak cool-down
  and the ML veto are nondeterministic choices at the place where they are asked.

### HaltLadder

The flag has three values: none, daily (`DAILY_LOSS_HALT`), and any other, which
needs a person. `owed` remembers that a halt for a person was set and no operator
has been there since; it is what `HumanHaltStays` compares the flag with.

- `PortfolioGates` keeps the order of the gates: the daily loss is looked at
  first, so the drawdown is not looked at when it halts.
- `VisitUnpriced` is the branch of `run_exit_cycle` for a position without any
  mark; past the hard exit it halts for a person *if there is no halt yet*.
- `DailyReset` is the 09:05 job. `Misfires` says whether it may be missed: it is
  an APScheduler job with the default grace of one second and no catch-up.
- `OperatorReset` may come at any moment but between a write of the exit loop and
  its commit.
- `Tick` assumes that the last cycle of a day runs past the hard exit: the cron
  window goes on for several minutes after it. What happens when no cycle runs at
  all is listed as a hazard.

### ExitPlan

A position row with entry, initial stop, target, optional trail and optional
profit lock. Prices are paise, time is counted in cycles.

- `Accept`, `Marked`, `Quarantined` are `sanity_checked_mark` with the two row
  updates that follow it: a quote far from the last mark is put aside, unless it
  agrees with the one put aside before.
- `Trailed`, `Rung`, `NewStop`, `Reason` are `evaluate_position` in its order:
  clock, target, ratchets, stop.
- `Sell` can fail after the marks were committed; the row stays open and the next
  cycle tries again (`retry`).
- `seen`, `lockedAt`, `retry` and `exit` are history: no guard but a property
  reads them.
- The quotient in `_next_profit_lock_rung` is a 28-digit decimal in the code and
  truncated here at the last step; for prices in paise the comparison with a price
  has the same result up to the paisa that `LockNeedsAFullStep` allows.

### BarRecorder

All tables of the recorder are keyed by symbol, so one symbol is enough. What the
exchange sends is a *tape* of ticks in order, each with its minute, all that was
traded up to it (`Total`) and what of that belongs to earlier sessions (`Base`);
the broker reports the difference (`Reported`). Ticks are named by their place on
the tape, so a bar is its minute and the two ticks its volume is measured between.
Prices are left out: open, high, low and close are the first, extreme and last of
a set of ticks, and no property here is about them.

| variable | code |
|---|---|
| `bars`, `flushed`, `latest` | `_open_bars`, `_flushed_keys`, `_last_cumulative_volume` |
| `store` | the rows of `BarStore`, with the process that wrote them |
| `pos`, `high`, `gap`, `late` | the feed, the environment: where it is, how far it has been, the last tick that was lost, and whether a lost tick has been delivered after all |

- `OnTick` is the whole handler: flush the bars of earlier minutes, ignore a tick
  of a written minute, otherwise open or extend a bar. Several due bars are written
  one at a time in the order of a dict; `Raises` leaves open which of them were
  written before the append that failed, any proper subset.
- `OnTickRaises`: a failing append ends `on_tick` before it looks at its tick, and
  `OpenAlgoWSClient.run` logs the exception and drops the tick. It counts as lost.
- `Lose` is a tick sent while the connection is down, `Replay` the "redelivered
  history" the recorder's docstring speaks of. `FlushAll` is what `stop()` calls.
- `Restart` is a new process: the recorder's memory is empty, the rows stay.
- The counter of consecutive failed flushes only decides how loud the log is and is
  left out.

### Feed

A feed is a number: a thread with its event loop and, once it has booted, a task.
`feed` says how far each is; the supervisor only holds references (`thread`, `task`,
`live`), and a `Restart` forgets them all.

- `StartChecks` and `StartLaunches`, `StopChecks` and `StopCloses` are the halves of
  `start()` and `stop()` around the point where another thread may run. Between the
  launch and `Boot` the loop exists and the task does not.
- `Connect` takes the snapshot of the registrations and subscribes it; `Publish`
  makes the connection visible to `set_dynamic_subscriptions` (`RefreshLands`).
  `raced` marks a resolution that landed between the two.
- `LoseAdapter` and `ReloginBroker` silence an open connection: nothing drops, no
  tick comes. `CheckFeedHealth` is the five-minute job that bounces such a feed.
- `Die` ends a task with an exception `run()` does not retry.
- `Overlaps` lets calls of start and stop overlap, and `overlap` remembers that they
  did. The code has no lock that would keep one feed, so the properties speak of the
  time before that; the run leaves such behaviours out, the theorems do not.

### Account

`stored`, `since` and `peak` are the guardrail rows, `capital_set_at` and the
watermark; `cycle` is what `run_once` read of them before it asks for quotes.
`Save` clamps, saves, moves the anchor when capital changed and clears the watermark.
`top` is the true maximum of the equity since capital last changed and is what
`NoFalseDrawdown` measures a halt against. `excused` marks two situations the code
does not guard against: a save between a cycle's read and its gates, whose cycle
writes a watermark of the old capital; and the first save of all, over the
watermark the seed has left (`engine/state.py:484`).

### LiveGate, Approvals, RateLimit, Monitors, CycleMarks

- `LiveGate`: `Asks`, `ReadsRecord`, `ReadsStage`, `ReadsRest` and `SwitchesLive` are
  the sessions of `POST /api/mode`. A day is its net and whether it ran at gating;
  `Earned` restates the evidence from the days themselves. `disturbed` remembers a
  change under the request.
- `Approvals`: a request takes its clock, reads rows and commits; the last commit
  wins. `crossed` holds the rows that two requests had both read as pending.
- `RateLimit`: time in polls, tokens in the share of one a poll refills. Every stack
  starts with a full bucket, and every cycle and square-off builds a stack.
- `Monitors`: `switch` is the kill switch in its two layers, the flag of the process
  and the row. `Reboot` keeps the second and the chart's sums. `owed` remembers that a
  monitor halted and no operator has been there since.
- `CycleMarks`: the premium source of a run asks the broker once per contract
  (`asked`), the gates price every row, entries may open rows, the exits price the
  rows again. `Checked` is `sanity_checked_mark`, here on both sides of the cycle.
  A contract has at most one row.

### Jobs

A date has five slots. `Merged` and `Calendars` are the stored calendar and what a
fetch does to it; `fetched` remembers the last list read of each year, so that a
holiday withdrawn, a session moved and a second year fetched in December can be told
apart. Rows and log of an ingest are two commits (`unlogged`); a crash in between
stores the rows again, which the upsert makes harmless.

### Sizing and Contracts

- `Sizing` is one order: `Ticket` translates charges, geometry, `size_position`, the
  multipliers and the freeze cap in the order of `run_entry_cycle`, and `Leaves` the
  net result at the stop or the target. The rates are the rows of
  `config/charges.yaml`, amounts are rounded as the decimal code rounds them.
- `Contracts`: what the broker lists, the cache of expiry chains, lot sizes per month
  and the operator's selections, over days and restarts, with a broker that may
  refuse any call. `LotIsConfirmed` and `OfTodaysChain` hold in spite of the caches.

### Signals

One session minute by minute. A frame can be read afresh (`BarsAsof`), extended
(`Extended`) or cut from a whole day (`VisibleAt`); `SameFrame` says when the three
agree. A selection is by a set of bars (`Only(f, some)`), and what is smoothed along a
frame is a recursive function on its bars (`Ewm`, `SuperTrend`). Every rule of the library is an operator on a frame; averages are integers of
`1/Unit` of a point. `OncePerCrossing` is about the ten rules that compare with
the bar before; the others are level-triggered in the code and not part of it. It
speaks of minutes whose frame has changed: a rule asked twice about one frame says
the same twice. A bar comes in on time, a minute late or never.

### Labels, Features, Training, Maturity

- `Labels`: an index bar is recorded at its minute or stays behind (`overdue`). The
  recorder writes it later with the time it came in (`Deliver`), a backfill stamped with
  its own close (`BackfillIndex`), so that an as-of reading of the past then sees it. The
  option's prints are recorded, or lie in the archive (`shelved`) until its contract is
  loaded (`LoadContract`), stamped the same way. Firings are labelled on the
  index or on the premium of the nearest contract the store has (`stocked`), and a run
  keeps what it `read`. `FirstTouch` is the walk, with
  the stop first in a bar that meets both. A put is walked on the mirrored index. A
  tape is a set of bars, each with its minute. The bars of all calls are one tape, and a
  backfill that overlaps what is stored, and appends a minute twice, is left out.
- `Features`: daily closes and contracts come in by fetches and backfills; each
  process reads a series once per date and keeps it. `past` records what a process
  first saw; two rows of a day are compared under the same past.
- `Training`: `Folds` with purge and embargo, an inner search whose every trial is one
  append to the ledger, a registration at the end, and a provider that reloads when
  the newest id changes. The job and the cycle are two threads; a crash leaves the
  ledger. An estimator's quality is a choice.
- `Maturity`: the hook reads the stage once and keeps it (`StageOfCall`), influences,
  logs a row, and the entry multiplies. `set_stage` is two steps, as the stage it
  moves from is read in a session of its own (`BeginMove`, `WriteStage`): calls
  overlap, die in between, and may write two rows that leave the same stage.
  `promote_model.py` looks at the stage before it calls it.

### Audit, Lab, Structures, Archive

- `Audit`: gates and audit count the same day with different queries; the properties
  compare the two, and the drawdown shown with its definition. A cycle passes the loss
  gate, passes the gates of an underlying, submits and writes the row in steps of their
  own, and may die after each, so that an order can fill and have no row
  (`fills.lost`), or have a row and no fill. Other halts, square-offs and the
  operator's reset come at any moment between. `AuditMissesNothing` says by which rows
  the audit is off the day's fills, `GatesPassTheAudit` that an entry behind a daily-loss
  halt has an operator's reset between the two. The stand-down after
  losses is asked on the way in only, so what is open may carry a streak further:
  `StreakIsBounded` says how far, on days whose trades close one by one and are the
  day's own.
- `Lab`: the walk of `run_many` under the risk limits and the replay of `sweep.py`,
  which has no walk, compute the same account (`ReplayAgrees`). Both are written as
  recursive functions over sets: what is due, or the events there were, is the last of
  them after all the others, and "last" is the code's sort key (`ResolvesBefore`,
  `EventBefore`). The report and the scoring read what they leave. A trial's Sharpe ratio is an integer, the bar it is
  judged by the three statistics it is computed from.
- `Structures`: `WalkFly` and `WalkSpread` over what the legs printed. The causality
  property cuts the session and walks again.
- `Archive`: a file is read, appended in parts and recorded as one line of the
  manifest; a kill may come anywhere, in the middle of the line too. Rows are a bag.

## 3. What is checked

The longest run (`research`) takes about two and a half minutes on two workers and has
1 067 424 states, the next some 25 seconds. `P` marks properties of actions or liveness.

| run | instance | checks |
|---|---|---|
| `lifecycle_tagged` | a BUY and a reduce-only SELL of two lots, tag lookup, no overlap | `NoOverfill`, `LocalFillsAreReal`, `ImplementsLedger` (P) |
| `lifecycle_shapes` | two like SELLs of one lot, no tags, no overlap | `PersistedBeforeNetwork`, `OnlyLostOrdersAreMistaken` |
| `book_serial` | four positions on three underlyings, no requests, no failures | `ImplementsLedger` (P) |
| `book_failures` | the same, one square-off, one failure | `WithinLimits`, `TradesHaveSells`, `PastHardExitCloses` (P) |
| `book_short` | three positions, one square-off, no failures | `NeverShort` is violated |
| `ladder_days` | three days, two positions, two resets, misfires | `HumanHaltStays`, `YesterdaysHaltIsGone`, `UnpricedIsNoticed` (P) |
| `ladder_overnight` | as `ladder_days` | `OverdueBlocksEntries` is violated |
| `exit_plan` | five plans, thirteen quotes, seven cycles | `HeldInsideBand`, `PriceExitIsVouched`, `PriceExitIsFresh`, `StopIsARatchet` (P), `DueExitsFire` (P) |
| `feed` | one session, four threads, two bands of strikes, two faults, calls that do not overlap | `OneFeed`, `RegisteredIsSubscribed`, `FeedComesBack` (P) |
| `desk` | eight components, one per behaviour | `NoFalseDrawdown` (P), `LiveIsEarned` (P), `DecisionIsFinal` (P), `BurstBound`, `OneMarkPerCycle`, `MonitorsOutlive`, `JobsCatchUp`, `StoreCountsOnce`, `FailedFlushKeepsBar` (P) |
| `marks_abort` | as `desk`, the marks alone | `ExitsAreManaged` is violated |
| `research` | eleven components, one per behaviour | `EntryKeepsItsWord`, `TradedIsConfirmed`, `SignalsAreCausal`, `LabelsAreHonest`, `FeaturesAreOfTheMoment`, `TrainingIsHonest`, `InfluenceIsEarned`, `AuditIsIndependent`, `LabIsHonest`, `StructuresAreHonest`, `ArchiveIsSound` |

Some properties are conjunctions of named parts, each with its own comment in the
module that defines it:

| property | parts |
|---|---|
| `WithinLimits` | `RowsWithinLimits`, `FillsWithinLimits` |
| `StopIsARatchet` | `StopNeverLoosens`, `LockNeedsAFullStep` |
| `DueExitsFire` | `AgreedBreakoutCloses`, `TimeExitFires` |
| `StoreCountsOnce` | `OneRowPerMinute`, `NoTradeCountedTwice` |
| `MonitorsOutlive` | `ChartIsOfTheDays`, `TripIsKept` |
| `JobsCatchUp` | `CaughtUp`, `CalendarIsLatest`, `DoneIsStoredOnce` |
| `EntryKeepsItsWord` | `PlanStands`, `WithinBudget`, `CapIsNet` |
| `TradedIsConfirmed` | `OfTodaysChain`, `LotIsConfirmed`, `ControlNeverTrades`, types |
| `SignalsAreCausal` | `SameFrame`, `OncePerCrossing`, types |
| `LabelsAreHonest` | `LabelIsSettled`, `DirectionsMirror`, `WinsSurvive`, `WeightsShareTime`, types |
| `FeaturesAreOfTheMoment` | `SameRow`, `WindowsAreWhole`, `DteIsListed`, types |
| `TrainingIsHonest` | `TestIsUnseen`, `TrialsAreCounted`, `ServedIsLatest`, types |
| `InfluenceIsEarned` | `EffectIsOnRecord`, `NeverLarger`, `StageIsOnRecord`, types |
| `AuditIsIndependent` | `AuditMissesNothing`, `GatesPassTheAudit`, `StreakIsBounded`, `DrawdownIsWorst`, types |
| `LabIsHonest` | `NoMoneyFromTheFuture`, `ReplayAgrees`, `ReportIsOfTheAccount`, `JudgedAlike`, types |
| `StructuresAreHonest` | `WalksAreCausal`, `LossWithinWings`, `NoSurvivorship`, `SessionsAreCounted`, types |
| `ArchiveIsSound` | `ManifestIsBacked`, `CopiesAreBounded`, `OneVendor`, types |

The type invariants of the other modules are theorems (below) or stated in the
module (`...TypeOK`) without a run.

### Bounds, and why they are enough

- *Two orders.* The per-order code never looks at a third order; two are needed
  for a wrong match, for the reconciler's net and for a fill drained by another
  order's `submit`. Two lots make partial fills possible; an overfill needs one
  trade after the order is full, which redelivery gives with one lot.
- *Four positions on three underlyings* with `MaxOpen = 1`, `MaxTrades = 2`,
  `MaxPerUnderlying = 1`: two positions share an underlying, so each of the three
  limits is the binding one in some state. One position of them has no price.
- *One square-off, one failure.* Both hazards on closing need one actor beside
  the cycle. Sums over more are covered by the theorems, which hold for any number.
- *Three days* let a halt be set on one, hidden by another on the next and cleared
  on the third; two resets let an operator come both before and after.
- *Thirteen quotes* lie on and beside every level, rung and jump of the five plans
  (see `MCExitPlan`); seven cycles are the two of a confirmed jump, a second rung,
  a failed sale with its retry, and the cycles past `MaxHold` and `HardExit`.
- *Six ticks in three minutes*: a bar that is first in the process, one that measures
  from its predecessor, and one of a new session, each with a second tick to be lost
  or redelivered on its own. Two redeliveries bring back a tick twice; one restart
  meets rows of an earlier process.
- *Four threads and two faults* of a feed: more threads than are ever referred to at
  once, so that a stale reference would meet a new thread; a relogin that silences
  what a drop has just replaced. The theorems hold for any number.
- *Two saves and two trades* of an account: a save before and one during a cycle, and
  an equity that rises before it falls.
- *Three days* of the live gate with two asked for: one before the freeze or the
  promotion, two after.
- *Five dates over a turn of the year*, two of them Sundays with a refresh, two that
  may hold a special session, two starts of the process: a list that changes between
  two fetches, and a year that begins before its list is there.
- *Two rows and three cycles* of marks: a mark put aside, confirmed, and used; a row
  opened between gates and exits.
- *Thirty-six premiums* of `Sizing` lie closely where the rupee geometry's charges and
  the paisa rounding decide, and make each cap of the size the binding one; the rate
  rows, both exchanges and both geometries are tried with each.
- *Six minutes* of `Signals`: the range is made, left and left again, and each moving
  rule has at least two values.
- *Five rows, two nights* of `Training`: three outer folds and two inner ones all have
  rows on both sides; a second night meets a ledger that is not empty.
- *Three loads* of `Archive`: a kill, a kill of the repetition, and a load that ends.
- *Two days* of `Audit` and `Lab`: a position carried over the night, a halt and its
  morning. The audit's book begins on the last minute of its first day and goes on for
  the second; its cap is one loss: with two
  positions open that is enough to pass the cap by one, and to be at the bound. One
  reset and one mishap (`MaxClears`, `MaxMishaps`) let an entry be behind a lifted halt,
  a fill be without a row, and a row without a fill. The underlyings are symmetric
  (`InstrumentsAreAlike`).
- *Two moves of the stage* by two callers, and one made by hand (`Callers`,
  `HandStages`): enough for two calls that read the same stage, and for a move between
  the script's look and its write.
- *One bar that stays behind* in `Labels`, two evaluations, and one run, whose labels are
  compared with what the store says of the same firings ever after: before and after the
  bar is delivered, backfilled or loaded.
- `CHECK_DEADLOCK FALSE` in `ExitPlan.cfg`, `Desk.cfg`, `MarksAbort.cfg` and
  `Research.cfg`: a closed position is never touched again, and the tapes, days and
  counts of the small components end.

### Fairness

Three specifications state fairness. `PositionBook` and `HaltLadder` have weak
fairness of the paper cycle as a whole (`WF_vars(CycleStep)`). The code justifies
it by the cron job of every minute (`engine/scheduler.py`), which runs in one
instance, is never removed, and catches what a cycle raises, so that the next
minute starts another one; and a running cycle is straight-line code over finite
lists. Nothing is assumed of the API, the operator, the venue, the 09:05 job or
the clock. In `PastHardExitCloses` the cycle may fail `MaxFailures` times.
`ExitPlan` needs none: `TimeExitFires` is about the step that is taken.

`Feed` has weak fairness of the calls under way, of the five-minute health check and
of time (the two ages it compares): straight-line code, an interval job and the
clock. Booting, connecting, publishing and ticking have strong fairness, since the
health check's bounce can disable each of them again and again: it assumes that of
the attempts that come again and again one succeeds, that is, that no outage of the
broker is for ever. `FeedComesBack` makes no promise when a task died, when calls
overlapped or when the window is over, because the code does not.

### What the violated runs show

Each states a sentence of the repository about itself, which the code does not
keep. The exact quotes are under `findings` in `PROJECT.json`.

1. `book_short`: the exit cycle and the square-off both read an open row; both
   SELL. `reduce_only` is a field nobody checks.
2. `ladder_overnight`: a daily-loss halt hides the halt an unpriceable position
   needs, and is cleared at 09:05; entries go on with the position still open.
3. `marks_abort`: an answer of the broker that `quotes()` cannot read, met while the
   entry gates price the open positions, ends the whole run before its exits.

### Further differences between text and code

Seen while translating, without a run of their own.

Orders, positions, halts:

- `execution/inflight.py:48` attaches an order to the single venue order of its
  shape, also when that belongs to another local order; its docstring (14-17)
  promises to refuse a guess. An order that was lost on the way can so take a sister's
  venue order, and book the sister's fill. `OnlyLostOrdersAreMistaken` says that only
  a lost one can: with both at the venue the match is ambiguous and refused.
- `check_inflight` books a fill under an id of its own making and without the overfill
  guard (`execution/manager.py:279`). When the venue's own trade arrives it is not
  recognised as the same and the engine halts for an overfill that did not happen;
  when the check overlaps a `submit`, an order can fold past its quantity, and
  `SerialNoOverfill` has `~Concurrent` as a hypothesis. A check that dies between its
  two appends leaves an order that is no longer looked at.
- A failure between the BUY and the row of the position leaves a position without an
  exit plan, for good.
- The 09:05 job has no misfire grace (`engine/scheduler.py:1352-1358`), so a busy
  scheduler can skip it, and yesterday's halt then stands for the day. This is
  why `YesterdaysHaltIsGone` speaks of days on which the job ran.
- `engine/cycle.py:981-987` says of the halt for an unpriceable position "Once, not
  once per cycle". After an operator clears it the next cycle sets it again.
- In live mode `run_once` returns before the exit cycle, so positions opened in
  dry-run mode are no longer managed.
- In a market that moves more than the confirmation band each cycle, every reading is
  put aside in favour of the next, and the stop does not fire.
- After a SELL failed, a quote in quarantine can exit the position again at the
  older mark (`engine/cycle.py:941`); `PriceExitIsFresh` excepts the retry.
- A reset of the drawdown breaker clears the halt and not the watermark.

Feed, bars and jobs:

- `data/recorder.py:186-188` says the volume baseline "can never be dragged backwards
  by redelivered history". It is, by the redelivery of a tick of the minute that is
  still open, where it does no harm, and by a tick that was lost (or dropped by a
  failed flush) and arrives late: its minute was never written, so it opens a bar of
  the past, whose volume is clamped to the session's total, and the next bar measures
  from behind. This is why `NoTradeCountedTwice` speaks of runs that are not `late`.
- The written minutes are kept in memory only. A restart within a minute that
  `stop()` has flushed writes a second row of it; `OneRowPerMinute` speaks of one
  process.
- At 15:35 the stop job and the health check can coincide and leave the feed up; a
  second stop on a closed loop raises. Both need overlapping calls.
- On a special session that is not a weekday a running process gets no login, no
  recorder, no cycles and no 15:35 stop: the cron expressions name weekdays.
- `engine/scheduler.py:462-468` says that crossing 1 January unclassified is a full
  stand-down; a stored calendar of another year classifies every weekday as a session.
- A bhavcopy parsed to no rows is logged as a success and not tried again, and a day
  that was missed is not ingested on a later one.

Gates and monitors:

- `CusumMonitor`, `DrawdownEnvelope`, `create_approval`, `set_params_frozen_at` and
  `clear_throttle` have no caller in production; the live gate's slippage sample is
  read for "NIFTY" while fills are stored under the contract's symbol. As long as this
  is so, live mode cannot be unlocked.
- A slippage sample whose divergences are all equal has no deviation and never breaches.

Signals, models and labs:

- `strategy/breakout.py:3` says every rule there is edge-triggered. Donchian and the
  range expansion are not, nor are the RSI, stochastic and stretch rules.
- The docstring of `_session_frame` says that the cache can never change a decision.
  A bar that comes in late or is rewritten is skipped by the kept frame, and a prebuilt
  frame does not look at when a bar came in. `SameFrame` speaks of bars on time.
- `data/history_backfill.py:24-25` and `data/option_history.py:30-34` stamp what they load
  as known at its own close, so a label given before the load need not be the one
  given after it. `LabelIsSettled` names the three ways this can happen.
- `set_stage` reads the stage it moves from in another session (`ml/gates.py:164`): two
  overlapping calls can both write a row that leaves the same stage, so the history of
  `ml_maturity_state` need not be gapless. `StageIsOnRecord` says what it is.
- `audit/session_audit.py:49-61` says of the entry ledger that "the row exists from the
  instant of entry". It is written after the order, in a transaction that may fail.
- The nightly job prices every index label at the rates of 1 January 2024
  (`ml/nightly.py:140`), though the scheduler says each firing is priced at its own.
- Daily bars come only from a script; a repeated backfill appends them twice and the
  trailing window then has fewer sessions (`ml/dataset.py:266-280`). A late or backdated
  fetch makes training rows differ from live ones, against `dataset.py:5-9`.
- The scope of the inner trials names the number of rows, so the count restarts when
  the sample grows; on a weekday holiday the job doubles it on the same sample.
  `train_meta_model.py` prints the trials of a scope nothing writes.
- `backtest/sweep.py:283-285` says an exit and an entry on the same minute settle the
  exit first; the entry sorts first. `ReplayAgrees` excepts such minutes.
- `data/option_history.py` says a key per file keeps rows apart; spot files of
  consecutive expiries overlap, and the shared minutes are stored once per file. A
  torn line of the manifest swallows the next record as well, so a contract can be
  loaded three times. `CopiesAreBounded` says how far this goes.
- `audit/session_audit.py` says of a losing streak over the cap that "the losing-streak
  stand-down did not stop new entries". Two positions that are open together may both
  lose after the last entry, and the day is reported so though every gate worked.
  `StreakIsBounded` is what the gates do promise. Of trades closed in one instant the
  gate and the audit see opposite orders (`risk/limits.py:212`).
- `config/charges.yaml` says the loader sorts the rows; the cost model does.
- The straddle's wing bound leaves out a short that was bought back early while its
  wing decays; `LossWithinWings` excepts it.

## 4. What is proved

TLAPS checks every leaf. The theorems hold for every value of the constants that
the named assumptions (`ASSUME` in the modules) admit; TLC evaluates these on
every run.

| theorem | statement | argument |
|---|---|---|
| `OrderLifecycleProofs!TypeCorrect` | `Spec => []TypeOK` | one case per action |
| `SerialNoOverfill` | without overlap `[]NoOverfill` | `IInv` |
| `LogImplementsLedger` | without overlap `Spec => Ledger!Spec` | `IInv`, one case per action |
| `IntentIsDurable` | `[]PersistedBeforeNetwork`, in every mode | `LogInv` |
| `MistakenWereLost` | without overlap `[]OnlyLostOrdersAreMistaken`, with tags or without, if each order lies in its own time window | `ShapeInv`, `IInv` |
| `TaggedFillsAreReal` | with tags and without overlap `[]LocalFillsAreReal` | `IInv`, `RealInv` |
| `PositionBookProofs!TypeCorrect` | `Spec => []TypeOK` | one case per action |
| `LimitsHold` | `[]WithinLimits`: of the rows with any requests and failures, of the fills with any requests | `RowInv`, `FillInvYet` |
| `TradesAreBacked` | `[]TradesHaveSells`, any requests and failures | `SellInv`, `RowInv` |
| `SerialNeverShort` | without requests and failures `[]NeverShort` | `SerialInv`, `RowInv` |
| `BookImplementsLedger` | without requests and failures `Spec => Ledger!Spec` | all of these |
| `HaltLadderProofs!TypeCorrect` | `Spec => []TypeOK` | one case per action |
| `HumanDecides` | `[]HumanHaltStays` | inductive as it stands |
| `DailyHaltIsDaily` | `[]YesterdaysHaltIsGone` | `DailyInv` |
| `ExitPlanProofs!TypeCorrect` | `Spec => []TypeOK` | one case per action |
| `StopIsRatcheted` | `StopIsARatchet` | `LockInv` and the arithmetic of the truncated rung |
| `DueExitsAreTaken` | `DueExitsFire`, any plan, quotes and filter | `ReadingInv` |
| `HeldBetweenLevels` | `[]HeldInsideBand` | `HoldInside` |
| `ExitsAreVouched` | `[]PriceExitIsVouched` | `VouchedInv` |
| `ExitsAreFresh` | `[]PriceExitIsFresh`, when the lock's buffer of any quote is at least a paisa | `HeldStaysHeld`: a held position judged again by the mark it was held at is held again |
| `FeedProofs!FeedTypes` | `Spec => []TypeOK` | one case per action |
| `FeedIsOne` | `[]OneFeed`, any faults | `FeedInv` |
| `FeedIsSubscribed` | `[]RegisteredIsSubscribed`, any registrations | `FeedInv` |
| `DeskProofs!RecorderTypeCorrect` | `Spec => []TypeOK` of `BarRecorder` | one case per action |
| `BarsAreKept` | `FailedFlushKeepsBar` | `TypeOK` |
| `StoreIsCountedOnce` | `[]StoreCountsOnce`, any tape, replays, failures, restarts | `KeysInv`, `TapeInv` |
| `DrawdownIsReal` | `NoFalseDrawdown`, any trades, marks and saves | `AccountInv` |
| `ApprovalTypes` | `ApprovalSpec => []ApprovalTypeOK` | `ApprovalInv` |
| `DecisionStands` | `DecisionIsFinal`, any rows and requests | `ApprovalInv` |
| `LiveHasToBeEarned` | `LiveIsEarned`, any number of days | `GateInv` |
| `TripStays` | `[]TripIsKept` | inductive with the types |
| `ChartHolds` | `[]ChartIsOfTheDays`, any days and restarts | `ChartInv` |
| `MonitorsLast` | `[]MonitorsOutlive` | the two above |
| `BurstsAreBounded` | `[]BurstBound`, any number of stacks and orders | `LimitInv` |
| `DayIsCaughtUp` | `[]JobsCatchUp`, any dates, lists, failures, restarts | `LoginInv`, `CalendarInv`, `IngestInv` |
| `MarksAgree` | `[]OneMarkPerCycle`, any answers and filter | `MarksInv` |
| `ResearchProofs!EffectHasItsRow` | `[]EffectIsOnRecord` | `MaturityInv` |
| `ModelOnlyShrinks` | `[]NeverLarger` | `MaturityInv` and a bound on products |
| `StageHasItsRow` | `[]StageIsOnRecord`, any number of overlapping calls | `RecordInv` |
| `InfluenceStaysEarned` | `[]InfluenceIsEarned` | the three above |
| `OrdersKeepTheirWord` | `[]EntryKeepsItsWord`, any premium, lot, capital, multipliers and rates | `SizingInv`, `StopIsNet` |
| `WhatIsTradedIsConfirmed` | `[]TradedIsConfirmed`, any listings and answers | `ContractInv` |
| `TrainingStaysHonest` | `[]TrainingIsHonest`, any grids, rows and crashes | `TrainingInv` |
| `WhatIsNamedIsStored` | `[]ArchiveIsSound`, any files and kills | `ArchiveInv` |
| `StructuresStayHonest` | `[]StructuresAreHonest`, any chains, prices and sessions | `StructureInv`, `FlyIsCausal`, `SpreadIsCausal` |
| `FeaturesStayHonest` | `[]FeaturesAreOfTheMoment`, any closes, windows, fetches, restarts | `FeatureInv` |
| `LabelsStayHonest` | `[]LabelsAreHonest`, any tapes, delays, backfills, loads and evaluations | `LabelInv` |
| `SignalsStayCausal` | `[]SignalsAreCausal`, any levels, spans and periods; bars missing or one minute late | `SignalInv`, `CrossingsOnce`, `AllIsSeenInTime` |
| `LabProofs!LabStaysHonest` | `[]LabIsHonest`, any limits, outcomes, days and trials | `LabInv`, `ReplayEnds`, `ReportEnds` |
| `GatesAndAuditAgree` | `[](AuditMissesNothing /\ GatesPassTheAudit)`, any limits, books, halts, resets and lost rows | `AuditInv`, `GateSeesTheEntries` |
| `AuditStaysIndependent` | `[]AuditIsIndependent`, any limits, books, halts, resets and lost rows | `AuditInv`, `StreakInv`, `DrawdownIsTheDeepestFall` |

### The inductive invariants

- `IInv` (`OrderLifecycle`). `NoOverfill` is not inductive: `on_fill` decides before
  it appends, and `check_inflight` appends without deciding. What carries it is
  that what was read is still so. `FoldInv` ties status to quantity (`FILLED` if and
  only if the whole quantity is filled), `CallInv` says where a running `submit` has
  left its log, `PendingInv` that a verdict is the one `on_fill` would reach now,
  `CheckInv` that an order being checked is still untouched, so that a complete
  report adds the whole quantity to zero. `CheckInv` is what fails when calls
  overlap.
- `LogInv` says that an order at or past the network call is in the log, and
  `ShapeInv` that an order is attached to nothing before its own call has reached the
  venue, and that what a check has in hand is the order's own venue order or that of a
  sister of an order the venue never had, whose call is over.
- `RealInv` carries `LocalFillsAreReal`, which compares sums over the venue's tape with
  sums over the log. Instead of working out the sums, `Weighs` says what
  a weighing of the sets of trades is (nothing weighs nothing, one trade more weighs its
  quantity more), and the invariant says that there *is* such a weighing in which all
  trades of an order weigh what the venue says and those booked what its log says, unless
  both say the whole quantity. A new trade extends the weighing. `CompleteInv` says that
  a check that holds a complete report holds that of a filled order.
- `RowInv` (`PositionBookProofs`) says what each earlier reading still guarantees
  when the row is written: `CountIsEnough` that the open rows counted first and
  the trades there are now are together no fewer than the entries on the
  underlying, because a row that was closed in between has a trade; `UnderlyingHasRoom` and `BookHasRoom` that a gate once passed
  stays passed, because only the cycle opens rows and closing makes room.
- `SellInv` (`PositionBookProofs`): the trades a position has and the closes in hand
  that have sold and not yet booked are together no more than its SELLs. Counting the
  trades alone is not inductive: `BookClose` would have nothing to spend. The other
  conjuncts say that an entry is booked where no row and no trade is yet.
- `FillInvYet` carries this over to fills while nothing has failed: what is bought
  has a row or is about to get one, and what is closed has been sold. This is the
  point where a failure breaks the limits for fills but not for rows.
- `SerialInv` says that without requests and failures a sold position is closed or
  about to be recorded as closed, and that the position in hand is open.
- `DailyInv` (`HaltLadderProofs`) follows a halt from 09:05 into the session: once
  the job has run, a daily halt is of today.
- `VouchedInv` (`ExitPlanProofs`) says that a mark in quarantine is the very last
  reading; without it two agreeing readings need not be consecutive.
- `ReadingInv` says that the last reading is the one in quarantine or, if there is none,
  the accepted mark, so that a second reading like it is accepted; `LockInv` that the
  stop is at least what the lock made of the price it last fired at, so that the rung
  recovered from it by two truncating divisions is low by no more than a paisa's worth.
- `KeysInv` (`DeskProofs`) says that the flushed keys hold the minute of every
  row of this process and of no open bar. `TapeInv` adds where on the tape things
  are: every tick behind the last loss is of a minute that is open or written
  (`AllTakenSinceLoss`), so a tick that opens a bar is ahead of all others; then at
  most one bar is open, it ends at the baseline, and all rows end before it starts.
  A tick that was lost breaks the first of these when it is delivered late.

- `FeedInv` (`FeedProofs`) holds as long as no calls overlap. `OneCall` says that at
  most one call is under way, `OneThread` that only the thread the supervisor knows is
  alive, `CallKnows` that what a call has in hand is still the thread and the task of
  the supervisor, `LiveIsUp` that the published connection is up, `Replayed` that a
  connection in replay or up carries the registrations but for what raced, and
  `ClosingTime` what is left after 15:35. Overlapping calls break `OneCall` first.
- `AccountInv`: `WatermarkIsReached` says that, the two excused situations apart, the
  stored watermark is no more than `top`, and that a running cycle has in hand the
  capital and the anchor that are still stored, so that what it writes is no more either.
- `LimitInv` is a potential argument. For every stack and every start of a window, the
  orders sent since, times the polls a token takes, plus what the bucket holds now are no
  more than a full bucket and the polls gone by; every earlier window keeps its bound.
- `ChartInv` says that each of the chart's two sums is the largest of zero and the excess
  of the last `n` days, for any `n`; a day more changes each of them by the same excess
  (`LargestGrows`), which is what the recursion with a floor at zero computes. Sums over
  a sequence are handled here by the running sums that lead to them (`IsSums`).
- `LoginInv`, `CalendarInv` and `IngestInv` say that a stamp of today means a login of
  today, that the recorder runs when the process is up in the session of a day it knows,
  that the stored calendar is the last list of each year, and that rows stored and not
  yet logged are those of the exchange in hand.
- `ApprovalInv` says that a row a request has read as pending, and is about to commit,
  is still pending or in `crossed`: every commit crosses the rows others still hold.
- `GateInv` carries each reading of a request forward (`ReadIsTrue`): until `disturbed`,
  what was read is still so when the mode is set. `StageLasts` says that every day since
  the last promotion ran at gating while the stage is gating. The counting of the sessions is by
  cardinalities of intervals, hence the library's theorems on finite sets.
- `MarksInv` says that once a contract was asked for, what gates and exits made of it
  is the filter applied to that one answer; the filter's own write to the row between
  the two does not change what it says of the same quote.
- `MaturityInv` says that a call carries an influence its own stage and probability
  allow (`CallIsAllowed`), and that the row of an outcome is the one of its call
  (`OutcomeIsAllowed`), because predictions are only ever appended.
- `RecordInv` adds to `StageIsOnRecord` the stage each overlapping call has read and not
  written yet: it had been entered by a row, and rows are only added.

- `SizingInv` says that an order is the ticket of inputs the configuration accepts. The
  work is in the lemmas about `Ticket`. Charges are monotone in the exit price and rise
  less than the turnover, so the target's exit loses no more than the stop's. The fixed
  point of `levels()` is cut after three passes; by `CostCurveIsFlat` the first two move
  the charges by at most a paisa a unit, the third then cannot come out above the second
  (`StopIsNet`), and the truncation towards the entry does the rest.
- `ContractInv`: `ChainsAreListed` says that a cached chain is the broker's list of its
  key, and the key holds the date; `NewestIsTold` that the newest lot-size row of an
  underlying is what the broker said last.
- `ArchiveInv`: `LoaderKnows` says what a loader in the middle of a file has stored of
  it. `CopiesAreCounted` counts: the copies of a row are at most the recorded files that
  hold it, one more if the loader has appended and not recorded it, and two for every
  kill: one for the append without a record, one for the torn line which takes the next
  record with it. A torn line is paid for with one of the two copies its kill allowed.
- `TrainingInv`: `SampleInv` says that rows are in order of their firing and labels live
  a bounded time, so that the horizon exists, is positive, and the purge by it leaves
  training rows that end before the test begins; `CountInv` that the ledger has at least
  the trials ever run on a frame, whatever was killed in between; `ModelsInv` and
  `ServeInv` that a version is its row number, and what is served is the id last seen.
- `StructureInv` says that a session has its four contracts and its prices, and that the
  counts add up. The rest are facts about the walks. A walk is written as the first
  minute of a set (`FlyEnds`, `SpreadEnds`), or the last shared one when it is empty; the
  set of a session cut at `k` is the set of the whole session up to `k`
  (`SameFlyEnds`), so a walk that ended has the same first minute and the same prices
  there. When both shorts end together all four exits are closes of one minute
  (`ShortOfTheEnd`, `WingOfTheEnd`), and the widths bound what that minute costs.
- `AuditInv` (`LabProofs`) says that every row is of the past (`RowsAreOfThePast`):
  what was opened today is open or was closed today, so the gate of an underlying, which
  counts the open rows of any day and the trades closed today, counts no fewer than the
  audit, which counts what was opened today (`GateSeesTheEntries`). The row comes after
  the order, so `DayIsWithinCaps` counts the order in hand beside the rows: the rows of
  the day and a filled order in hand are the day's fills but for the lost ones, and rows
  and hand together are within the caps, since one cycle runs at a time and has passed
  the gates with what there was. `HaltsAreCleared`: when the flag is down, or a cycle is
  past the loss gate, every daily-loss halt of the day has a reset behind it.
- `StreakInv`: while a day's trades close one by one and are its own, the losses the
  gate sees, the positions still open and the order in hand are together within the cap
  (`MaxLosses + MaxPositions - 1`). An entry needs both below their own caps, a losing
  close turns one into the other, a winning one sets the first to zero. The run of
  losses up to any close of the day is bounded as well, since the audit looks back.
- `FeatureInv`: every row knows its process's past (`KeptIsPast`): what a cache keeps of
  a series, of a width and a date is what the store had when that process first asked.
  Two rows of the same past then look at the same bars. The last `n` sessions of a set of
  days are a set too (`LastBarsAreMany` counts them by the days left out), and
  `CushionAssumption` is what keeps them inside the look-back of calendar days.
- `LabelInv`: tapes are typed and have one bar a minute; a run's labels and weights are
  those of what it read; and what the store has since is what the run read and bars that
  were known no earlier than the run or are stamped with their own close
  (`StoreHasGrown`). The first kind is outside every as-of reading of a horizon that is
  over; the second, outside the label's life and its entry's prints, changes neither the
  entry nor what the walk touched first. The mirrored walk is by
  turning the bars upside down (`PathUpsideDown`). The weights are sums over minutes; the
  code sums over the segments between the starts and ends of labels, in which the count
  of labels is constant (`CoverIsConstant`, `SegmentsAddUp`).
- `SignalInv`: bars are whole, one to a minute, of the past; and as long as they came in
  on time the kept frame lacks the last bar at most. The work is in the lemmas about a
  frame and the frame a bar before (`Front`): a selection from it is the selection
  without the last bar (`OnlyOfMore`), what is smoothed along it begins as what is
  smoothed along its start (`EwmBegins`, `TurnsAreOne`), the opening range stands once it
  is over (`RangeStands`). Each crossing rule asks of the bar before that it be inside
  (or on the other side), so it was silent there, or said the opposite.
- `LabInv` (`LabProofs`). None of the four statements about the lab is inductive, since
  each compares the account with something computed from all trades or all firings.
  `AccountIsOfTheEnded` says what the account is at any minute: the capital and the nets
  of the trades that ended before it, the rest being pending. A stake is therefore of
  settled money only. `DaysStay` says of every day gone by that its closing balance is
  under the peak, and that from one day to a later one the balance never fell as far as
  the limit unless the run has been stopped; the report's drawdown is such a fall.
  `ReplayFollows` says that the replay of the events before this minute has the walk's
  account, holds the pending trades, and has taken and refused as many. A minute of the
  walk settles first and enters then; the replay of the same minute does the exits or an
  entry, since no minute has both (`Apart`). At the end of a session the walk settles all
  that is pending at once, the replay minute by minute: both are the same trades in the
  same order (`ExitsToCome`). An account that is wiped out stops the replay in any case
  and the walk only when stakes follow equity; there is no difference, as such a fall is
  beyond any limit. `BatchIsInTheLedger` is what the bar of a batch counts.
  That a recursive function over the subsets of a finite set exists, is the only one and
  stays in what its step keeps is proved once (`RunIsThere`, `RunIsOne`, `RunStays`), by
  induction over those subsets; sums over trades (`SumOf`) are of this form too.

TLC checks the same properties on the runs' instances, and `LogImplementsLedger` and
`BookImplementsLedger` are also the property `ImplementsLedger` of two runs.
Some theorems are about named parts of a property of the runs (`TripIsKept`,
`ChartIsOfTheDays`, the three of `Maturity`, and the two of `Audit` in
`GatesAndAuditAgree`).

### What is assumed

Constants are typed and kept in range as the code's configuration and readers keep them.
A few assumptions say more:

- `Sizing`: `CostCurveIsFlat` is what the comment at `domain/geometry.py:319-325` says
  in words ("the cost curve is nearly flat over the small range a stop can move"), with
  the paisa a unit the proof needs. The docstring's promise that a stop "lands at or
  below" the rupees holds only as far as this does; TLC evaluates it for the rates of
  `config/charges.yaml`. `RatesAreSmall` and `RatesReachBack` say that no rate is more
  than a tenth of the turnover, the tax no more than what it is on, and no trade older
  than the table; `InputsAreSane` that a premium is at least a rupee (the resolver's
  minimum), a lot at least six units, and a model's multiplier at most one.
- `Contracts`: what is enabled by default may be traded; the broker has a positive lot
  size for every underlying from the first day on.
- `Archive`: a file has its key for itself, and is of the index if and only if it is a
  spot file.
- `Jobs`: two exchanges, the NSE and the BSE.
- `Structures`: `MarketData` types prices, levels and strikes as amounts; the geometry is
  what `__post_init__` accepts.
- `Audit`: the caps on positions, trades, entries and losses are at least one.
- `Features`: closes are naturals (`ClosesAssumption`), the calendar's next expiry of a
  day is not before it (`ExpiryAssumption`), and the cushion covers every closure of the
  exchange (`CushionAssumption`), as the comment at `ml/dataset.py:74-78` says it does.
- `Labels`: the holding time is positive, a stop is less than the premium, prices are
  integers.
- `Signals`: a minute's close lies between its low and its high (`ShapeAssumption`), which
  `data/recorder.py` sees to; the inside-bar rule needs it. The opening range needs at
  least one bar.
- `Lab`: the last entry of a session is before its last minute, the capital, both loss
  limits and the drawdown limit are positive, the latter at most the whole
  (`LabAssumption`); a label looks only at minutes after the entry, so that an outcome
  lasts at least one (`OutcomesAssumption`, `ml/labeling.py:364`).
- `Training`: a row that comes next does not fire before the last.
- `PriceExitIsFresh`: the lock's buffer of any quote is at least a paisa (a hypothesis
  of the theorem).

### Only model-checked

- Liveness (`PastHardExitCloses`, `UnpricedIsNoticed`, `FeedComesBack`): fairness and
  `ENABLED` are beyond the prover.

Every invariant of the passing runs is stated by a theorem, and so is every action
property and both refinements; what a run adds to a theorem is that its cases occur.

## 5. What is left

1. Composition of `HaltLadder` with `PositionBook`, replacing `HaltMoves` by the
   ladder's own steps, and of `Feed` with `BarRecorder`, so that the feed says which
   ticks are lost and which come again.
2. The audit's rules on single trades (6 to 10 and 13).
3. `backtest/engine.py` and the replay scripts, which use index closes in place of
   premiums and drop a position that is open at the end.

## 6. What is not modelled

- The estimators (gradient boosting, forests, TabICL), the probability of backtest
  overfitting and the deflated Sharpe ratio's own arithmetic: numeric libraries; what
  is modelled is what they are fed with and what is done with their answers.
- HTTP, authentication, the dashboard, file formats and downloads are presentation
  or I/O; handlers that change trading state are actions of the component they
  change.
- The scripts and skills outside the engine (`.opencode/skills`, most of
  `engine/scripts`): reports and one-off tools over the same tables.
- `backtest/engine.py`, `replay.py`, `results_store.py`, the plateau search, and the
  audit rules on single trades.
- Money in the trading loop: cash, charges and P&L appear in `PositionBook` and
  `HaltLadder` only where a gate reads them, as a nondeterministic outcome of the
  gate; `Sizing` and `Account` have the amounts, for one order and one account.
- Live mode's asynchronous fills are modelled for one order (`OrderLifecycle`) but
  not composed with the position book, which follows the dry-run mode the
  scheduler runs in.
- `set_halt` is not protected against another thread between its read and its
  write; the ladder takes each setting of the flag as one step, as SQLite's
  serialised commits make it, and the operator's reset is kept out of the exit
  loop's transaction.
