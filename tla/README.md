# A verification project for paper-trade-system

TLA+ models of the paper trading system, the TLC configurations that check
them on small instances, and TLAPS proofs of what matters most. All paths are
relative to the repository.

## 1. The system

Trading strategies ("alphas") decide; one execution worker keeps the book.

```
 market data service (external): candles, price alerts, warm-up
        |
        v
 runner (alphas/runner)                             standalone alphas
   leases, claims, event loop,                        (alphas/base/engine.py
   strategies, legacy adapter, dispatcher              + alphas/<name>/app)
        |                                                 |
        +-------------- XADD paper-signals --------------+
                             |
                             v
 worker (worker/app): consumer -> executor -> SQLite <- price check
                             |                   ^
        position snapshots <-+                   +-- virtual trade consumer
        (Redis, read by runner and engines)              ^
 runner: virtual trade ledger -- XADD paper-shadow-trades +
```

| component | source | state | operations | what makes it correct | module |
|---|---|---|---|---|---|
| signal consumer | `worker/app/main.py`, `models.py` | stream, consumer group, batch | read, duplicate check, parse, transaction, XACK, restart | nothing acknowledged is lost, nothing applied twice, one bad message does not hold up the rest | `SignalWorker`, `PositionLedger` |
| executor and database | `worker/app/executor.py`, `db.py` | tables alphas, positions, trades, signals, alpha_columns; one connection, one transaction depth | OPEN, MODIFY, CLOSE, REGISTER_COLUMNS, `transaction()`, pruning | quantities add up, one position per alpha and symbol, stops only tighten, a failed signal leaves the book alone; and what exactly escapes each of these | `SignalWorker`, `WorkerTasks` |
| worker metrics | `worker/app/metrics.py` | outcome counters | increments, `reconciles()` | counters account for every message | `SignalWorker` |
| TP/SL auto close | `worker/app/main.py`, `executor.py` | reads positions and closes them over the consumer's connection | periodic pass | the snapshots and the tables stay in step with it | `WorkerTasks` |
| position snapshots | `worker/app/position_snapshots.py` | a revision and a snapshot per alpha in Redis | publish after a commit, publish all every 5 s | the snapshot becomes what is committed | `WorkerTasks`, `EngineBook` |
| virtual trades | `alphas/runner/virtual_trade_ledger.py`, `worker/app/virtual_trade_ledger.py` | publisher's positions, stream, virtual tables | rebalance, restore, bootstrap; read pending first, apply once | nothing reopened, publisher and tables agree once drained | `VirtualLedger` |
| leases and claims | `alphas/runner/lease.py`, `alpha_claim.py`, `periodic_claim.py`, `config_listener.py`, `config_sync.py`, `main.py` | leases with TTL, running strategies | claim, renew, release, roll back, enable, disable | at most one late signal after a lost lease, capacity bounded, an enabled alpha comes back | `RunnerFleet` |
| signal dispatcher | `alphas/runner/signal/dispatcher.py` | ids seen, in memory and in a Redis list all runners of the stream share | lease check, duplicate check, XADD | no id sent twice within the memory's size | `SignalDispatcher`, `StrategyBook` |
| event loop | `alphas/runner/main.py`, `data_layer/pubsub.py` | a bounded queue per strategy, a shared semaphore | enqueue, evict, admit, handle, time out | the newest candle survives, permits add up, critical candles are handled | `StrategyLoop` |
| price alerts | `alphas/runner/main.py`, `strategy/context.py` | registrations, subscribed channels | sync, periodic pass, disable, enable | what is held is registered again and again | `PriceAlerts` |
| runner strategies | `alphas/runner/strategies/*` | positions, saved state, indicators' memory | scan, open, close, modify, save, restore, adopt | worker's book = strategy's book, one entry per turn, stops tighten, limits hold | `StrategyBook` and one module per strategy |
| legacy adapter | `alphas/runner/strategies/legacy_standalone/strategy.py` | captured outbox, manage task, a thread that computes | scan, alert, manage, flush, persist | same, over threads, time limits and rescans | `LegacyAdapter` |
| base engine | `alphas/base/*.py` | runtime state and flags, positions, alert subscriptions | warm-up, reconcile, listen, reconnect, stale monitor, push | no entries on an unknown book or known stale data; engine and worker meet again | `EngineRuntime`, `EngineBook`, `EngineSteps` |
| alphas | `alphas/<name>/app`, `alphas/cross_alpha/engine.py` | positions and a mind of their own | decide, manage, alert | as above, per engine | `NrLongShort`, `Alpha2`, `HyperTurbo`, `CrossEngine`, `BangocV22`, `SongThan`, `ShortBtc` |
| candle cache, warm-up, restore | `alphas/runner/data_layer` | numpy rings, files | bulk reads and writes | - | not modelled |
| order-book execution | `worker/app/slippage_client.py`, `ob_exec.py`, `fill.py` | circuit breaker, waiters | call, time out, fall back | - | not modelled |
| ownership monitor, equity, telegram, portfolio manager, indicators, scripts | see `PROJECT.json` | - | - | - | not modelled |

### What is hard to test here

* **Failure in the middle of a message.** BEGIN IMMEDIATE, COMMIT and XACK can
  each fail, the process can die between any two of them, and a failing
  handler's transaction is committed, not rolled back: what it wrote before it
  raised stays.
* **Values nobody checks.** A stop that is NaN, a timestamp that cannot be
  parsed, metadata whose version is no number pass `parse_signal` and are met
  later, some of them between two writes.
* **At-least-once publishing.** The same `signal_id` may be in the stream
  several times, with other signals of the same position in between.
* **Accumulating histories.** Position ids are reused as trade ids, the
  duplicate check reads a table that retention prunes, partial closes leave a
  remainder that later signals depend on.
* **Shared connection.** The tasks of the worker use one SQLite connection with
  one depth counter, and see each other's uncommitted rows.
* **Two views of a position.** Strategy or engine and worker exchange signals
  and snapshots asynchronously; either side restarts, signals are lost on the
  way, a position is closed behind the other's back, and a reconcile may
  bring an older view back.
* **Leases.** They expire while their holder is slow, while a claim is half
  done, or between the check and the XADD.
* **Bounded queues and permits.** Candles flood a queue, handlers hang.
* **Time limits over threads.** A scan that is given up goes on computing in its
  thread, on positions that have changed since.
* **Order of candles.** Timeframes close in any order, a candle is scanned again
  without being new, the entry candle is the newest one for a whole period.

`PROJECT.json` lists each hazard at its line with the properties that cover it.

## 2. Modules

| module | what it is |
|---|---|
| `SignalWorker` | the execution worker: stream, consumer group, consumer coroutine, transaction, database, counters |
| `PositionLedger` | abstract specification: signals settle one at a time, atomically, at most once per id |
| `VirtualLedger` | the virtual trades of one shadow sleeve: publisher in the runner, Redis, consumer in the worker |
| `WorkerTasks` | the worker's tasks around one connection, statement by statement: consumer, price check, two publishers |
| `RunnerFleet` | runner processes: leases, renewal, claims, config listener, the last signal of a lost lease |
| `SignalDispatcher`, `StrategyLoop`, `PriceAlerts` | parts of one runner |
| `StrategyBook` | what all strategies of the runner share: candles, the steps of a scan, the stream, the worker, restart and restore |
| `SuploXau`, `SuploAtr1`, `SupertrendAdx`, `SupertrendAdxEma13`, `SupertrendXauV2`, `SmoothChan`, `XauM30`, `Bollinger`, `Vn30`, `BasketBook` | the strategies on top of it (`BasketBook` is `cross_sectional` and `top10_vote_combo`) |
| `EngineRuntime` | live, stale, recovering: the runtime states of `BaseEngine` and the tasks that move them |
| `EngineSteps` | the elementary steps of an engine's decision: push, keep, drop, change |
| `EngineBook` | a standalone engine between market, stream, worker, snapshot and reconcile loop |
| `LegacyAdapter` | the same engines inside the runner |
| `NrLongShort`, `Alpha2`, `HyperTurbo`, `CrossEngine` | engines for `EngineBook` |
| `BangocV22`, `SongThan`, `ShortBtc` | engines for `LegacyAdapter` |
| `SignalWorker_proofs` | theorems about `SignalWorker`, and that it implements `PositionLedger` |
| `VirtualLedger_proofs`, `WorkerTasks_proofs`, `EngineRuntime_proofs` | theorems about these modules |
| `Runner_proofs` | theorems about `RunnerFleet`, `SignalDispatcher`, `StrategyLoop` |
| `StrategyBook_proofs` | what running a plan does, whatever the strategy: the lemmas of the next two |
| `Strategies_proofs` | theorems about the strategies that hold one position at most |
| `Legs_proofs` | theorems about the strategies that hold several: `XauM30`, `BasketBook` |
| `MCSignalWorker`, `MCVirtualLedger`, `MCRunner`, `MCStrategies`, `MCEngines` | instances for TLC |

The instance modules with several "parts" check several small instances in one
run: a behaviour chooses a part at the start and stays in it, so nothing of one
part can hide an error of another; a property is that of the part, guarded by
`part = ...` or of variables that rest in the other parts.

### SignalWorker

State and code:

| variable | code |
|---|---|
| `stream` | the Redis stream `paper-signals`, never trimmed by the program |
| `delivered` | the consumer group's last delivered id |
| `pel` | the group's pending entries list |
| `cursor` | position in the batch XREADGROUP returned (`for msg_id, data in msgs`) |
| `pc` | where `handle_signal_message` / `process_signal_message` is |
| `db` | committed contents of the tables; `traded[p]` sums the trades rows of `p`, `full` holds the ids with a row whose `trade_id` is the position id, `opened` and `unreduced` are history no table holds: the quantity ever opened under an id, and that of the partial closes that broke off |
| `tx` | what COMMIT would make durable, `None` outside a transaction |
| `metrics` | `WorkerMetrics`, without the split by alpha and type |
| `crashes` | bound for TLC only |

One action per step after which the process may fail or be seen in between:
`Deliver` (XREADGROUP), `SkipDuplicate` and `Accept` (duplicate check, parse),
`Begin` / `BeginFails`, the five handlers (each is the whole body of the
transaction: `log_signal`, the executor's method with all its writes or its
exception, `mark_signal_processed`), `Commit` / `CommitFails`, `Ack` /
`AckFails` (the command or only its reply is lost), `Crash`, and `Restart`
(configured alphas are registered, old rows pruned). Between BEGIN and COMMIT
the process holds SQLite's write lock and no other task of this module reads `tx`, so
a handler is one action; a crash in the middle of it is a crash before it.

One handler can raise between two writes. `close_position` of a part INSERTs the
trade (`db.py:461`), then merges the metadata for the UPDATE of the position, and
`int()` of a malformed `strategy_runtime_version` raises (`db.py:119`, `500`).
`process_signal_message` catches the exception inside the transaction
(`main.py:250`), so the trade is committed and the quantity is not reduced. This is
the third outcome of `ProcessClose` (`BreaksOff`, `TradeOnly`), and a step of
`PositionLedger` (`TradePart`). A full close merges nothing there, and everything
else that can raise does so before the first write: `CanClose` has the checks of
`process_close` and the timestamps of `close_position` (`Comparable`: both must parse,
and one without an offset cannot be subtracted from one with it).

Abstractions: prices, take-profit and leverage are left out (no property is about
them); of metadata `allow_duplicate_position` is kept and what `strategy_runtime`
and its version do to the merge (`runtime` of a signal, `version` of a position);
timestamps are `aware`, `naive` or `bad`; `sl` may be NaN, of which every comparison
is false and which SQLite stores as NULL (`Stored`); quantities are
integers, so the 1e-12 tolerances of `close_position` are exact comparisons;
retention deletes any prefix of the signals table at a restart (rows are
inserted in `received_at` order); statements inside a transaction do not fail
except where the schema or a handler makes them (the lock is already held).
The duplicate lookup of `process_open` fetches one row, which is enough to
decide whether there is any. The fill price is resolved in `Accept`'s place and
changes no state the model keeps. `pre_open` and the order-book subscription
after the commit only send messages. The TP/SL auto close is off by default
and part of `WorkerTasks`.

Properties:

| property | kind | says |
|---|---|---|
| `AckedIsRecorded` | invariant | a message that left the PEL has a processed row |
| `SettledAtMostOnce` | invariant | no two rows share a signal_id (messages without one apart) |
| `QtyConserved` | invariant | per position id, the trades and the open quantity add up to what was opened, plus exactly the partial closes that broke off after their trade |
| `OpenIsClosable` | invariant | the full close of an open position cannot collide with an existing trade |
| `OnePositionPerSymbol` | invariant | two positions of one alpha and symbol include a leg that asked for it |
| `CountersAddUp` | invariant | between messages received = acknowledged + left pending, and no received message is missing from the outcomes |
| `StopNeverLoosened` | action | while the position is open a stop only tightens, and only a MODIFY whose `sl` is NaN erases one |
| `ErrorsLeaveBookAlone` | action | a signal recorded with an error changed no position and no full close, nor the trades but for the one row of a partial CLOSE that carries a `strategy_runtime` |
| `EveryMessageHandled` | liveness | every message gets its turn and is acknowledged unless a failure or crash was noticed |
| `ImplementsLedger` | refinement | every step is one settlement of `PositionLedger` (an opening, a close with its trade, the trade of a close that broke off, or nothing) or a stutter |

`AckedIsRecorded`, `SettledAtMostOnce` and `OpenIsClosable` are stated for
`SIGNAL_RETENTION_DAYS = 0` (the default): pruning forgets ids by design.
`OpenIsClosable` also assumes that a position id occurs in the OPENs of one
`signal_id` only (`UniqueOpenIds`), which is how the alphas draw them.

### VirtualLedger

A book-only ("shadow") sleeve trades on paper only. At each rebalance the runner
writes the target book, then sends VIRTUAL_CLOSE and VIRTUAL_OPEN events and its
new positions to Redis in one MULTI/EXEC; the worker turns the events into rows
of `virtual_positions` and `virtual_trades`.

| variable | code |
|---|---|
| `now` | the last rebalance candle that closed |
| `runner`, `selection` | where `_apply_selection` is (between the book and the ledger), with which weights and prices |
| `memory`, `last` | `VirtualTradeLedgerPublisher._positions`, `_last_processed_candle` |
| `state`, `book`, `stream` | Redis: `shadow:ledger:positions:{alpha}`, `book:target:{alpha}`, `paper-shadow-trades` |
| `delivered`, `pel` | the consumer group |
| `consumer`, `recover`, `batch` | the consumer's loop: connected or not, `recover_pending`, rows read and not handled |
| `positions`, `trades`, `events` | SQLite: `virtual_positions`, `virtual_trades`, `virtual_trade_events` |
| `faults` | bound for TLC only |

Position ids are hashes of (alpha, symbol, candle) and event ids hashes of
(position, and for a close the candle), so a record of these stands for its id,
and identity of ids is exactly equality of records. `PublishTargetBook` and
`Rebalance` are the two halves of `_apply_selection`, because the process may
stop between them; `Restore`, `Bootstrap` and `RestoreFails` are the
constructor's three outcomes; `Publish` has those of the pipeline (executed;
failed; executed with the reply lost). The consumer has its own SQLite
connection, so a transaction is one step, and `ConnectionLost` is a crash of
the worker as well: nothing but Redis and SQLite survives either.
Prices, quantities, pnl and metadata are left out, except whether a symbol has a
price: it decides between closing and carrying over. The constant `Faults` says
which failures an instance allows.

| property | kind | says |
|---|---|---|
| `TypeOK`, `NeverReopened` (run: `TablesConsistent`) | invariant | a position with a trade is never open again |
| `AckedIsApplied` | invariant | an event the group no longer holds has been applied |
| `StateMatchesStream` (run: `StateIsStream`) | invariant | the Redis state is what the events published so far leave open |
| `EveryCloseFindsItsPosition` (run: `StateIsStream`) | invariant | each close in the stream follows its open and is the only one |
| `Converged` (run: `BooksConverge`) | invariant | once drained, worker and runner agree on the open positions |
| `EveryEventApplied` (run: `PublishedIsApplied`) | liveness | every published event is applied in the end |

The first two hold under every failure. The next three need that no EXEC reply
was lost, no read of the state failed and no candle was rebalanced twice (see
Findings): the history variable `misled` remembers such a failure, and
`StateIsStream` and `BooksConverge` say nothing once it is set. A runner that
starts is in `warmup` between the constructor of the strategy, which restores or
bootstraps the positions, and `WarmupComplete`, which sets the candle it goes on
from. `EveryEventApplied` needs in addition that no transaction fails: the
consumer looks at a failed event again only after its next reconnection.

### WorkerTasks

A step is one await. `view` is what the connection shows everyone, `disk` what is
committed, `inTx` whether a transaction is open: the consumer's, or the one
Python's sqlite3 opens before an INSERT or DELETE. `InTransaction` is
`_tx_depth > 0`: it counts as soon as `transaction()` is entered, before its BEGIN
has run, so another task's `_commit()` is skipped from then on. A consumer's
BEGIN that finds a transaction open raises, and its rollback takes the other
task's statements along. Of a position only its existence and its full trade are
kept. The reads of `publish_all` are one step (it sees a superset of what two
would), INCR has no effect the program reads.

`SnapshotSettles`: once signals stop, the snapshot of every alpha the worker knows
becomes, and stays, the committed positions; neither an older read that is SET
last, nor a read of rows that are rolled back, nor a failed publication after
a commit survives the repair loop. Two statements of the module do not hold, and no
document of the repository makes them, so no run is spent on them:
`EverySnapshotSettles` (an alpha whose first OPEN the repair loop published from
inside a transaction that was then rolled back is in no table, hence never
repaired) and `NothingVanishes` (with the price check on, a position leaves the
table without a trade, as described above; with it off `NothingVanishesByDefault`
of section 4 holds).

### RunnerFleet, SignalDispatcher, StrategyLoop, PriceAlerts

`RunnerFleet` has one action per Redis call of a claim, because the claims run in
an executor thread; a lease expires at any step; `sending` and `late` follow a
signal from the lease check to its XADD. `config` is the set of enabled alphas;
a change leaves a `notice` for the runners that are up, the others miss it. `SignalDispatcher` keeps the ids of one runner
and the Redis list (two commands of a pipeline that is no transaction). The list's
key names the stream only (`dispatcher.py:22`), so every other runner pushes to it and trims
it too: `OtherDispatch`. All of them use the default `max_seen` (`main.py:747`). What a
restart reads back is `Deduplicated`: of an id that is in the list twice the dictionary
keeps the older place. `StrategyLoop` has the
queue of each strategy, the task's place in `run_strategy_event_loop` and the
permits. `PriceAlerts` has what a strategy holds, what the loop believes
to be subscribed, what is, and the registration with its expiry.

| property (run `runner`) | says |
|---|---|
| `ResourcesBounded` | types; the start claim and the periodic claim together never take more than twice the capacity; permits are conserved over errors and time limits |
| `OneLateSignal` | after a lease is lost its holder sends at most the signal that was past the check |
| `LeasesReturn` | a lost lease is acquired again by the renewal, by anyone, or the strategy is gone; an alpha that stays enabled is leased again and again while a runner with room stays up |
| `NoEarlyRepeat` | a runner does not hand an id no other runner sends to XADD twice before `max_seen` ids of all runners went to the list, restarts included, when Redis worked for its own |
| `NewestTriggerKept` | the newest candle of a strategy is in its queue until taken, however full it is |
| `CriticalIsHandled` | a critical candle reaches its handler though no permit ever comes back |
| `HeldIsRegistered` | what a running alpha holds is registered again and again |
| `SnapshotSettles` | above |

`OneLateSignal` is the strongest that holds: leases do not fence (the XADD carries
no token), so a second runner can already be sending. `PriceAlerts!InSync`, the
docstring of `run_price_alert_reconcile_loop`, does not hold for an alpha that is
disabled and enabled with the same positions: the loop's record says subscribed
and the subscription is gone.

### StrategyBook and the strategies

A strategy is a *plan*: the sequence of elementary steps of one scan (send a
signal, keep or drop a position, note a candle, save), in the order of the code.
`StrategyBook` runs the plan, or a prefix of it when a send raises, against the
stream and a worker that applies one signal at a time, rejects duplicates, and may close a
position by itself. Between them is the dispatcher: an OPEN whose id was sent before
goes nowhere (`Repeated`, `Dispatched`), and the strategy, which does not look at what
`emit_signal` returns, keeps the position all the same. Ids are hashes of the candle
(uuid5) except in the basket strategies (uuid4), hence `HashedIds`; `remembered`
outlives restarts, because an id the dispatcher has forgotten is stopped by the
worker's own duplicate check. An id is remembered before XADD, so the OPEN that raised
(`Raises`) is a repeat when it is tried again. `BasketBook` follows its CLOSEs in the same
way (`raised`, `Repeats`): the retry of a rebalance on its candle forgets the position and the CLOSE
goes nowhere, which leaves an orphan. The CLOSEs of the other strategies are not followed: what
is claimed of them after a failed send does not depend on what the worker holds. A MODIFY
changes no position's existence. A restart loads the worker's snapshot, or the
saved state if there is none. Indicators are any outcome (`candle`), prices a few
values that separate stop, entry and target. What a strategy keeps in a
position's runtime (peak, trailing level, legs) is kept because the properties
depend on it.

| property (run `strategies`) | says |
|---|---|
| `Converged` | nothing failed and the stream is drained: the worker holds what the strategy holds, restarts included, but for OPENs the dispatcher took for repeats (`dropped`) |
| `SideFollowsTrend` | no position against the trend the strategy believes in |
| `NoReentry` | `OneEntryPerTurn` of `StrategyBook`, of the strategies that trade flips: one entry per turn of the trend within one life, whatever fails |
| `TrailOnlyTightens` | peaks and levels of a position never go back within one life |
| `LimitsHeld` | `max_positions` legs at most; flat after the session (vn30); without a failure no OPEN is dropped as a repeat, but for xau_m30 after a restart |
| `NoOrphanAfterRebalance` | what the worker held and the basket strategy had lost, to a restart or to a CLOSE that failed, is closed by the next rebalance that loses no signal and repeats no lost CLOSE |
| `TypeOK` | positions are distinct and of the strategy's symbols |

### EngineRuntime, EngineBook, LegacyAdapter and the engines

`EngineRuntime` reduces data to its age and keeps the three sources of staleness as
flags with the tasks that set and clear them. `EngineBook` composes an engine with
the stream, the worker (with `SignalWorker`'s rules, one step per signal), the
publisher (one step: `WorkerTasks` says that it settles) and the reconcile loop
that replaces the engine's positions. `LegacyAdapter` does so for the runner:
event task, thread, time limit, manage loop, outbox, dispatcher and saved state. The
broadcast of the symbol universe scans every strategy again (`Rescan`). `Perform` sends
and saves in one step: nothing suspends between XADD and the save, and a process that
dies there leaves what a failed save leaves (`PersistPositions`) before a `Restart`.
An engine is three or four operators (`Decide`, `Manage`, `Alert`, ...) that return
plans of `EngineSteps`. A candle closes only when the pipeline has settled
(`Settled`): candles are minutes apart, the pipeline takes seconds; without
that, every property about two books would speak of a backlog of minutes.

| property (run `engines`) | says |
|---|---|
| `EntriesOnlyWhenKnown` | no entries before the worker's book was accepted once; after a silence was seen only a message allows them again |
| `DataFlagClears` | the data flag does not outlive the silence |
| `BooksMeet` | whatever raised, crashed or was closed behind its back, the engine's positions become the worker's |
| `HeldIsWatched` | every symbol held for good gets its price alerts |
| `StopsOnlyTighten` | the worker's stop (hyper-turbo) and the engine's (songthan) move with the profit only, although reconciles put older stops back |
| `BooksAgree` | legacy adapter: while nothing is lost, both books agree on positions and partial closes once the stream is drained |
| `NoOrderBesidePosition` | songthan: no limit order rests beside a position |
| `HourIsDecided` | bangoc: when both candles that end an hour were scanned, in either order, the position has the newest side |
| `TypeOK` | types; one position per symbol on both sides |

## 3. Runs

| run | instance | distinct states | shows |
|---|---|---|---|
| `worker_book` | 7 signals (one part and one whole whose metadata cannot be merged), 4 messages, failing BEGIN/COMMIT/XACK | 2.5 million | the book invariants, the error property and the refinement |
| `worker_stream` | 6 signals: OPEN, CLOSE, three registrations (one without an id), one malformed; 3 messages in batches of 2, one crash, with fairness | 0.19 million | acknowledgements, rows, counters, liveness |
| `worker_history` | 14 signals on a LONG and a SHORT position (stops with, against, NaN and missing; metadata and timestamps that fail), retention on, policy "allow", 3 messages, one crash | 2.8 million | stops and quantities when the duplicate check has forgotten |
| `ledger` | parts: book (2 symbols, 2 failures that leave the publisher's promises intact), faults (1 symbol, 2 failures of any kind), live (1 symbol, one message per read, fairness) | 0.5 million | the virtual ledger end to end |
| `runner` | parts: solo, roomy, pair (of two runners one starts, with 3 alphas and room for 1; one starts, with room for all; both compete), dispatcher, loop, alerts, tasks | 0.19 million | section 2, first two tables |
| `strategies` | 16 parts, one per strategy and preset | 1.6 million | section 2, third table |
| `engines` | 10 parts: runtime, six engines on their own, three in the adapter | 0.51 million | section 2, fourth table |
| `worker_metrics`, `worker_reconcile`, `ledger_rescan`, `strategies_restart`, `entry_candle` | violations | | see Findings |

Bounds. For the worker, `MaxStream` 4 is the shortest history with open,
partial close, full close and republication of the open in one run; 3 messages
give two in one batch and one after it, or a signal, its duplicate and one in
between. One crash separates each step from the next; the state after a
restart is one a first start could also be in, but for the tables, the PEL and
the stream, which the next messages exercise. One alpha and one symbol make every
two positions compete for the duplicate guard. For `VirtualLedger` three candles
are open, close-and-reopen, and a close of what was reopened; two symbols let one
be carried over while the other is closed. For `RunnerFleet` three alphas exceed
the capacity of one runner by more than the claim that is under way; two runners
with two alphas are the smallest fleet that can compete for both. In
`SignalDispatcher` a memory of 2 with 3 ids and 4 entries in the list is the smallest where an id is
pushed out, by the runner itself or by another one, and comes again. `StrategyLoop`: a queue of 2 filled by 3 events, one
permit for two strategies. `WorkerTasks`: two signals on two positions, of an
alpha the worker knows from the start and one it learns of; one failure or
crash. A strategy gets three to six candles: an entry, a management step, an
exit and a second entry, plus one restart, and one failure where the
properties tolerate it; the second and third timeframe get their own candles.
An engine gets two to four. Failures beyond one mostly repeat: each is
followed by the state a restart or a lost signal also leaves.
`CHECK_DEADLOCK FALSE` everywhere: inputs are bounded, so every behaviour ends
when they are used up.

Fairness. `SignalWorker`: weak fairness of `Consume` (the coroutine is scheduled
and its awaits return) and of `Restart` (docker compose: `restart:
unless-stopped`). `VirtualLedger`: weak fairness of the consumer's loop, which
catches every exception and reconnects after 5 s. `RunnerFleet`: strong fairness
of the renewal and of the claims, which run periodically for ever and find a
Redis that works between failures; weak fairness of starting and of serving the
listener's queue. `StrategyLoop`: the loop takes events and the admission timer
fires; nothing is assumed of handlers. `PriceAlerts`: the pass comes round.
`WorkerTasks`: consumer, repair loop and price check go on once started.
`EngineBook` and `EngineRuntime`: the worker takes signals, publishes, and the loops of a
process that runs go on; `Message` of `EngineRuntime` assumes that the market
sends something to whoever listens. Nothing is assumed anywhere of publishers,
candles, faults, crashes or expiries.

### Findings

* `worker_metrics`: `WorkerMetrics` promises that its outcome counters
  partition the received messages. A parse error (or a commit) is counted
  before the transaction that records it; when that transaction or the
  acknowledgement fails the message is counted as left pending too.
* `worker_reconcile`: `scripts/reconcile_signals.py` says that duplicates skipped
  by the consumer never show up in its balance. They do: a duplicate is a
  stream entry (XLEN) without a row.
* `ledger_rescan`: ids depend on the candle, and a runner restarted within a
  rebalance candle, with a strategy not ready when warmup ends, rebalances on
  it again. It closes its positions and opens them under the same ids; the
  worker takes the closes and drops the opens as duplicates. From then on the
  Redis state holds positions the worker does not have; their next close is
  refused, stays pending, and after a reconnection the consumer reads it
  again and again before anything new.
* `strategies_restart`: suplo_xau says that it persists peak and trailing level
  "so a restart keeps trailing"; after a restart it loads the worker's snapshot
  instead, whose metadata is that of the OPEN.
* `entry_candle`: in the runner, the manage loop of short-btc-v1 (and of
  deobietcophaialphakhong) judges a position by the newest candle every 5 s,
  which is its entry candle for a whole period; `base/engine.py` says that it
  must never drive an exit.

Two more failures are known to break the books of the ledger; the run
`ledger` admits both and two of its properties say nothing once one happened
(`misled`). When EXEC succeeds and its reply is lost, the publisher keeps its old
positions in memory, so the next rebalance closes them a second time and never
closes those opened in between: `StateMatchesStream` and
`EveryCloseFindsItsPosition` fail. A failed read of the state at start is taken
for a ledger that does not exist yet, and the target book is published over it:
`StateMatchesStream` fails.

Met while modelling, without a statement of the repository to check them against:

* a partial CLOSE whose metadata cannot be merged (`strategy_runtime_version` null or not a
  number, `db.py:119`) leaves its trade and the unreduced position, and is recorded as an
  error (`db.py:461`, `db.py:500`, `main.py:250`); sent again under another id it leaves
  another trade, and a later full close counts the quantity once more. `QtyConserved`
  says that nothing else makes trades and quantity differ;
* a MODIFY whose `sl` is NaN erases the stop (`models.py:66`, `executor.py:107`): both
  comparisons are false of NaN and SQLite stores NULL;
* a position whose `opened_at` does not parse, or has no offset while the CLOSE has one, can
  never be closed (`db.py:454`): every CLOSE ends in the same exception;
* xau_m30 names its positions by candle and side (`strategy.py:625`). Restarted within
  the candle in which it opened and lost a leg, it opens the leg again under the same id;
  dispatcher or worker drop the OPEN and the strategy keeps a leg nobody else has;
* all runners of a stream share one list of remembered signal ids and trim it to the
  length each of them keeps in memory (`dispatcher.py:22`), so a restarted runner remembers
  less than it did;
* a CLOSE of cross_sectional whose XADD raised is dropped as a repeat when the rebalance is
  tried again on the same candle (`dispatcher.py:62`), and the position is forgotten: the
  worker holds it until the next rebalance adopts and closes it;
* a position opened while the engine's own OPEN is still in the stream at a
  restart is unknown to the restarted engine until the worker's snapshot has it
  (a strategy of the runner keeps it as an orphan);
* positions adopted through the legacy adapter's captured `push_signal` have no
  `strategy_runtime`; short-btc-v1 then ends its manage loop with a KeyError,
  which `run_strategy_manage_loop` does not catch;
* `EngineRuntime`: when the data flag is cleared while another flag is set, the
  state stays STALE until another silence or a reconnect;
* an old snapshot without positions clears the engine's positions without the age
  check that a nonempty one gets (`base/engine.py:154`).

## 4. Proofs

Every theorem holds for every value of the constants; each module's named
assumption (`SignalWorkerAssumption`, `VirtualLedgerAssumption`, ...) gives the
constants their types and says that `None` is none of the values it is
distinguished from; `Symbol` of `VirtualLedger` is finite besides, since a
rebalance publishes its closes and opens as a sequence. TLC evaluates these
assumptions in the runs. The theorems about `WorkerTasks` name theirs as a hypothesis
(`ConstantTypes`: every position has an alpha, the bounds are numbers); those about
the strategies name what they need: a timeframe that is in `Tf`, finitely many
symbols, `Sane` of `XauM30`, and `~HashedIds` (ids drawn by uuid4) of `BasketBook`. The bounds of the runs (restarts, faults, candles,
signals) are constants too, and the theorems hold for all their values.

| theorem | property | of |
|---|---|---|
| `TypeCorrect` | `TypeOK` | `SignalWorker` |
| `QuantityConserved` | `QtyConserved` | |
| `DuplicateGuardWorks` | `OnePositionPerSymbol` | |
| `StopsOnlyTighten` | `StopNeverLoosened` | |
| `FailedSignalsHaveNoEffect` | `ErrorsLeaveBookAlone` | |
| `SettlesAtMostOnce` | `SettledAtMostOnce` | |
| `AcknowledgedIsRecorded` | `AckedIsRecorded` | |
| `EveryMessageIsCounted` | `CountersAddUp` | |
| `OpenPositionsCanClose` | `OpenIsClosable` | |
| `WorkerImplementsLedger` | `ImplementsLedger` | |
| `TypeCorrect` | `TypeOK` | `VirtualLedger` |
| `AcknowledgedIsApplied` | `AckedIsApplied` | |
| `TablesStayConsistent` | `TablesConsistent` | |
| `StateFollowsStream` | `StateIsStream` | |
| `CaughtUpBooksAgree` | `BooksConverge` | |
| `HolderIsNotLate` | the invariant behind the next one | `RunnerFleet` |
| `AtMostOneLateSignal` | `OneLateSignal` | |
| `RestartForgetsNothing` | the list begins with the last ids of all runners, memory holds those only this runner sends | `SignalDispatcher` |
| `RepeatsAreSpaced` | `NoEarlyRepeat` | |
| `LoopTypeCorrect` | `LoopTypeOK` | `StrategyLoop` |
| `PermitsAddUp` | `PermitsConserved` (run: `ResourcesBounded`) | |
| `NewestKlineWaits` | `NewestTriggerKept` | |
| `KlinesTakenInOrder` | the klines a loop takes get newer | |
| `TasksTypeCorrect` | `TypeOK`: uncommitted rows only inside a transaction | `WorkerTasks` |
| `HandlerKeepsItsTransaction` | from BEGIN to COMMIT a transaction is open | |
| `HeldAlphasAreRegistered` | an alpha that holds something is in the table | |
| `NothingVanishesByDefault` | `NothingVanishes`, as long as the price check is off | |
| `RuntimeTypeCorrect` | `RuntimeTypeOK` | `EngineRuntime` |
| `EntriesNeedBookAndData` | `EntriesOnlyWhenKnown` | |
| `XauConverges`, `AdxConverges`, `EmaConverges`, `ChanConverges`, `V2Converges`, `AtrConverges`, `MeanConverges`, `VnConverges` | `Converged` | the eight strategies with one position at most |
| `XauFacesTrend`, `AdxFacesTrend`, `EmaFacesTrend`, `ChanFacesTrend`, `V2FacesTrend`, `AtrFacesTrend` | `SideFollowsTrend` | the six that trade flips |
| `XauEntersOncePerTurn`, `AdxEntersOncePerTurn`, `EmaEntersOncePerTurn`, `ChanEntersOncePerTurn`, `V2EntersOncePerTurn`, `AtrEntersOncePerTurn` | `OneEntryPerTurn` (run: `NoReentry`) | the same six, under faults |
| `VnFlatAfterSession` | `FlatAfterSession` (run: `LimitsHeld`) | `Vn30` |
| `XauM30Converges` | `Converged` | `XauM30` |
| `XauM30CapHeld` | `CapHeld` (run: `LimitsHeld`) | |
| `BasketConverges` | `Converged` | `BasketBook` |
| `BasketNoOrphan` | `NoOrphanAfterRebalance` | |

**SignalWorker.** The argument has three layers.

1. Lemmas on database values, one per operation of `db.py`
   (`LogSignalProperties`, `MarkProcessedProperties`, `CreatePositionProperties`,
   `ModifyPositionProperties`, `ClosePositionProperties`, ...): the result is a
   database, which tables changed, and that the operation keeps `Sound`
   (quantities add up but for what `unreduced` counts, one position per symbol) and the
   stops, a NaN apart.
2. `ExecuteSettles`: whatever handler runs, accepting or refusing, the step is
   a `Settlement`: a value with those guarantees in which the signal is then
   recorded.
3. Inductive invariants over the consumer's steps. The properties speak of
   committed contents, but COMMIT makes durable what the handler computed two
   steps before, so they say what holds of `tx` at each `pc`.
   `BookInv`: a handler starts from `tx = db`; before COMMIT, `tx` is `Sound`,
   keeps the stops of `db`, and if its last row is an error keeps the book
   but for the one trade of a close that broke off. `RecordInv`: every committed row is processed, so the duplicate check
   sees every row there is, and a message past that check is `Fresh`; hence the
   row logged next is the only one of its id; between COMMIT and XACK the
   current message is recorded. `CounterInv`: what the counters still owe at each
   `pc`; between messages nothing.

Sections 6 to 8 of `SignalWorker_proofs` show the refinement. `Effect` says what a handler may
do to the book (nothing, one opening, one close with its trade, or the trade of a close that
broke off, each by the rules of `PositionLedger`), `ExecuteEffect` that every handler does one of these, and
`EffectInv` carries it from the handler to COMMIT. COMMIT is then one step of the
abstract ledger, every other step a stutter. The hypothesis
`SIGNAL_RETENTION_DAYS = 0` is that of the property: it is the default, and when
old rows of `signals` are deleted a signal may settle a second time.
`OpenIsClosable` rests on the same `Effect` and on the ids: an id that has a
trade was opened by an earlier signal, and a position opened anew has an id of
its own.

**VirtualLedger.** `TypeOK` and three invariants.

* `AckInv`, for `AckedIsApplied`: between COMMIT and XACK the message at hand is
  applied; the stream only grows.
* `TableInv`, for `TablesConsistent`: every position and trade has its event, so
  the check of the event id keeps a closed position from being opened again.
* `PublisherInv`, for the rest. `Dated`: book, stream, the selection at hand and
  `last` are no later than `now`; without a state the stream is empty.
  `InStep`, unless misled: memory is the state whenever the runner is up, the
  state is what the stream leaves open, and closes follow their opens.
  `NextIsNewer`: an idle runner has seen every candle in the stream (`last`), and
  a rebalance under way is for a later one, so its ids are new. Without this no step of the publisher keeps
  `StateMatchesStream`: an id published before would open nothing.

`ExecutedKeepsBooks` does the sequence arithmetic: closes are appended before
opens, one for each position that is not carried over, in any order.
`CaughtUpBooksAgree` puts both halves together: all events are applied, so the
tables hold what the stream leaves open, which is the state.

**RunnerFleet.** `OneLateSignal` is not inductive: `DispatchInv` adds that the count
is zero while the runner holds the lease and, because of `sending`, from the check
to the XADD, whatever happens to the lease in between.

**SignalDispatcher.** The list belongs to all runners of the stream, so it is not the log of
one of them. `DispatchInv` says, while all ids of this runner reached the list and every
start read it (`AllKept`): `ListIsLog`, the list begins with the last `max_seen` ids of all runners
(it may be longer: LTRIM can fail after LPUSH); and `MemoryHolds`, an id no other runner
sends is in memory until `max_seen` ids of all runners followed it, with no more ids behind
it than went to the list since. The second half is about the place, not only the presence:
it is what keeps the id when the next one pushes the oldest out. A start finds such an id in
the list, and turning the list into a dictionary only brings it nearer to the end
(`DeduplicatedProperties`). An id that passes the check is not in memory, so its last use
is further back. `RestartForgetsNothing` states the two halves, `RepeatsAreSpaced` the property.

**StrategyLoop.** `PermitInv`: who holds a permit is in its handler. `KlineInv`: the
events of a queue are in the order received, its klines are newer than the one
taken, and the newest one received waits unless it was taken; an event is evicted
for a kline only, which then is the newest.

**WorkerTasks.** `TasksInv`. That uncommitted rows imply a transaction is not
inductive, because the consumer's statements do not open one: `OpenUntilCommit`
says that the transaction of its BEGIN is still open at each of them, which is what
`_tx_depth` is for (the price check does not commit while it is up).
`HeldAlphasAreKnown` closes the gap between `SnapshotSettles`, which speaks of the
alphas in the table, and the alphas that hold positions. For
`NothingVanishesByDefault`, `ClosedHasTrade` compares both sides of the connection:
a position missing from `view` and not from `disk` has its trade in `view`, and so
it has before the DELETE; a rollback makes both equal, a COMMIT takes all of it.

**EngineRuntime.** `RuntimeInv` ties each flag to its cause: the flag of the reconcile
is set while the engine runs without an accepted snapshot, that of the data from the
tick that noticed the silence to the next message. The runtime state alone would not
do: a rewarm-up sets it to LIVE whenever no flag is set.

**Plans.** A scan runs a plan of any length, so every fact about a scan is an
induction over that length. The library's induction theorems take an operator as
parameter, which no prover here instantiates; `StrategyBook_proofs` argues by the
least counterexample instead (`LeastNat`, from the well-foundedness of `<` on the
naturals). `Course` is the sequence of a mind's states along a plan (a mind is what
a strategy keeps plus the stream it sends to), `AfterFrom` the last of them;
`AfterBoth` says what a plan made of two does, `AfterOne` what a single step does.
The lemmas on elementary steps (`Send`, `Keep`, `Drop`, `Turn`, `Seen`, `Done`,
`Save`) then chain to whole plans.

**Strategies with one position.** `Converged` speaks of a drained stream and is not
inductive. `Settled(W, q)` is what a worker with book `W` will hold when it has taken
every signal of `q`, and `Agreed` says that this is at most one position, and the
one the strategy holds. `Mirrored` is the invariant: while nothing failed, the mind
agrees with the worker and what is saved has the same ids. It is kept by each signal
the worker takes (which moves an element from `q` into `W`), by a restart that loads
the snapshot (while signals are in the stream that is a fault) or the saved state, and by each
scan. For the scans, `Moved` and `Ended` say that a plan leads to a mind that agrees again:
`CloseEach`, `Close_all`, a flip, an entry and a stop update each have their lemma,
and the proof of a strategy splits its `Scan` along the conditions of the code. Two
things do the work: a plan closes before it opens, so that the worker's
duplicate check never refuses the OPEN; and a position has an id of its own, so
a CLOSE hits no other one. The marks of the candles (`now`, `pending`, `last`) stay in
the domain `Tf` of the timeframes; `SideFollowsTrend` asks besides that the one a
strategy scans on is in `Tf`. For `FlatAfterSession`, `VnFlat` adds that the marks
do not run ahead of the bars: the forced-flat bar is seen as new exactly once,
and its scan closes.

**One entry per turn.** `OneEntryPerTurn` is about steps that may fail: a plan then breaks
off after any of its steps, or goes on without the send that raised. So this argument
does not follow a plan to its end but asks what each of its steps may do: `Orderly`
plans keep a new position only on the side of a turn that happened earlier in the
same plan, and `Along` is what a mind on the way through such a plan holds, wherever it
stops. `EntryInv`: positions have the strategy's symbol, and the entry taken since
the trend turned has the side of that turn; so the next new position belongs to
the other one. The order matters: each of these scans notes the new trend before it enters, and
nothing takes the trend back when the send of the entry raises.

**XauM30.** `Matched` is `Agreed` for a set of legs: those of the strategy have distinct ids
(`Leg` bounds the candle in the id by the newest one), and a leg of the newest
candle has its price, which keeps an alert from adding a second leg with the same
id. The worker holds the legs of the strategy less `dropped`, those whose OPEN was taken for a
repeat; `Recalls` says that these ids are remembered, and that there are none without hashed ids. `Capped` carries the bound of `CapHeld` through the stream: not only what the worker
holds, but every book on its way through the pending signals is within
`max_positions`. `Sane`, the hypothesis, says that prices are integers, the distance
between legs is positive, `15m` is a timeframe, and a second position on a symbol is allowed
exactly if `max_positions > 1` (`strategy.py:648`), which all six presets satisfy. With a cap of 1
the worker's duplicate check is on; a leg is then opened only while the strategy holds none,
so the worker holds none when it comes to that OPEN and does not refuse it.

**BasketBook.** Legs are taken and given up by symbol, and the worker's book is *equal* to
the strategy's once drained (`Exact`), not only in its ids. A rebalance lays out sets as
sequences, closes first; `EachOfThem`, `AllKept`, `AllClosed` and `AllEntered` give the
effect of the same short plan for each element of a set, in whatever order, hence
the hypothesis `IsFiniteSet(Symbols)`. The other one, `~HashedIds`, is that ids are
random: no OPEN is a repeat. `Exact` also says that without a fault no CLOSE was
remembered in vain. For
`NoOrphanAfterRebalance`, which holds under faults, `Swept` says of a rebalance that lost no
signal, and none on an earlier try of its candle, that every pending OPEN is one of the strategy's symbols, and that every
position of the worker is the strategy's, was taken by the rebalance for one of its own
(`spared`), or has its CLOSE in the stream. `Fine` keeps the sets of the
mind finite, through plans that break off as well.

What stays with TLC:

* the liveness properties (`EveryMessageHandled`, `PublishedIsApplied`, `LeasesReturn`,
  `CriticalIsHandled`, `HeldIsRegistered`, `SnapshotSettles`, `DataFlagClears`,
  `BooksMeet`, `HeldIsWatched`), which need fairness and ENABLED;
* `CapacityAtMostDoubled` and the full `TypeOK` of `RunnerFleet`, where `OwnedCount` is
  a sum over a set, that is a recursion over data; hence `ResourcesBounded` as a whole,
  of which `PermitsConserved` and `LoopTypeOK` are proved;
* the engines' `TypeOK`, `BooksAgree`, `NoOrderBesidePosition`, `HourIsDecided` and
  `StopsOnlyTighten`: `EngineSteps` folds a plan over a record of the engine's own
  fields, and each engine has its own reconcile, so nothing of
  `StrategyBook_proofs` carries over without the same induction for every one;
* `TypeOK` and `TrailOnlyTightens` of the strategies, which are about the levels
  inside a position's runtime.

`MCStrategies` states `LimitsHeld`, `NoOrphanAfterRebalance` and `NoReentry` for the
part that runs; the theorems are about the modules of the strategies, where the same
formulas are called `CapHeld`, `FlatAfterSession`, `NoOrphanAfterRebalance` and
`OneEntryPerTurn`.

## 5. Not modelled

* The candle cache: index arithmetic over numpy rings. Strategies see the newest
  closed candle only. Its hazard, a panel built in a thread from views of a ring
  that goes on changing (`shared_panel_feature_cache.py:202`), has no statement in
  the code that says what a panel may contain.
* Order-book execution, fills, latency: prices. A fill that fails falls back to a
  fixed percentage and no state of the modules depends on it.
* Warm-up, parquet and funding restore, snapshots of candles: bulk data.
* Indicators, factor and vote computations, portfolio arithmetic: floating-point
  functions without state; their results are any outcome in the models.
* Ownership monitor, equity snapshots, telegram, metrics, health, dashboards:
  reports that nothing else reads.
* Scripts, `checkpoint_virtual_ledger.py` among them: run by hand, with no schedule
  in the code.

## 6. Plan

1. Proofs for the engines: the lemmas on plans of `StrategyBook_proofs` once more for the
   folds of `EngineSteps`, then `NoOrderBesidePosition` of `SongThan` and `HourIsDecided`
   of `BangocV22`.
2. `TrailOnlyTightens` of the strategies, over the orderly plans of the entries.
3. The order-book circuit breaker and the candle ring, if a property of theirs is
   found that the repository states.
