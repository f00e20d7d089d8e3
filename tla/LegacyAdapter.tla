---------------------------- MODULE LegacyAdapter ----------------------------
(***************************************************************************)
(* A standalone engine inside the runner (LegacyStandaloneRunnerStrategy). *)
(* The event task scans at candle closes, computing in a thread; price     *)
(* alerts come through the same task; the manage loop is another.  What the*)
(* engine pushes is captured in an outbox, flushed to the dispatcher       *)
(* afterwards, and the positions are saved at last.  The engine is the     *)
(* operators Indicators, Apply, Manage, Alert and Adopted.                 *)
(***************************************************************************)
EXTENDS EngineSteps

CONSTANTS
    Indicators(_, _),   \* what the thread computes of a row and the positions
    Apply(_, _, _),     \* plan of a scan, given the indicators
    Manage(_, _),       \* plan of _manage_positions
    Alert(_, _, _),     \* plan of on_price_alert_message
    Adopted(_),         \* a worker's position as the engine adopts it
    InitMind,           \* the engine's other variables at start
    Threaded,           \* _build_symbol_row, _compute_indicators, _apply_decision exist
    Market,             \* what a candle of the primary timeframe may show
    Ticks,              \* prices of alerts
    Hours,              \* scan_on_tfs has the higher timeframe too
    PerHour,            \* primary candles in one of the higher timeframe
    MaxCandles, MaxRescans, MaxRestarts, MaxFaults   \* bounds

VARIABLES
    closed, bar, scanned,  \* candles per timeframe, the newest one, _last_scan_candle_ms
    task,                  \* the event task: idle, or a scan whose thread computes
    held, mind, outbox,    \* _open_positions, the rest of the engine, _pending_signals
    seen, stream, worker,  \* ids the dispatcher knows; signals under way; open positions
    snapshot, saved,       \* paper:positions:snapshot; runner:positions
    manager, gate,         \* the manage loop lives; ctx.can_open_trades
    opened,                \* positions opened, to number them
    clean,                 \* history: nothing was lost and no restart read old positions
    rescans, restarts, faults

vars == <<closed, bar, scanned, task, held, mind, outbox, seen, stream, worker, snapshot,
          saved, manager, gate, opened, clean, rescans, restarts, faults>>
market == <<closed, bar>>
workers == <<worker, snapshot>>
engine == <<held, mind, outbox, seen, stream, saved, opened>>

Tfs == IF Hours THEN {"main", "hour"} ELSE {"main"}
Idle == [at |-> "idle"]
Ids(S) == {p.id : p \in S}

Init ==
    /\ closed = [tf \in Tfs |-> IF tf = "main" THEN 1 ELSE 0] /\ bar \in Market
    /\ scanned = [tf \in Tfs |-> 0] /\ task = Idle
    /\ held = {} /\ mind = InitMind /\ outbox = <<>>
    /\ seen = {} /\ stream = <<>> /\ worker = {} /\ snapshot = {} /\ saved = {}
    /\ manager = TRUE /\ gate = TRUE /\ opened = 0 /\ clean = TRUE
    /\ rescans = 0 /\ restarts = 0 /\ faults = 0

Fault == faults < MaxFaults /\ faults' = faults + 1

State == [held |-> held, mind |-> mind, out |-> outbox]
Context ==
    [n |-> closed["main"], life |-> opened, bar |-> bar, minutes |-> <<>>, start |-> 0,
     ready |-> gate, fresh |-> TRUE,
     hours |-> IF Hours THEN closed["hour"] * PerHour ELSE 0]

\* dispatch, which never awaits: signal_id is made of the type or reason, the position
\* and its entry candle; an id known already is skipped.
SignalId(step) == <<step.kind, step.pos.id, step.pos.run.since>>
Dispatched(d, step) ==
    IF SignalId(step) \in d.seen THEN d
    ELSE [seen |-> d.seen \cup {SignalId(step)}, stream |-> Append(d.stream, step)]

\* (mutant: one signal for each flush)
FlushOne(out) ==
    LET n == IF out = <<>> THEN 0 ELSE 1
        d == FoldLeft(Dispatched, [seen |-> seen, stream |-> stream], SubSeq(out, 1, n))
    IN seen' = d.seen /\ stream' = d.stream /\ outbox' = SubSeq(out, n + 1, Len(out))

\* _flush_signals
FlushSignals(out) ==
    LET d == FoldLeft(Dispatched, [seen |-> seen, stream |-> stream], out)
    IN seen' = d.seen /\ stream' = d.stream /\ outbox' = <<>>

\* The k-th signal is popped and remembered when its XADD raises: it is lost, the ones
\* behind it wait for another flush, nothing is saved.
FlushRaises(out) ==
    \E k \in DOMAIN out :
        /\ SignalId(out[k]) \notin seen /\ Fault /\ clean' = FALSE
        /\ LET d == FoldLeft(Dispatched, [seen |-> seen, stream |-> stream], SubSeq(out, 1, k - 1))
           IN seen' = d.seen \cup {SignalId(out[k])} /\ stream' = d.stream
        /\ outbox' = SubSeq(out, k + 1, Len(out))

\* _persist_positions; a Redis error is swallowed.
PersistPositions ==
    \/ saved' = held' /\ UNCHANGED <<faults, clean>>
    \/ UNCHANGED saved /\ saved # held' /\ Fault /\ clean' = FALSE

\* A decision, flush and save, without an await between them.
Perform(plan, raises) ==
    LET ran == UpToRaise(plan)
        s == After(State, ran)
    IN /\ held' = s.held /\ mind' = s.mind
       /\ opened' = opened + Len(SelectSeq(ran, LAMBDA x : x.do = "push" /\ x.kind = "OPEN"))
       /\ \/ ~ raises /\ ran = plan /\ FlushSignals(s.out) /\ PersistPositions
          \/ raises /\ ran = plan /\ FlushRaises(s.out) /\ UNCHANGED saved
          \/ /\ raises /\ ran # plan
             /\ outbox' = s.out /\ UNCHANGED <<seen, stream, saved, faults, clean>>
       /\ UNCHANGED <<market, workers, gate, restarts>>

\* Fifteen minutes are longer than an event's time limit and the way to the worker and
\* back.  The candle that ends an hour and the hour come in either order.
Settled == task = Idle /\ stream = <<>> /\ snapshot = worker
CandleCloses(tf) ==
    /\ Settled
    /\ closed' = [closed EXCEPT ![tf] = @ + 1]
    /\ IF tf = "main"
       THEN /\ closed[tf] < MaxCandles /\ bar' \in Market
            /\ Hours => closed'[tf] <= (closed["hour"] + 1) * PerHour
       ELSE closed'[tf] * PerHour <= closed["main"] + 1 /\ UNCHANGED bar
    /\ UNCHANGED <<scanned, task, engine, workers, manager, gate, clean, rescans, restarts, faults>>

\* _scan_single_symbol builds the row, its lists no longer change; engines without
\* _build_symbol_row decide at once.
Start ==
    /\ task = Idle /\ UNCHANGED manager
    /\ IF Threaded
       THEN /\ task' = [at |-> "thread", n |-> closed["main"], bar |-> bar, indic |-> InitMind]
            /\ UNCHANGED <<market, engine, workers, gate, clean, restarts, faults>>
       ELSE UNCHANGED task /\ \E raises \in BOOLEAN : Perform(Apply(State, Context, bar), raises)

\* should_scan_after_event: once per candle and timeframe.
Scan(tf) ==
    /\ scanned[tf] < closed[tf] /\ Start
    /\ scanned' = [scanned EXCEPT ![tf] = closed[tf]] /\ UNCHANGED rescans

\* The event "symbols" (the universe broadcast) scans whatever was scanned before.
Rescan ==
    /\ rescans < MaxRescans /\ rescans' = rescans + 1
    /\ Start /\ UNCHANGED scanned

\* asyncio.to_thread: _compute_indicators reads the positions when it runs.
Compute ==
    /\ task.at = "thread"
    /\ task' = [task EXCEPT !.at = "computed", !.indic = Indicators([n |-> task.n, bar |-> task.bar], held)]
    /\ UNCHANGED <<market, scanned, engine, workers, manager, gate, clean, rescans, restarts, faults>>

\* _apply_decision with the row of the start, on the positions of now.
ScanEnds ==
    /\ task.at = "computed" /\ task' = Idle /\ UNCHANGED <<scanned, manager, rescans>>
    /\ \E raises \in BOOLEAN :
          Perform(Apply(State, [Context EXCEPT !.n = task.n, !.bar = task.bar], task.indic), raises)

\* run_strategy_event_loop gives the event up; what should_scan noted stays.
ScanTimesOut ==
    /\ task # Idle /\ task' = Idle /\ Fault
    /\ UNCHANGED <<market, scanned, engine, workers, manager, gate, clean, rescans, restarts>>

\* run_strategy_manage_loop, between the steps of the event task; an exception ends it.
ManagePositions ==
    /\ manager /\ held # {} /\ UNCHANGED <<scanned, task, rescans>>
    /\ \E raises \in BOOLEAN : Perform(Manage(State, Context), raises) /\ manager' = ~ raises

OnPriceAlert ==
    /\ task = Idle /\ held # {} /\ UNCHANGED <<scanned, task, manager, rescans>>
    /\ \E price \in Ticks, raises \in BOOLEAN : Perform(Alert(State, Context, price), raises)

\* ctx.can_open_trades, of the runner's staleness and lease.
GateMoves ==
    /\ gate' = ~ gate /\ clean' = FALSE
    /\ gate => Fault
    /\ ~ gate => UNCHANGED faults
    /\ UNCHANGED <<market, scanned, task, engine, workers, manager, rescans, restarts>>

\* The worker: one position per symbol; a partial CLOSE cuts the quantity.
Full == {"CLOSE", "SL", "TP", "TP_TRAIL", "TIME", "REDUCE100"}
WorkerTakes ==
    /\ stream # <<>> /\ stream' = Tail(stream)
    /\ LET s == Head(stream)
           mine == {p \in worker : p.id = s.pos.id}
       IN worker' =
            CASE s.kind = "OPEN" /\ Of(worker, s.pos.symbol) = {} -> worker \cup {s.pos}
              [] s.kind = "MODIFY" -> (worker \ mine) \cup {[p EXCEPT !.sl = s.pos.sl] : p \in mine}
              [] s.kind = "REDUCE" -> (worker \ mine) \cup {[p EXCEPT !.run.cuts = @ + 1] : p \in mine}
              [] s.kind \in Full -> worker \ mine
              [] OTHER -> worker
    /\ UNCHANGED <<market, scanned, task, held, mind, outbox, seen, snapshot, saved, manager, gate, opened, clean, rescans, restarts, faults>>

\* Its price check closes a position by itself.
WorkerCloses ==
    /\ worker # {} /\ worker' = {} /\ Fault /\ clean' = FALSE
    /\ UNCHANGED <<market, scanned, task, engine, snapshot, manager, gate, rescans, restarts>>

Publish ==
    /\ snapshot # worker /\ snapshot' = worker
    /\ UNCHANGED <<market, scanned, task, engine, worker, manager, gate, clean, rescans, restarts, faults>>

\* merge_authoritative_positions: the worker says which, the saved runtime is kept.
Merged ==
    {IF w.id \in Ids(saved) THEN CHOOSE p \in saved : p.id = w.id ELSE Adopted(w) : w \in snapshot}

\* A new process, at any moment; its dispatcher loads the ids from Redis.
Restart ==
    /\ restarts < MaxRestarts /\ restarts' = restarts + 1
    /\ held' = Merged /\ mind' = InitMind /\ outbox' = <<>> /\ task' = Idle
    /\ scanned' = [tf \in Tfs |-> 0] /\ manager' = TRUE
    /\ clean' = (clean /\ outbox = <<>> /\ stream = <<>> /\ snapshot = worker)
    /\ UNCHANGED <<market, seen, stream, workers, saved, gate, opened, rescans, faults>>

Next ==
    \/ \E tf \in Tfs : CandleCloses(tf) \/ Scan(tf)
    \/ Rescan \/ Compute \/ ScanEnds \/ ScanTimesOut \/ ManagePositions \/ OnPriceAlert
    \/ GateMoves \/ WorkerTakes \/ WorkerCloses \/ Publish \/ Restart

Spec == Init /\ [][Next]_vars
-----------------------------------------------------------------------------
TypeOK ==
    /\ task.at \in {"idle", "thread", "computed"} /\ bar \in Market
    /\ Cardinality(held) <= 1 /\ Cardinality(worker) <= 1
    /\ {manager, gate, clean} \subseteq BOOLEAN /\ faults \in 0..MaxFaults
    /\ \A tf \in Tfs : scanned[tf] <= closed[tf]

\* While nothing is lost, the engine and the worker agree, once the stream is drained,
\* on what is open and how often it was cut, restarts included.
Cuts(S) == {<<p.id, p.run.cuts>> : p \in S}
BooksAgree == clean /\ stream = <<>> => Cuts(held) = Cuts(worker)

\* A stop never loosens while the process lives.
StopNeverLoosens ==
    restarts' = restarts =>
        \A p \in held : \A q \in held' :
            p.id = q.id => Sign(p.side) * q.sl >= Sign(p.side) * p.sl

\* "The entry candle predates the position and must never drive an exit": neither the
\* scan nor the manage loop ends a position while its entry candle is the newest.
EntryCandleNeverExits ==
    ScanEnds \/ ManagePositions =>
        \A p \in held : p.run.since = closed["main"] => p.id \in Ids(held')
=============================================================================
