----------------------------- MODULE EngineBook -----------------------------
(***************************************************************************)
(* A standalone alpha (BaseEngine.run) between the market and the worker:  *)
(* its scan, manage and listener tasks decide and push signals into the    *)
(* stream; the worker applies them and publishes its book; the reconcile   *)
(* loop replaces the engine's positions by that book, whatever is still on *)
(* its way; the listener follows with its price-alert channels.  The engine*)
(* is the operators Decide, Alert and Manage.                              *)
(***************************************************************************)
EXTENDS EngineSteps

CONSTANTS
    Decide(_, _),       \* plan of a scan
    Alert(_, _, _),     \* plan of a price alert
    Manage(_, _),       \* plan of the manage loop
    InitMind,           \* the engine's other variables at start
    Market,             \* what a candle may show
    Ticks,              \* prices of 1m candles and alerts, {} when not used
    Polls,              \* the scan loop polls; the others wait for the next candle
    MaxCandles, MaxMinutes,
    MaxStream,          \* bound: a decision is made with fewer signals under way; the
                        \* reconcile loop may bring a closed position back any number of times
    MaxRestarts,        \* bound: restarts of the engine
    MaxFaults           \* bound: failed pushes, suspensions, closes by the worker

VARIABLES
    now, bar, scanned,  \* candles closed so far, the newest one, the one scanned last
    minutes, start,     \* 1m prices; how many there were when the candle closed
    held, mind,         \* _open_positions and the engine's other variables
    stream, worker,     \* the signals under way; the worker's open positions
    snapshot, published, \* paper:positions:snapshot:{alpha}; it exists
    ready,              \* can_open_new_trades()
    changed, watched,   \* _positions_changed; _subscribed_price_alert_symbols
    restarts, faults

vars == <<now, bar, scanned, minutes, start, held, mind, stream, worker, snapshot,
          published, ready, changed, watched, restarts, faults>>

Symbols(S) == {p.symbol : p \in S}
Ids(S) == {p.id : p \in S}

Init ==
    /\ now = 1 /\ bar \in Market /\ scanned = 0 /\ minutes = <<>> /\ start = 0
    /\ held = {} /\ mind = InitMind
    /\ stream = <<>> /\ worker = {} /\ snapshot = {} /\ published = FALSE
    /\ ready = TRUE /\ changed = FALSE /\ watched = {}
    /\ restarts = 0 /\ faults = 0

Fault == faults < MaxFaults /\ faults' = faults + 1

State == [held |-> held, mind |-> mind, out |-> stream]
Context(fresh) ==
    [n |-> now, life |-> restarts, bar |-> bar, minutes |-> minutes, start |-> start,
     ready |-> ready, fresh |-> fresh]

\* A decision runs to its end, or an XADD raises in the middle and the rest of it is
\* lost; what came before the raise stays.
Run(plan) ==
    /\ Len(stream) < MaxStream
    /\ \/ LET s == After(State, plan)
          IN held' = s.held /\ mind' = s.mind /\ stream' = s.out /\ UNCHANGED faults
       \/ \E k \in 1..Len(plan) :
             /\ plan[k].do = "push" /\ Fault
             /\ LET s == After(State, SubSeq(plan, 1, k - 1))
                IN held' = s.held /\ mind' = s.mind /\ stream' = s.out
    /\ changed' = (changed \/ Symbols(held') # Symbols(held))
    /\ UNCHANGED <<now, bar, minutes, start, worker, snapshot, published, ready, watched, restarts>>

\* Candles are at least minutes apart, the pipeline from a push to the reconcile
\* takes seconds: when a candle closes, everything has settled.
Stops(S) == {<<p.id, p.sl>> : p \in S}
Settled == stream = <<>> /\ snapshot = worker /\ Stops(held) = Stops(worker)

CandleCloses ==
    /\ now < MaxCandles /\ Settled
    /\ now' = now + 1 /\ bar' \in Market /\ start' = Len(minutes)
    /\ UNCHANGED <<scanned, minutes, held, mind, stream, worker, snapshot, published, ready, changed, watched, restarts, faults>>

MinuteCloses ==
    /\ Len(minutes) < MaxMinutes
    /\ \E price \in Ticks : minutes' = Append(minutes, price)
    /\ UNCHANGED <<now, bar, scanned, start, held, mind, stream, worker, snapshot, published, ready, changed, watched, restarts, faults>>

\* scan_loop, manage_loop and on_price_alert_message (of a watched symbol).
Scan ==
    /\ Polls \/ scanned < now
    /\ scanned' = now
    /\ \E fresh \in BOOLEAN : Run(Decide(State, Context(fresh)))
ManageLoop == held # {} /\ Run(Manage(State, Context(TRUE))) /\ UNCHANGED scanned
PriceAlert ==
    /\ UNCHANGED scanned /\ watched # {}
    /\ \E price \in Ticks : Run(Alert(State, Context(TRUE), price))

\* EngineRuntime: the engine becomes stale, and live again.
Suspends ==
    /\ ready /\ ready' = FALSE /\ Fault
    /\ UNCHANGED <<now, bar, scanned, minutes, start, held, mind, stream, worker, snapshot, published, changed, watched, restarts>>
Resumes ==
    /\ ~ ready /\ ready' = TRUE
    /\ UNCHANGED <<now, bar, scanned, minutes, start, held, mind, stream, worker, snapshot, published, changed, watched, restarts, faults>>

\* The worker applies a signal: one open position per symbol, CLOSE and MODIFY of a
\* position it does not know are rejected.
WorkerTakes ==
    /\ stream # <<>> /\ stream' = Tail(stream)
    /\ LET s == Head(stream)
       IN worker' =
            CASE s.kind = "OPEN" /\ s.pos.symbol \notin Symbols(worker) -> worker \cup {s.pos}
              [] s.kind = "MODIFY" /\ s.pos.id \in Ids(worker) -> Without(worker, s.pos) \cup {s.pos}
              [] s.kind = "CLOSE" -> {p \in worker : p.id # s.pos.id}
              [] OTHER -> worker
    /\ UNCHANGED <<now, bar, scanned, minutes, start, held, mind, snapshot, published, ready, changed, watched, restarts, faults>>

\* Its price check closes a position by itself.
WorkerCloses ==
    /\ Fault /\ \E p \in worker : worker' = worker \ {p}
    /\ UNCHANGED <<now, bar, scanned, minutes, start, held, mind, stream, snapshot, published, ready, changed, watched, restarts>>

\* publish_after_commit and the repair loop of the publisher.
Publish ==
    /\ snapshot' = worker /\ published' = TRUE
    /\ UNCHANGED <<now, bar, scanned, minutes, start, held, mind, stream, worker, ready, changed, watched, restarts, faults>>

\* (mutants: positions the snapshot does not have are kept; what is held is kept beside
\* what the worker says of it)
ReconciledBeside(old) == old \cup snapshot
ReconciledKeeps(old) == {p \in old : p.symbol \notin Symbols(snapshot)} \cup snapshot

\* reconcile_positions: a position the snapshot lacks is dropped, one it has is taken
\* over as the worker knows it, with the runtime its last signal carried.
Reconciled(old) == snapshot

\* A missing snapshot is accepted, if nothing is held.  Every success marks the
\* positions as changed.
ReconcilePositions ==
    /\ published \/ held = {}
    /\ held' = Reconciled(held) /\ changed' = TRUE
    /\ UNCHANGED <<now, bar, scanned, minutes, start, mind, stream, worker, snapshot, published, ready, watched, restarts, faults>>

\* (mutant: channels are only given up)
UnsubscribedOnly(old) == old \cap Symbols(held)
Subscribed(old) == Symbols(held)

\* _refresh_price_alert_subscriptions, between two messages of the listener.
RefreshPriceAlertSubscriptions ==
    /\ changed /\ changed' = FALSE /\ watched' = Subscribed(watched)
    /\ UNCHANGED <<now, bar, scanned, minutes, start, held, mind, stream, worker, snapshot, published, ready, restarts, faults>>

\* A new process: the startup reconcile before the listener connects.
Restart ==
    /\ restarts < MaxRestarts /\ restarts' = restarts + 1
    /\ held' = snapshot /\ scanned' = IF Polls THEN 0 ELSE now
    /\ mind' = InitMind /\ changed' = FALSE /\ watched' = Symbols(held') /\ ready' = TRUE
    /\ UNCHANGED <<now, bar, minutes, start, stream, worker, snapshot, published, faults>>

Next ==
    \/ CandleCloses \/ MinuteCloses \/ Scan \/ ManageLoop \/ PriceAlert
    \/ Suspends \/ Resumes \/ WorkerTakes \/ WorkerCloses \/ Publish
    \/ ReconcilePositions \/ RefreshPriceAlertSubscriptions \/ Restart

Fairness ==
    /\ WF_vars(WorkerTakes) /\ WF_vars(Publish) /\ WF_vars(ReconcilePositions)
    /\ WF_vars(RefreshPriceAlertSubscriptions)

Spec == Init /\ [][Next]_vars /\ Fairness
-----------------------------------------------------------------------------
TypeOK ==
    /\ now \in 1..MaxCandles /\ bar \in Market /\ Len(minutes) <= MaxMinutes
    /\ Cardinality(Symbols(held)) = Cardinality(held)
    /\ Cardinality(Symbols(worker)) = Cardinality(worker)
    /\ {ready, changed} \subseteq BOOLEAN /\ faults \in 0..MaxFaults

\* Whatever raised, crashed or was closed behind its back, the engine's positions
\* become the worker's, and stay so.
BooksMeet == <>[](Ids(held) = Ids(worker))

\* Every symbol the engine holds for good gets its ticks.
HeldIsWatched == []<>(Symbols(held) \subseteq watched)

\* The stop the worker keeps for a position only moves with the profit, although the
\* reconcile loop puts older stops back into the engine.
WorkerStopOnlyTightens ==
    \A p \in worker : \A q \in worker' :
        p.id = q.id => Sign(p.side) * q.sl >= Sign(p.side) * p.sl
=============================================================================
