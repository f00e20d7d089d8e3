--------------------------- MODULE StrategyBook ---------------------------
(***************************************************************************)
(* What every position-holding strategy of the runner shares: closed       *)
(* candles wake it, it decides, it sends OPEN, CLOSE and MODIFY signals one*)
(* by one and edits its own positions between the sends, it saves them, and*)
(* after a restart it takes its positions back from the worker's snapshot. *)
(* The decision itself is the module of the strategy: a "plan", the        *)
(* sequence of elementary steps of one scan, in the order of the code.     *)
(***************************************************************************)
EXTENDS Integers, Sequences, SequencesExt, FiniteSets

CONSTANTS
    Tf,            \* timeframes the strategy listens to
    MaxCandles,    \* bound: candles that close, per timeframe
    MaxRestarts,   \* bound: restarts of the runner
    MaxFaults,     \* bound: sends that fail and closes of the worker's own
    AllowDuplicate,\* allow_duplicate_position in the metadata of an OPEN
    HashedIds      \* position ids are hashes, equal when a candle is scanned again, and
                   \* not random ones (uuid5, uuid4)

VARIABLES
    now,        \* [Tf -> candles closed so far]: the newest one in the cache
    candle,     \* [Tf -> the newest closed candle]
    pending,    \* [Tf -> candle a scan was asked for, 0 for none]
    last,       \* [Tf -> candle scanned last, 0 for none]
    trend,      \* _last_trend_dir: 1 down, -1 up, 0 not known yet
    held,       \* _positions: the strategy's own positions
    saved,      \* runner:positions:{alpha}, the runner's cache of them
    stream,     \* signals the worker has not taken yet
    worker,     \* the worker's open positions, as their OPEN described them
    published,  \* the worker has published a snapshot of this alpha
    remembered, \* ids of the OPENs in the dispatcher's memory, over restarts too
    dropped,    \* history: ids of the OPENs it took for repeats
    entered,    \* history: side opened since the trend last turned, or "none"
    restarts, faults

book == <<now, candle, pending, last, trend, held, saved, stream, worker,
          published, remembered, dropped, entered, restarts, faults>>

Down == 1
Up == -1
Toward(side) == IF side = "LONG" THEN Up ELSE Down
SideOf(dir) == IF dir = Down THEN "SHORT" ELSE "LONG"

\* The elementary steps of a scan: send a signal, record or forget a position
\* (or all of them), believe in a direction, remember the scanned candle, clear the request, save.
Send(kind, p) == [do |-> "send", kind |-> kind, pos |-> p]
Keep(p) == [do |-> "keep", pos |-> p]
Drop(p) == [do |-> "drop", pos |-> p]
Turn(dir) == [do |-> "turn", dir |-> dir]
Clear == [do |-> "clear"]
Seen(t) == [do |-> "seen", tf |-> t]
Done(t) == [do |-> "done", tf |-> t]
Save == [do |-> "save"]

Others(S, p) == {q \in S : q.id # p.id}

\* dispatch: an OPEN whose id is remembered is a repeat and goes nowhere, which no
\* strategy notices.  The id is remembered before XADD.  (An id the dispatcher has
\* forgotten is stopped by the worker, which does not process a signal_id twice.)
Repeated(s, step) == HashedIds /\ step.kind = "OPEN" /\ step.pos.id \in s.remembered

Remembering(s, step) ==
    IF step.kind = "OPEN" THEN [s EXCEPT !.remembered = @ \cup {step.pos.id}] ELSE s

Dispatched(s, step) ==
    IF Repeated(s, step) THEN [s EXCEPT !.dropped = @ \cup {step.pos.id}]
    ELSE [Remembering(s, step) EXCEPT !.stream = Append(@, step)]

Performed(s, step) ==
    CASE step.do = "send" -> Dispatched(s, step)
      [] step.do = "keep" -> [s EXCEPT !.held = Others(@, step.pos) \cup {step.pos}]
      [] step.do = "drop" -> [s EXCEPT !.held = Others(@, step.pos)]
      [] step.do = "clear" -> [s EXCEPT !.held = {}]
      [] step.do = "turn" -> [s EXCEPT !.trend = step.dir]
      [] step.do = "seen" -> [s EXCEPT !.last[step.tf] = s.pending[step.tf]]
      [] step.do = "done" -> [s EXCEPT !.pending[step.tf] = 0]
      [] step.do = "save" -> [s EXCEPT !.saved = s.held]

Mind == [held |-> held, saved |-> saved, stream |-> stream, trend |-> trend,
         pending |-> pending, last |-> last, remembered |-> remembered, dropped |-> dropped]

\* The steps of a plan, one after the other.
AfterFrom(s, plan) ==
    LET after[k \in 0..Len(plan)] == IF k = 0 THEN s ELSE Performed(after[k - 1], plan[k])
    IN after[Len(plan)]

AfterPlan(plan) == AfterFrom(Mind, plan)

NewIn(S) == {p \in S : p.id \notin {q.id : q \in held}}

Becomes(s) ==
    /\ held' = s.held /\ saved' = s.saved /\ stream' = s.stream
    /\ trend' = s.trend /\ pending' = s.pending /\ last' = s.last
    /\ remembered' = s.remembered /\ dropped' = s.dropped
    /\ entered' = IF NewIn(s.held) # {} THEN (CHOOSE p \in NewIn(s.held) : TRUE).side
                  ELSE IF s.trend # trend THEN "none" ELSE entered

\* XADD raises for the step, after s: the rest of the scan is lost.
Raises(s, step) == ~ Repeated(s, step) /\ Becomes(Remembering(s, step))

\* await self.ctx.emit_signal in the middle of a scan: the send succeeds, or it
\* raises and the rest of the scan is lost, or the dispatcher drops the signal
\* (no lease) and returns None, which no strategy looks at.
Perform(plan) ==
    /\ \/ Becomes(AfterPlan(plan)) /\ UNCHANGED faults
       \/ \E k \in 1..Len(plan) :
            /\ plan[k].do = "send" /\ faults < MaxFaults
            /\ faults' = faults + 1
            /\ \/ Raises(AfterPlan(SubSeq(plan, 1, k - 1)), plan[k])
               \/ Becomes(AfterPlan(RemoveAt(plan, k)))
    /\ UNCHANGED <<now, candle, worker, published, restarts>>

\* The plans of every position, one after the other.
ForEach(S, Plan(_)) ==
    LET q == SetToSeq(S) IN FlattenSeq([i \in 1..Len(q) |-> Plan(q[i])])

\* The candle a scan was asked for is still the newest of its timeframe.
Asked(t) == pending[t] # 0 /\ now[t] = pending[t]

\* The one position of a strategy that holds at most one.
Existing(S) == CHOOSE p \in S : TRUE

\* (mutant: the first scan believes the trend of now, whatever it holds)
AdoptedTrend(dir) == dir

\* First scan of a life: the side of the position it found, else the trend now.
Adopted(dir) == IF held = {} THEN dir ELSE Toward(Existing(held).side)
-----------------------------------------------------------------------------
StartBook(C) ==
    /\ now = [t \in Tf |-> 1]
    /\ candle \in C
    /\ pending = [t \in Tf |-> 0] /\ last = pending
    /\ trend = 0 /\ held = {} /\ saved = {} /\ stream = <<>> /\ worker = {}
    /\ published = FALSE /\ remembered = {} /\ dropped = {}
    /\ entered = "none" /\ restarts = 0 /\ faults = 0

\* The next candle of a timeframe closes and enters the cache.
CandleCloses(t, C) ==
    /\ now[t] < MaxCandles
    /\ now' = [now EXCEPT ![t] = @ + 1]
    /\ \E c \in C : candle' = [candle EXCEPT ![t] = c]
    /\ UNCHANGED <<pending, last, trend, held, saved, stream, worker, published,
                   remembered, dropped, entered, restarts, faults>>

\* should_scan_after_event, for a strategy that is ready.
ShouldScanAfterEvent(t) ==
    /\ now[t] > last[t]
    /\ pending[t] # now[t]
    /\ pending' = [pending EXCEPT ![t] = now[t]]
    /\ UNCHANGED <<now, candle, last, trend, held, saved, stream, worker,
                   published, remembered, dropped, entered, restarts, faults>>

\* The positions W of the worker after a signal.  Unless the OPEN allows it, an OPEN
\* for a symbol that has an open position is rejected.
Taken(W, s) ==
    CASE s.kind = "OPEN" /\ (AllowDuplicate \/ s.pos.symbol \notin {p.symbol : p \in W})
            -> W \cup {s.pos}
      [] s.kind = "CLOSE" -> Others(W, s.pos)
      [] OTHER -> W

WorkerTakes ==
    /\ stream # <<>>
    /\ worker' = Taken(worker, Head(stream))
    /\ stream' = Tail(stream) /\ published' = TRUE
    /\ UNCHANGED <<now, candle, pending, last, trend, held, saved, remembered, dropped,
                   entered, restarts, faults>>

\* The worker's price check closes a position by itself.
WorkerCloses ==
    /\ faults < MaxFaults /\ faults' = faults + 1
    /\ \E p \in worker : worker' = worker \ {p}
    /\ published' = TRUE
    /\ UNCHANGED <<now, candle, pending, last, trend, held, saved, stream,
                   remembered, dropped, entered, restarts>>

\* _load_positions: the worker's snapshot when there is one (it carries the
\* strategy_runtime of the OPEN), the runner's own cache otherwise.
LoadPositions == IF published THEN worker ELSE saved

\* A new process, that takes back its positions P.  A restart that overtakes the strategy's own signals is a fault:
\* the snapshot does not show them yet.
Restart(P) ==
    /\ restarts < MaxRestarts /\ restarts' = restarts + 1
    /\ \/ stream = <<>> /\ UNCHANGED faults
       \/ stream # <<>> /\ faults < MaxFaults /\ faults' = faults + 1
    /\ held' = P /\ entered' = "none"
    /\ trend' = 0
    /\ pending' = [t \in Tf |-> 0] /\ last' = pending'
    /\ UNCHANGED <<now, candle, saved, stream, worker, published, remembered, dropped>>

Around(P) == WorkerTakes \/ WorkerCloses \/ Restart(P)
-----------------------------------------------------------------------------
Ids(S) == {p.id : p \in S}

\* Unless a send failed, a restart overtook a signal or the worker closed a
\* position itself, the worker holds exactly the strategy's positions once the
\* stream is drained (every CLOSE is sent before the OPEN that replaces it), but for
\* those the dispatcher took for repeats of an OPEN it had sent.
Converged == stream = <<>> /\ faults = 0 => Ids(worker) = Ids(held) \ dropped

\* While nothing failed, a strategy that trades flips never holds a position
\* against the direction it believes in.
SideFollowsTrend ==
    faults = 0 /\ trend # 0 => \A p \in held : Toward(p.side) = trend

\* Within one life a strategy that trades flips opens at most once per turn of the
\* trend: after a take-profit it stays flat until the trend turns again.
OneEntryPerTurn == restarts' = restarts /\ NewIn(held') # {} => entered' # entered
=============================================================================
