---------------------------- MODULE SignalWorker ----------------------------
(***************************************************************************)
(* The execution worker: one consumer of the Redis stream "paper-signals"  *)
(* that applies OPEN / MODIFY / CLOSE / REGISTER_COLUMNS signals to SQLite *)
(* (worker/app/main.py, executor.py, db.py, metrics.py, models.py).        *)
(*                                                                         *)
(* The consumer is the only writer of the tables below while               *)
(* ENABLE_WORKER_TPSL_AUTO_CLOSE is False (its default); the second writer *)
(* is the subject of module WorkerTasks.  What interleaves with the        *)
(* consumer here: publishers, failures of BEGIN, COMMIT and XACK, process  *)
(* crashes between any two steps, and restarts.                            *)
(***************************************************************************)
EXTENDS Integers, Sequences

CONSTANTS
    Alpha,                      \* alpha_id values
    Symbol,                     \* traded symbols
    SignalId,                   \* signal_id values given by the alphas
    PositionId,                 \* position_id values
    WorkerId,                   \* those only the worker draws (uuid4)
    ColumnKey,                  \* keys of dashboard columns
    None,                       \* an absent value (NULL, "", a missing field)
    NaN,                        \* what float("nan") parses to
    Unknown,                    \* the signal_id of a message without one
    Signals,                    \* the messages that may be published
    RegisteredAlphas,           \* REGISTERED_ALPHAS
    DUPLICATE_POSITION_POLICY,  \* "reject" or anything else
    SIGNAL_RETENTION_DAYS,      \* 0 disables pruning
    REDIS_READ_COUNT,           \* messages per XREADGROUP
    MaxStream,                  \* bound: messages ever published
    MaxCrashes                  \* bound: process crashes

(***************************************************************************)
(* A message as the worker sees it.  "INVALID" stands for every payload    *)
(* parse_signal rejects.  Prices, tp and leverage are left out; sl may be  *)
(* NaN, which only qty, entry and the quantity of a CLOSE are checked for. *)
(* time is the form of timestamp (with or without an offset, or "bad" when *)
(* fromisoformat rejects it).  Of metadata there is dup, the flag          *)
(* allow_duplicate_position, and runtime: no strategy_runtime object, one  *)
(* with a strategy_runtime_version int() reads ("versioned"), without a    *)
(* version, or with one int() raises on ("bad").  payload tells how the    *)
(* columns JSON of REGISTER_COLUMNS is formed: "rows" inserts cols, "json" *)
(* is not a JSON list, "row" inserts cols and then meets an element        *)
(* without a key (or with a repeated one).                                 *)
(***************************************************************************)
Types == {"OPEN", "MODIFY", "CLOSE", "REGISTER_COLUMNS", "INVALID"}
Side == {"LONG", "SHORT"}
Times == {"aware", "naive", "bad"}

Signal == [id: SignalId \cup {Unknown}, type: Types, alpha: Alpha,
           symbol: Symbol, position_id: PositionId \cup {None}, side: Side,
           qty: Int \cup {None}, sl: Int \cup {None, NaN}, time: Times,
           dup: BOOLEAN, runtime: {"none", "versioned", "unversioned", "bad"},
           cols: SUBSET ColumnKey, payload: {"rows", "json", "row"}]

VARIABLES
    stream,     \* the Redis stream: every message ever added
    delivered,  \* index of the last message delivered to the group
    pel,        \* the group's pending entries (indices into stream)
    cursor,     \* next message of the consumer's batch (batch: cursor..delivered)
    pc,         \* where the consumer is
    db,         \* SQLite: the committed contents of the tables
    tx,         \* what the open transaction would commit, or None
    metrics,    \* WorkerMetrics
    crashes     \* number of crashes so far (bounded by MaxCrashes)

vars == <<stream, delivered, pel, cursor, pc, db, tx, metrics, crashes>>

\* version: int() reads the stored strategy_runtime_version, or there is none
Position == [alpha: Alpha, symbol: Symbol, side: Side, qty: Int,
             sl: Int \cup {None}, time: Times, dup: BOOLEAN, version: BOOLEAN]

Row == [payload: Signals, processed: BOOLEAN, error: BOOLEAN]

(***************************************************************************)
(* The tables.  traded[p] is the sum of qty over the trades rows of        *)
(* position p; full holds the p with a row whose trade_id is p itself (the *)
(* row a full close writes; a partial close writes a fresh uuid).  opened  *)
(* and unreduced are history, not tables: the quantity ever opened under   *)
(* p, and that of the partial closes which broke off after their trade.    *)
(***************************************************************************)
Database == [alphas: SUBSET Alpha,
             positions: [PositionId -> Position \cup {None}],
             traded: [PositionId -> Int],
             full: SUBSET PositionId,
             columns: [Alpha -> SUBSET ColumnKey],
             signals: Seq(Row),
             opened: [PositionId -> Int],
             unreduced: [PositionId -> Int]]

ASSUME SignalWorkerAssumption ==
    /\ None \notin Int
    /\ NaN \notin Int \cup {None}
    /\ None \notin Position
    /\ None \notin Database
    /\ None \notin PositionId
    /\ WorkerId \subseteq PositionId
    /\ Unknown \notin SignalId
    /\ Signals \subseteq Signal
    \* parse_signal needs a signal_id for everything but REGISTER_COLUMNS
    /\ \A m \in Signals :
          m.id = Unknown => m.type \in {"REGISTER_COLUMNS", "INVALID"}
    /\ RegisteredAlphas \subseteq Alpha
    /\ SIGNAL_RETENTION_DAYS \in Nat
    /\ REDIS_READ_COUNT \in Nat \ {0}
    /\ MaxStream \in Nat
    /\ MaxCrashes \in Nat

Counter == {"received", "duplicate_skipped", "parse_error", "process_error",
            "committed", "left_pending", "xack"}

Zero == [c \in Counter |-> 0]

Inc(c) == [metrics EXCEPT ![c] = @ + 1]

TypeOK ==
    /\ stream \in Seq(Signals)
    /\ delivered \in 0..Len(stream)
    /\ pel \subseteq 1..delivered
    /\ cursor \in 1..delivered + 1
    /\ pc \in {"down", "idle", "begin", "execute", "commit", "ack"}
    /\ pc \in {"begin", "execute", "commit", "ack"} => cursor <= delivered
    /\ db \in Database
    /\ tx \in Database \cup {None}
    /\ (pc \in {"execute", "commit"}) <=> (tx # None)
    /\ metrics \in [Counter -> Nat]
    /\ crashes \in 0..MaxCrashes

EmptyDatabase ==
    [alphas |-> {}, positions |-> [p \in PositionId |-> None],
     traded |-> [p \in PositionId |-> 0], full |-> {},
     columns |-> [a \in Alpha |-> {}], signals |-> <<>>,
     opened |-> [p \in PositionId |-> 0],
     unreduced |-> [p \in PositionId |-> 0]]

Init ==
    /\ stream = <<>>
    /\ delivered = 0
    /\ pel = {}
    /\ cursor = 1
    /\ pc = "down"
    /\ db = EmptyDatabase
    /\ tx = None
    /\ metrics = Zero
    /\ crashes = 0

-----------------------------------------------------------------------------
(***************************************************************************)
(* Operations of db.py and executor.py on a database value d.              *)
(***************************************************************************)
Open(d) == {p \in PositionId : d.positions[p] # None}

\* (mutant: only error-free rows count, so failed signals run again)
ProcessedWithoutError(d, id) ==
    \E i \in DOMAIN d.signals :
        /\ d.signals[i].payload.id = id
        /\ d.signals[i].processed /\ ~d.signals[i].error

Processed(d, id) ==
    \E i \in DOMAIN d.signals :
        d.signals[i].payload.id = id /\ d.signals[i].processed

\* log_signal, then mark_signal_processed, which updates every row of the id
LogSignal(d, m) ==
    [d EXCEPT !.signals =
        Append(@, [payload |-> m, processed |-> FALSE, error |-> FALSE])]

\* (mutant: the update is forgotten)
MarkNothing(d, id, failed) == d

MarkProcessed(d, id, failed) ==
    [d EXCEPT !.signals = [i \in DOMAIN @ |->
        IF @[i].payload.id = id
        THEN [@[i] EXCEPT !.processed = TRUE, !.error = failed]
        ELSE @[i]]]

Settled(d, m, failed) == MarkProcessed(LogSignal(d, m), m.id, failed)

RegisterAlpha(d, a) == [d EXCEPT !.alphas = @ \cup {a}]

\* the position_id of an OPEN: the alpha's, or a uuid never used before
OpenIds(d, m) ==
    IF m.position_id # None
    THEN {m.position_id}
    ELSE {p \in WorkerId : /\ d.positions[p] = None
                           /\ d.opened[p] = 0 /\ d.traded[p] = 0}

OpenQty(m) == IF m.qty = None THEN 0 ELSE m.qty

\* (mutant: the lookup is by position_id instead of alpha and symbol)
DuplicateIdRejected(d, m) ==
    /\ DUPLICATE_POSITION_POLICY = "reject"
    /\ ~m.dup
    /\ m.position_id \in Open(d)

DuplicateRejected(d, m) ==
    /\ DUPLICATE_POSITION_POLICY = "reject"
    /\ ~m.dup
    /\ \E p \in Open(d) : /\ d.positions[p].alpha = m.alpha
                          /\ d.positions[p].symbol = m.symbol

\* SQLite stores NaN as NULL
Stored(sl) == IF sl = NaN THEN None ELSE sl

CreatePosition(d, m, p) ==
    [d EXCEPT !.positions[p] = [alpha |-> m.alpha, symbol |-> m.symbol,
                                side |-> m.side, qty |-> OpenQty(m),
                                sl |-> Stored(m.sl), time |-> m.time,
                                dup |-> m.dup, version |-> m.runtime # "bad"],
              !.opened[p] = @ + OpenQty(m)]

\* merge_position_runtime_metadata: int() of the version the signal brings
\* along with a strategy_runtime, or else of the stored one
MergeRaises(pos, m) ==
    \/ m.runtime = "bad"
    \/ m.runtime = "unversioned" /\ ~pos.version

MergedVersion(pos, m) == pos.version \/ m.runtime = "versioned"

\* (mutant: SHORT compared like LONG)
StopMovesDown(pos, sl) ==
    sl \notin {None, NaN} /\ pos.sl # None /\ sl < pos.sl

\* the stop may not move against the position once it has one; both comparisons
\* are false of NaN
StopMovesAgainst(pos, sl) ==
    /\ sl \notin {None, NaN}
    /\ pos.sl # None
    /\ \/ pos.side = "LONG" /\ sl < pos.sl
       \/ pos.side = "SHORT" /\ sl > pos.sl

Modified(pos, m) ==
    [pos EXCEPT !.sl = IF m.sl = None THEN @ ELSE Stored(m.sl),
                !.version = MergedVersion(pos, m)]

ModifyPosition(d, p, m) ==
    [d EXCEPT !.positions[p] = Modified(d.positions[p], m)]

\* (mutant: a partial close closes everything)
WholeQty(pos, m) == pos.qty

CloseQty(pos, m) == IF m.qty = None THEN pos.qty ELSE m.qty

\* both timestamps parse, and one can be subtracted from the other
Comparable(opened_at, closed_at) == opened_at = closed_at /\ closed_at # "bad"

\* executor.process_close's checks, then close_position up to its INSERT, which
\* for a full close collides when a trade of that id exists
CanClose(d, m) ==
    LET p == m.position_id
        q == CloseQty(d.positions[p], m)
    IN  /\ p \in Open(d)
        /\ q > 0
        /\ q <= d.positions[p].qty
        /\ Comparable(d.positions[p].time, m.time)
        /\ ~(q = d.positions[p].qty /\ p \in d.full)

\* (mutant: the UPDATE of the remaining quantity is missing)
ClosePositionKeepingQty(d, p, q, m) ==
    IF q = d.positions[p].qty
    THEN [d EXCEPT !.traded[p] = @ + q, !.full = @ \cup {p},
                   !.positions[p] = None]
    ELSE [d EXCEPT !.traded[p] = @ + q]

Reduced(pos, q, m) ==
    [pos EXCEPT !.qty = @ - q, !.version = MergedVersion(pos, m)]

\* close_position, when nothing raises
ClosePosition(d, p, q, m) ==
    IF q = d.positions[p].qty
    THEN [d EXCEPT !.traded[p] = @ + q, !.full = @ \cup {p},
                   !.positions[p] = None]
    ELSE [d EXCEPT !.traded[p] = @ + q,
                   !.positions[p] = Reduced(d.positions[p], q, m)]

\* close_position of a part: the metadata is merged after the INSERT of the
\* trade and before the UPDATE of the position
BreaksOff(pos, m) == CloseQty(pos, m) # pos.qty /\ MergeRaises(pos, m)

TradeOnly(d, p, q) ==
    [d EXCEPT !.traded[p] = @ + q, !.unreduced[p] = @ + q]

-----------------------------------------------------------------------------
(***************************************************************************)
(* Alphas add messages; Redis keeps them in order.                         *)
(***************************************************************************)
Publish ==
    /\ Len(stream) < MaxStream
    /\ \E m \in Signals : stream' = Append(stream, m)
    /\ UNCHANGED <<delivered, pel, cursor, pc, db, tx, metrics, crashes>>

\* XREADGROUP ">" once the previous batch is finished: up to COUNT new
\* messages enter the PEL and the consumer's batch
Deliver ==
    /\ pc = "idle"
    /\ cursor > delivered
    /\ delivered < Len(stream)
    /\ delivered' = IF delivered + REDIS_READ_COUNT <= Len(stream)
                    THEN delivered + REDIS_READ_COUNT ELSE Len(stream)
    /\ pel' = pel \cup (delivered + 1)..delivered'
    /\ UNCHANGED <<stream, cursor, pc, db, tx, metrics, crashes>>

Current == stream[cursor]

\* process_signal_message up to its transaction: the duplicate check, then
\* parse_signal.  The fill price is resolved here too, outside the transaction.
\* (mutant: the early return skips the acknowledgement)
SkipDuplicateUnacked ==
    /\ pc = "idle"
    /\ cursor <= delivered
    /\ Current.id # Unknown /\ Processed(db, Current.id)
    /\ metrics' = [Inc("received") EXCEPT !.duplicate_skipped = @ + 1]
    /\ cursor' = cursor + 1
    /\ UNCHANGED <<stream, delivered, pel, pc, db, tx, crashes>>

SkipDuplicate ==
    /\ pc = "idle"
    /\ cursor <= delivered
    /\ Current.id # Unknown /\ Processed(db, Current.id)
    /\ metrics' = [Inc("received") EXCEPT !.duplicate_skipped = @ + 1]
    /\ pc' = "ack"
    /\ UNCHANGED <<stream, delivered, pel, cursor, db, tx, crashes>>

Accept ==
    /\ pc = "idle"
    /\ cursor <= delivered
    /\ ~(Current.id # Unknown /\ Processed(db, Current.id))
    /\ metrics' = IF Current.type = "INVALID"
                  THEN [Inc("received") EXCEPT !.parse_error = @ + 1]
                  ELSE Inc("received")
    /\ pc' = "begin"
    /\ UNCHANGED <<stream, delivered, pel, cursor, db, tx, crashes>>

\* BEGIN IMMEDIATE
Begin ==
    /\ pc = "begin"
    /\ tx' = db
    /\ pc' = "execute"
    /\ UNCHANGED <<stream, delivered, pel, cursor, db, metrics, crashes>>

\* (mutant: no rollback)
LeavePendingInTransaction ==
    /\ metrics' = Inc("left_pending")
    /\ cursor' = cursor + 1
    /\ pc' = "idle"
    /\ UNCHANGED tx

\* an exception that escapes process_signal_message: the transaction is
\* rolled back, the message stays in the PEL and the loop goes on
LeavePending ==
    /\ metrics' = Inc("left_pending")
    /\ cursor' = cursor + 1
    /\ tx' = None
    /\ pc' = "idle"

\* (mutants: XACK in a finally block; the error ends the process)
BeginFailsAcked ==
    /\ pc = "begin"
    /\ LeavePending
    /\ pel' = pel \ {cursor}
    /\ UNCHANGED <<stream, delivered, db, crashes>>

BeginFailsFatal ==
    /\ pc = "begin"
    /\ pc' = "down"
    /\ cursor' = delivered + 1
    /\ metrics' = Zero
    /\ UNCHANGED <<stream, delivered, pel, db, tx, crashes>>

BeginFails ==
    /\ pc = "begin"
    /\ LeavePending
    /\ UNCHANGED <<stream, delivered, pel, db, crashes>>

\* inside the transaction: log_signal, the handler and mark_signal_processed;
\* a handler that raises still has its earlier writes committed
Settle(d, failed) ==
    /\ tx' = Settled(d, Current, failed)
    /\ metrics' = Inc(IF failed THEN "process_error" ELSE "committed")
    /\ pc' = "commit"
    /\ UNCHANGED <<stream, delivered, pel, cursor, db, crashes>>

LogParseError ==
    /\ pc = "execute"
    /\ Current.type = "INVALID"
    /\ tx' = Settled(tx, Current, TRUE)
    /\ pc' = "commit"
    /\ UNCHANGED <<stream, delivered, pel, cursor, db, metrics, crashes>>

ProcessOpen ==
    /\ pc = "execute"
    /\ Current.type = "OPEN"
    /\ LET d == RegisterAlpha(tx, Current.alpha)
       IN  \/ /\ ~DuplicateRejected(d, Current)
              /\ \E p \in OpenIds(d, Current) \ Open(d) :
                    Settle(CreatePosition(d, Current, p), FALSE)
           \/ /\ \/ DuplicateRejected(d, Current)
                 \/ Current.position_id \in Open(d)
              /\ Settle(d, TRUE)

ProcessModify ==
    /\ pc = "execute"
    /\ Current.type = "MODIFY"
    /\ LET p == Current.position_id
           accepted == /\ p \in Open(tx)
                       /\ ~StopMovesAgainst(tx.positions[p], Current.sl)
                       /\ ~MergeRaises(tx.positions[p], Current)
       IN  \/ accepted /\ Settle(ModifyPosition(tx, p, Current), FALSE)
           \/ ~accepted /\ Settle(tx, TRUE)

\* (mutant: the checks come after close_position)
ProcessCloseUnchecked ==
    /\ pc = "execute"
    /\ Current.type = "CLOSE"
    /\ LET p == Current.position_id
       IN  \/ /\ p \in Open(tx)
              /\ Settle(ClosePosition(tx, p, CloseQty(tx.positions[p], Current),
                                      Current),
                        ~CanClose(tx, Current))
           \/ p \notin Open(tx) /\ Settle(tx, TRUE)

ProcessClose ==
    /\ pc = "execute"
    /\ Current.type = "CLOSE"
    /\ LET p == Current.position_id
           q == CloseQty(tx.positions[p], Current)
       IN  \/ /\ CanClose(tx, Current)
              /\ ~BreaksOff(tx.positions[p], Current)
              /\ Settle(ClosePosition(tx, p, q, Current), FALSE)
           \/ /\ CanClose(tx, Current)
              /\ BreaksOff(tx.positions[p], Current)
              /\ Settle(TradeOnly(tx, p, q), TRUE)
           \/ ~CanClose(tx, Current) /\ Settle(tx, TRUE)

\* the old columns are deleted before the new ones are inserted one by one
ProcessRegisterColumns ==
    /\ pc = "execute"
    /\ Current.type = "REGISTER_COLUMNS"
    /\ \/ Current.payload = "json" /\ Settle(tx, TRUE)
       \/ /\ Current.payload # "json"
          /\ Settle([RegisterAlpha(tx, Current.alpha) EXCEPT
                         !.columns[Current.alpha] = Current.cols],
                    Current.payload = "row")

Commit ==
    /\ pc = "commit"
    /\ db' = tx
    /\ tx' = None
    /\ pc' = "ack"
    /\ UNCHANGED <<stream, delivered, pel, cursor, metrics, crashes>>

CommitFails ==
    /\ pc = "commit"
    /\ LeavePending
    /\ UNCHANGED <<stream, delivered, pel, db, crashes>>

Ack ==
    /\ pc = "ack"
    /\ pel' = pel \ {cursor}
    /\ metrics' = Inc("xack")
    /\ cursor' = cursor + 1
    /\ pc' = "idle"
    /\ UNCHANGED <<stream, delivered, db, tx, crashes>>

\* XACK raises: the command was lost, or only its reply
AckFails ==
    /\ pc = "ack"
    /\ pel' \in {pel, pel \ {cursor}}
    /\ LeavePending
    /\ UNCHANGED <<stream, delivered, db, crashes>>

\* the process dies: SQLite rolls the open transaction back, the batch and
\* the counters are gone, the PEL keeps the undone part of the batch
Crash ==
    /\ pc # "down"
    /\ crashes < MaxCrashes
    /\ crashes' = crashes + 1
    /\ pc' = "down"
    /\ tx' = None
    /\ cursor' = delivered + 1
    /\ metrics' = Zero
    /\ UNCHANGED <<stream, delivered, pel, db>>

\* run_consumer: registers the configured alphas and prunes the rows older
\* than the retention (a prefix of the table, none of it when it is 0); the
\* loop then reads only ">"
Restart ==
    /\ pc = "down"
    /\ pc' = "idle"
    /\ \E n \in 0..Len(db.signals) :
          /\ SIGNAL_RETENTION_DAYS = 0 => n = 0
          /\ db' = [db EXCEPT !.alphas = @ \cup RegisteredAlphas,
                              !.signals = SubSeq(@, n + 1, Len(@))]
    /\ UNCHANGED <<stream, delivered, pel, cursor, tx, metrics, crashes>>

Execute ==
    \/ LogParseError
    \/ ProcessOpen
    \/ ProcessModify
    \/ ProcessClose
    \/ ProcessRegisterColumns

\* every step the consumer coroutine takes by itself
Consume ==
    \/ Deliver
    \/ SkipDuplicate
    \/ Accept
    \/ Begin
    \/ Execute
    \/ Commit
    \/ Ack

Fault == BeginFails \/ CommitFails \/ AckFails

Next == Publish \/ Consume \/ Fault \/ Crash \/ Restart

(***************************************************************************)
(* The loop is one coroutine of one process that its supervisor restarts   *)
(* (docker compose restart policy), so a step that stays possible is taken *)
(* in the end.  Nothing is assumed of publishers or of faults.             *)
(***************************************************************************)
Spec == Init /\ [][Next]_vars
FairSpec == Spec /\ WF_vars(Consume) /\ WF_vars(Restart)

-----------------------------------------------------------------------------
(***************************************************************************)
(* Properties.                                                             *)
(***************************************************************************)

\* No signal is lost silently: a message that left the PEL is recorded in the
\* signals table as processed, whatever failed or crashed in between
\* (handle_signal_message acknowledges only after the commit).
AckedIsRecorded ==
    SIGNAL_RETENTION_DAYS = 0 =>
        \A i \in (1..delivered) \ pel : Processed(db, stream[i].id)

\* A signal_id is settled at most once, however often it is published: two rows
\* of the signals table share an id only if neither message had one
\* (signal_processed before the transaction, mark_signal_processed inside it).
SettledAtMostOnce ==
    SIGNAL_RETENTION_DAYS = 0 =>
        \A i, j \in DOMAIN db.signals :
            i # j /\ db.signals[i].payload.id = db.signals[j].payload.id
                => db.signals[i].payload.id = Unknown

QtyOpen(d, p) == IF d.positions[p] = None THEN 0 ELSE d.positions[p].qty

Conserved(d) ==
    \A p \in PositionId :
        d.opened[p] + d.unreduced[p] = d.traded[p] + QtyOpen(d, p)

\* Quantity is neither created nor lost between the two tables, whatever is
\* closed in parts, repeated, rolled back or lost in a crash: the trades rows of
\* a position and its open quantity add up to what was ever opened under its id,
\* and exceed it by exactly the partial closes that raised after their INSERT
\* (close_position merges the metadata of a partial close only then, and
\* process_signal_message commits what the handler wrote).
QtyConserved == Conserved(db)

\* every position_id is given by at most one OPEN signal (the alphas use uuid4,
\* or uuid5 of the candle, which the dispatcher's signal_id is made of too), and
\* the worker's own uuid4 never meets one of them
UniqueOpenIds ==
    \A m, n \in Signals :
        /\ m.type = "OPEN" => m.position_id \notin WorkerId
        /\ /\ m.type = "OPEN" /\ n.type = "OPEN"
           /\ m.position_id = n.position_id /\ m.position_id # None
           => m.id = n.id

\* No trade_id stands in the way of closing an open position in full: no trade
\* carries its id, so the INSERT of close_position cannot collide.  It rests on the
\* duplicate check, since a republished OPEN would revive a closed position.
OpenIsClosable ==
    SIGNAL_RETENTION_DAYS = 0 /\ UniqueOpenIds =>
        \A p \in Open(db) : p \notin db.full

OnePerSymbol(d) ==
    \A p, q \in Open(d) :
        /\ p # q
        /\ d.positions[p].alpha = d.positions[q].alpha
        /\ d.positions[p].symbol = d.positions[q].symbol
        => d.positions[p].dup \/ d.positions[q].dup

\* With DUPLICATE_POSITION_POLICY = "reject" an alpha has two positions on one
\* symbol only if a leg was opened with allow_duplicate_position.
OnePositionPerSymbol ==
    DUPLICATE_POSITION_POLICY = "reject" => OnePerSymbol(db)

\* Between messages every received message was either acknowledged or counted
\* as left pending, never both and never neither, and none is missing from the
\* outcome counters (WorkerMetrics, "no silent failures").
Outcomes ==
    metrics.duplicate_skipped + metrics.parse_error + metrics.process_error
        + metrics.committed + metrics.left_pending

CountersAddUp ==
    pc = "idle" =>
        /\ metrics.received = metrics.xack + metrics.left_pending
        /\ metrics.received <= Outcomes

Newest(d) == d.signals[Len(d.signals)]

\* m may erase a stop by sending NaN, but not move it against the position
StopMoved(pos, new, m) ==
    IF new.sl = None
    THEN m.type = "MODIFY" /\ m.sl = NaN
    ELSE IF pos.side = "LONG" THEN new.sl >= pos.sl ELSE new.sl <= pos.sl

StopsKept(d, e, m) ==
    \A p \in Open(d) :
        e.positions[p] # None /\ d.positions[p].sl # None
            => StopMoved(d.positions[p], e.positions[p], m)

\* A stop, once set, never moves against the position while it stays open, and
\* never disappears but by a MODIFY whose sl is NaN, which passes both
\* comparisons of process_modify and is stored as NULL.
StopNeverLoosened == [][StopsKept(db, db', Newest(db').payload)]_db

\* the only work a failed handler leaves: the trade of a part of a position
TradeLeft(d, e, m) ==
    /\ m.type = "CLOSE"
    /\ m.runtime # "none"
    /\ m.position_id \in Open(d)
    /\ m.qty # None /\ 0 < m.qty /\ m.qty < d.positions[m.position_id].qty
    /\ e.traded = [d.traded EXCEPT ![m.position_id] = @ + m.qty]

ErrorKeepsBook(d, e) ==
    /\ Len(e.signals) = Len(d.signals) + 1
    /\ Newest(e).error
    => /\ e.positions = d.positions
       /\ e.full = d.full
       /\ e.traded = d.traded \/ TradeLeft(d, e, Newest(e).payload)

\* A signal recorded with an error has left the positions and the ids of full
\* closes untouched, although process_signal_message commits the failed
\* handler's transaction; and the trades too, but for the one row of a partial
\* CLOSE that carries a strategy_runtime.
ErrorsLeaveBookAlone == [][ErrorKeepsBook(db, db')]_db

\* Every published message gets its turn and is acknowledged, unless a failure
\* or a crash was noticed: one bad message never holds up those behind it
\* (handle_signal_message never raises).
EveryMessageHandled ==
    \A i \in 1..MaxStream :
        Len(stream) >= i ~>
            /\ cursor > i
            /\ i \notin pel \/ metrics.left_pending > 0 \/ crashes > 0

\* metrics.py: "received_total == duplicate_skipped_total + ... +
\* left_pending_total", the invariant WorkerMetrics.reconciles() tests.
MetricsReconcile == pc = "idle" => metrics.received = Outcomes

\* reconcile_signals.py: published (XLEN) == committed + errored + pending +
\* lag, whether or not messages were skipped as duplicates; here for a consumer
\* that has caught up (lag 0) and acknowledged everything (pending 0).
StreamReconciles ==
    pc = "idle" /\ delivered = Len(stream) /\ cursor > delivered /\ pel = {} =>
        Len(stream) = Len(db.signals)

-----------------------------------------------------------------------------
(***************************************************************************)
(* Refinement.                                                             *)
(***************************************************************************)
Ledger == INSTANCE PositionLedger WITH
    held <- [p \in PositionId |->
                IF db.positions[p] = None THEN None ELSE db.positions[p].qty],
    traded <- db.traded,
    settled <- {i \in SignalId : Processed(db, i)}

\* The worker implements the ledger: under any publishing, failure and crash, a
\* step of the program is one settlement of one signal or nothing, whole but for
\* the partial close that breaks off after its trade (process_signal_message's
\* transaction and duplicate check, close_position).
ImplementsLedger == Ledger!Spec

=============================================================================
