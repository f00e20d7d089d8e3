--------------------------- MODULE VirtualLedger ---------------------------
(***************************************************************************)
(* The virtual ledger of one shadow sleeve, end to end: the publisher in   *)
(* the runner (alphas/runner/virtual_trade_ledger.py, driven by            *)
(* strategies/cross_sectional/strategy.py), the Redis keys and stream, and *)
(* the consumer in the worker (worker/app/virtual_trade_ledger.py, db.py). *)
(*                                                                         *)
(* What interleaves: the runner, its restarts, the failures of each Redis  *)
(* call it makes, the consumer, its connection losses (a crash of the      *)
(* worker is one: the consumer keeps nothing else) and failed              *)
(* transactions.  The consumer has a SQLite connection of its own, so a    *)
(* transaction is one step.                                                *)
(***************************************************************************)
EXTENDS Integers, FiniteSets, SequencesExt

CONSTANTS
    Symbol,         \* the sleeve's universe
    None,           \* an absent Redis key, no selection at hand
    READ_COUNT,     \* REDIS_READ_COUNT: messages per XREADGROUP
    Faults,         \* the kinds of failure that may happen
    MaxCandle,      \* bound: rebalance candles
    MaxFaults       \* bound: failures of any kind

(***************************************************************************)
(* restart     the runner stops at any point and starts again              *)
(* rescan      it starts with _last_processed_candle behind the candle it  *)
(*             last rebalanced on: the strategy was not ready when warmup  *)
(*             ended (runner/main.py:987-994), or the panel was a bar back *)
(* get         reading the ledger state at start fails                     *)
(* exec        the MULTI/EXEC of a rebalance fails and changes nothing     *)
(* reply       it is executed, but its reply is lost                       *)
(* book        publishing the target book raises                           *)
(* connection  the consumer loses its connection, or its process           *)
(* database    the transaction of one event fails and changes nothing      *)
(***************************************************************************)
FaultKind == {"restart", "rescan", "get", "exec", "reply", "book",
              "connection", "database"}

Candle == 1..MaxCandle

\* position_id is a hash of alpha, symbol and candle: the record stands for it
Position == [symbol: Symbol, candle: Candle]

\* event_id is a hash of the position and, for a close, of the candle: an event
\* is its own id (an open carries the candle of its position)
Event == [type: {"VIRTUAL_OPEN", "VIRTUAL_CLOSE"}, position: Position,
          candle: Candle]

\* the symbols with a nonzero weight and those with a positive price
Selection == [weights: SUBSET Symbol, prices: SUBSET Symbol, candle: Candle]

ASSUME VirtualLedgerAssumption ==
    /\ IsFiniteSet(Symbol)
    /\ READ_COUNT \in Nat \ {0}
    /\ Faults \subseteq FaultKind
    /\ MaxCandle \in Nat \ {0}
    /\ MaxFaults \in Nat
    /\ None \notin Selection
    /\ \A held \in SUBSET Position : held # None

VARIABLES
    now,        \* the last rebalance candle that closed
    runner,     \* "down", "warmup", "idle", or "rebalance" between the two
                \* publications
    memory,     \* VirtualTradeLedgerPublisher._positions
    last,       \* _last_processed_candle
    selection,  \* what _apply_selection is applying, or None
    state,      \* Redis: shadow:ledger:positions:{alpha}, or None
    book,       \* Redis: book:target:{alpha}, or None
    stream,     \* Redis: the stream paper-shadow-trades
    delivered,  \* index of the last message delivered to the group
    pel,        \* the group's pending entries
    consumer,   \* "down", "up", or "ack" between COMMIT and XACK
    recover,    \* recover_pending
    batch,      \* messages read and not yet handled, in stream order
    positions,  \* SQLite: virtual_positions
    trades,     \* SQLite: virtual_trades (trade_id is the position_id)
    events,     \* SQLite: virtual_trade_events
    faults,     \* failures so far
    misled      \* history: a reply or the state was lost, or a candle rescanned

runnerVars == <<runner, memory, last, selection>>
tables == <<positions, trades, events>>
failures == <<faults, misled>>
consumerVars == <<delivered, pel, consumer, recover, batch, tables>>
vars == <<now, runnerVars, state, book, stream, consumerVars, failures>>

TypeOK ==
    /\ now \in Candle
    /\ runner \in {"down", "warmup", "idle", "rebalance"}
    /\ memory \subseteq Position
    /\ last \in 0..MaxCandle
    /\ selection \in Selection \cup {None}
    /\ (runner = "rebalance") <=> (selection # None)
    /\ state = None \/ state \subseteq Position
    /\ book \in Selection \cup {None}
    /\ stream \in Seq(Event)
    /\ delivered \in 0..Len(stream)
    /\ pel \subseteq 1..delivered
    /\ consumer \in {"down", "up", "ack"}
    /\ recover \in BOOLEAN
    /\ batch \subseteq pel
    /\ consumer = "ack" => batch # {}
    /\ positions \subseteq Position
    /\ trades \subseteq Position
    /\ events \subseteq Event
    /\ faults \in 0..MaxFaults
    /\ misled \in BOOLEAN

\* The ledger may be introduced to a sleeve that already has a target book.
Init ==
    /\ now = 1
    /\ runner = "down"
    /\ memory = {}
    /\ last = 0
    /\ selection = None
    /\ state = None
    /\ \/ book = None
       \/ \E w \in SUBSET Symbol :
             book = [weights |-> w, prices |-> w, candle |-> 1]
    /\ stream = <<>>
    /\ delivered = 0
    /\ pel = {}
    /\ consumer = "down"
    /\ recover = FALSE
    /\ batch = {}
    /\ positions = {}
    /\ trades = {}
    /\ events = {}
    /\ faults = 0
    /\ misled = FALSE

\* A failure of kind k happens in this step.
Fault(k) ==
    /\ k \in Faults
    /\ faults < MaxFaults
    /\ faults' = faults + 1
    /\ misled' = (misled \/ k \in {"get", "reply"})

NoFault == UNCHANGED failures

-----------------------------------------------------------------------------
(* The publisher *)

OpenEvent(p) == [type |-> "VIRTUAL_OPEN", position |-> p, candle |-> p.candle]

CloseEvent(p, c) == [type |-> "VIRTUAL_CLOSE", position |-> p, candle |-> c]

\* Without a price at this candle a position is carried over, not closed.
Retained(held, s) == {p \in held : p.symbol \notin s.prices}

Opened(held, s) ==
    {[symbol |-> x, candle |-> s.candle] :
        x \in (s.weights \cap s.prices) \ {p.symbol : p \in Retained(held, s)}}

\* (mutant: the carried-over positions are forgotten)
OpenedOnly(held, s) == Opened(held, s)

NextPositions(held, s) == Retained(held, s) \cup Opened(held, s)

\* Closes come first.  The code sorts each half by symbol; any fixed order will
\* do here, because events of different symbols do not touch each other.
RebalanceEvents(held, s) ==
    LET closed == held \ Retained(held, s)
    IN  SetToSeq({CloseEvent(p, s.candle) : p \in closed})
          \o SetToSeq({OpenEvent(p) : p \in Opened(held, s)})

\* One MULTI/EXEC carries the events and the new state; _positions is assigned
\* only after it returned.
Executed(held, s) ==
    /\ stream' = stream \o RebalanceEvents(held, s)
    /\ state' = NextPositions(held, s)

Publish(held, s) ==
    \/ Executed(held, s) /\ memory' = NextPositions(held, s) /\ NoFault
    \/ Fault("exec") /\ memory' = held /\ UNCHANGED <<stream, state>>
    \/ Fault("reply") /\ memory' = held /\ Executed(held, s)

CandleCloses ==
    /\ now < MaxCandle
    /\ now' = now + 1
    /\ UNCHANGED <<runnerVars, state, book, stream, consumerVars, failures>>

\* _apply_selection of a book-only sleeve, first half: the target book.  Its meta
\* keeps the prices of the weighted symbols only.
BookOf(s) == [s EXCEPT !.prices = @ \cap s.weights]

PublishTargetBook(s) ==
    /\ runner = "idle"
    /\ s.candle = now
    /\ now > last
    /\ book' = BookOf(s)
    /\ runner' = "rebalance"
    /\ selection' = s
    /\ UNCHANGED <<now, memory, last, state, stream, consumerVars, failures>>

\* SET or the PUBLISH after it raises: the scan is abandoned and the candle is
\* tried again, whether or not the book was written.
TargetBookFails(s) ==
    /\ runner = "idle"
    /\ s.candle = now
    /\ now > last
    /\ Fault("book")
    /\ book' \in {book, BookOf(s)}
    /\ UNCHANGED <<now, runnerVars, state, stream, consumerVars>>

\* Second half: the ledger.  Its exceptions are swallowed and the candle counts
\* as processed in any case.
Rebalance ==
    /\ runner = "rebalance"
    /\ Publish(memory, selection)
    /\ last' = selection.candle
    /\ runner' = "idle"
    /\ selection' = None
    /\ UNCHANGED <<now, book, consumerVars>>

RunnerStops ==
    /\ runner # "down"
    /\ Fault("restart")
    /\ runner' = "down"
    /\ memory' = {}
    /\ last' = 0
    /\ selection' = None
    /\ UNCHANGED <<now, state, book, stream, consumerVars>>

Resumes ==
    /\ runner = "down"
    /\ runner' = "warmup"
    /\ UNCHANGED <<now, last, selection, book, consumerVars>>

Restore ==
    /\ Resumes
    /\ state # None
    /\ memory' = state
    /\ UNCHANGED <<state, stream, failures>>

\* __init__ without a state: seed the positions from the target book, if any.
Bootstrap ==
    /\ Resumes
    /\ state = None
    /\ IF book = None
       THEN memory' = {} /\ UNCHANGED <<state, stream, failures>>
       ELSE Publish({}, book)

\* A state that cannot be read is treated like a missing one.  The book is read
\* next: that may fail too, or it is published over the state.
RestoreFails ==
    /\ Resumes
    /\ state # None
    /\ Fault("get")
    /\ \/ memory' = {} /\ UNCHANGED <<state, stream>>
       \/ /\ book # None
          /\ Executed({}, book)
          /\ memory' = NextPositions({}, book)

\* Warmup sets _last_processed_candle to the newest candle of the panel, unless
\* the strategy is not ready.
WarmupComplete ==
    /\ runner = "warmup"
    /\ runner' = "idle"
    /\ \/ last' = now /\ NoFault
       \/ "rescan" \in Faults /\ last' = 0 /\ misled' = TRUE /\ UNCHANGED faults
    /\ UNCHANGED <<now, memory, selection, state, book, stream, consumerVars>>

-----------------------------------------------------------------------------
(* The consumer *)

\* (mutant: recover_pending is initialised outside the loop)
ConnectToNew ==
    /\ consumer = "down"
    /\ consumer' = "up"
    /\ recover' = FALSE
    /\ UNCHANGED <<now, runnerVars, state, book, stream, delivered, pel, batch,
                   tables, failures>>

\* The new connection starts with the entries left pending.
Connect ==
    /\ consumer = "down"
    /\ consumer' = "up"
    /\ recover' = TRUE
    /\ UNCHANGED <<now, runnerVars, state, book, stream, delivered, pel, batch,
                   tables, failures>>

Reading == consumer = "up" /\ batch = {}

\* COUNT: the oldest READ_COUNT of these messages
FirstOf(indices) ==
    {i \in indices : Cardinality({j \in indices : j < i}) < READ_COUNT}

ReadPending ==
    /\ Reading
    /\ recover
    /\ IF pel = {} THEN recover' = FALSE /\ UNCHANGED batch
                   ELSE batch' = FirstOf(pel) /\ UNCHANGED recover
    /\ UNCHANGED <<now, runnerVars, state, book, stream, delivered, pel,
                   consumer, tables, failures>>

ReadNew ==
    /\ Reading
    /\ ~recover
    /\ delivered < Len(stream)
    /\ batch' = FirstOf(delivered + 1 .. Len(stream))
    /\ delivered' = delivered + Cardinality(batch')
    /\ pel' = pel \cup batch'
    /\ UNCHANGED <<now, runnerVars, state, book, stream, consumer, recover,
                   tables, failures>>

\* apply_virtual_trade_event, one transaction
AlreadyApplied(e) == e \in events /\ UNCHANGED tables

\* (mutant: no check of the event_id, INSERT OR IGNORE for the event)
ApplyOpenAgain(e) ==
    /\ e.type = "VIRTUAL_OPEN"
    /\ positions' = positions \cup {e.position}
    /\ events' = events \cup {e}
    /\ UNCHANGED trades

ApplyOpen(e) ==
    /\ e.type = "VIRTUAL_OPEN"
    /\ e \notin events
    /\ positions' = positions \cup {e.position}
    /\ events' = events \cup {e}
    /\ UNCHANGED trades

CanClose(p) == p \in positions /\ p \notin trades

ApplyClose(e) ==
    /\ e.type = "VIRTUAL_CLOSE"
    /\ e \notin events
    /\ CanClose(e.position)
    /\ positions' = positions \ {e.position}
    /\ trades' = trades \cup {e.position}
    /\ events' = events \cup {e}

Apply(e) ==
    /\ consumer = "up"
    /\ AlreadyApplied(e) \/ ApplyOpen(e) \/ ApplyClose(e)
    /\ consumer' = "ack"
    /\ UNCHANGED <<now, runnerVars, state, book, stream, delivered, pel,
                   recover, batch, failures>>

\* (mutant: no "continue" after a failure)
LeavePendingAcked ==
    /\ consumer = "up"
    /\ batch' = batch \ {Min(batch)}
    /\ pel' = pel \ {Min(batch)}
    /\ UNCHANGED <<now, runnerVars, state, book, stream, delivered,
                   consumer, recover, tables>>

\* The transaction is rolled back; the message stays pending and is not looked
\* at again before the next connection (with ">") or the next pass (with "0").
LeavePending ==
    /\ consumer = "up"
    /\ batch' = batch \ {Min(batch)}
    /\ UNCHANGED <<now, runnerVars, state, book, stream, delivered, pel,
                   consumer, recover, tables>>

RejectEvent(e) ==
    /\ e.type = "VIRTUAL_CLOSE"
    /\ e \notin events
    /\ ~CanClose(e.position)
    /\ LeavePending
    /\ NoFault

TransactionFails == Fault("database") /\ LeavePending

Ack ==
    /\ consumer = "ack"
    /\ pel' = pel \ {Min(batch)}
    /\ batch' = batch \ {Min(batch)}
    /\ consumer' = "up"
    /\ UNCHANGED <<now, runnerVars, state, book, stream, delivered, recover,
                   tables, failures>>

ConnectionLost ==
    /\ consumer # "down"
    /\ Fault("connection")
    /\ consumer' = "down"
    /\ batch' = {}
    /\ UNCHANGED <<now, runnerVars, state, book, stream, delivered, pel,
                   recover, tables>>

-----------------------------------------------------------------------------

Handle ==
    /\ batch # {}
    /\ LET e == stream[Min(batch)] IN Apply(e) \/ RejectEvent(e)

Consume == Connect \/ ReadPending \/ ReadNew \/ Handle \/ Ack

Next ==
    \/ CandleCloses
    \/ \E s \in Selection : PublishTargetBook(s) \/ TargetBookFails(s)
    \/ Rebalance
    \/ RunnerStops
    \/ Restore
    \/ Bootstrap
    \/ RestoreFails
    \/ WarmupComplete
    \/ Consume
    \/ batch # {} /\ TransactionFails
    \/ ConnectionLost

Spec == Init /\ [][Next]_vars

\* run_virtual_trade_consumer is a loop of its own that always comes back: the
\* connection is retried after 5 s, a read blocks for REDIS_BLOCK_MS at most.
FairSpec == Spec /\ WF_vars(Consume)

-----------------------------------------------------------------------------
(* Properties *)

\* A position that has its trade is never open again, whatever was published
\* twice, redelivered or failed (the event_id check and the position_id as
\* primary keys of both tables, db.apply_virtual_trade_event).
NeverReopened == positions \cap trades = {}

\* Whatever the group no longer holds has been applied: a failed event, or one
\* committed just before a crash, is not lost (XACK follows COMMIT, and
\* "continue" skips it on failure, run_virtual_trade_consumer).
AckedIsApplied ==
    \A i \in (1..delivered) \ pel : stream[i] \in events

Published(e) == e \in Range(stream)

\* What the events published so far leave open.
OpenInStream ==
    {p \in Position : /\ Published(OpenEvent(p))
                      /\ \A c \in Candle : ~Published(CloseEvent(p, c))}

\* The Redis state is exactly what the stream leaves open, across restarts,
\* failed transactions and rebalances that could not be published (the one
\* MULTI/EXEC of VirtualTradeLedgerPublisher.rebalance).
StateMatchesStream ==
    OpenInStream = (IF state = None THEN {} ELSE state)

\* Every close in the stream closes a position opened before it and not closed
\* yet: the consumer never meets one it must refuse for ever
\* ("virtual position not found", db.apply_virtual_trade_event).
EveryCloseFindsItsPosition ==
    \A i \in 1..Len(stream) :
        stream[i].type = "VIRTUAL_CLOSE" =>
            /\ \E j \in 1..i-1 : stream[j] = OpenEvent(stream[i].position)
            /\ \A j \in 1..i-1 : stream[j].type = "VIRTUAL_CLOSE" =>
                   stream[j].position # stream[i].position

\* When the consumer has caught up, the worker's virtual positions are those the
\* runner will close at its next rebalance (VirtualTradeLedgerPublisher:
\* "the restart-safe set of virtual positions").
Converged ==
    (delivered = Len(stream) /\ pel = {}) =>
        positions = (IF state = None THEN {} ELSE state)

\* Types, and no position that was closed is open again.
TablesConsistent == TypeOK /\ NeverReopened

\* Unless the runner was misled, its Redis state is what the stream leaves open,
\* and no close is refused for ever, whatever else fails or stops.
StateIsStream == misled \/ (StateMatchesStream /\ EveryCloseFindsItsPosition)

\* Unless the runner was misled, a worker that has caught up holds what the
\* runner will close, whatever else fails or stops on either side.
BooksConverge == misled \/ Converged

\* Every published event is applied in the end, however often the consumer loses
\* its connection or the worker restarts (recover_pending).
EveryEventApplied ==
    \A e \in Event : Published(e) ~> (e \in events)

=============================================================================
