---------------------------- MODULE WorkerTasks ----------------------------
(***************************************************************************)
(* The tasks of the worker that share one SQLite connection: the consumer  *)
(* (a transaction for each signal, then a snapshot of the alpha), the price*)
(* check that closes positions by itself, the repair loop of the snapshot  *)
(* publisher.  A step is one await.  The connection runs the statements one*)
(* by one, whoever sends them, and shows every task the uncommitted rows;  *)
(* Python opens a transaction before an INSERT or a DELETE by itself.      *)
(***************************************************************************)
EXTENDS Naturals

CONSTANTS
    Alpha, Position,
    AlphaOf,        \* the alpha of a position
    Registered,     \* the alphas the worker registers when it starts
    MaxSignals,     \* bound: signals taken from the stream
    MaxFaults       \* bound: failed statements, failed Redis calls, crashes

VARIABLES
    disk, view,     \* what is committed; what the connection sees
    inTx,           \* a transaction is open
    consumer, price, repair,  \* the tasks: where they are and what they hold
    snapshot,       \* paper:positions:snapshot:{alpha}
    signals, faults

vars == <<disk, view, inTx, consumer, price, repair, snapshot, signals, faults>>

Of(open, a) == {p \in open : AlphaOf[p] = a}

\* (mutant: an alpha without a position is left alone)
HoldingAlphas(db) == {AlphaOf[p] : p \in db.open}

\* publish_all: the alphas of the table and those with a position.
KnownAlphas(db) == db.alphas \cup {AlphaOf[p] : p \in db.open}

Idle == [at |-> "idle"]

\* The worker starts: it publishes everything before it reads a signal.
Start(db) ==
    /\ disk' = db /\ view' = db /\ inTx' = FALSE
    /\ consumer' = [at |-> "starting"] /\ price' = Idle
    /\ repair' = [at |-> "read", todo |-> KnownAlphas(db)]

Empty == [alphas |-> Registered, open |-> {}, full |-> {}]
Init ==
    /\ disk = Empty /\ view = Empty /\ inTx = FALSE
    /\ consumer = [at |-> "starting"] /\ price = Idle
    /\ repair = [at |-> "read", todo |-> KnownAlphas(Empty)]
    /\ snapshot = [a \in Alpha |-> {}] /\ signals = 0 /\ faults = 0

Fault == faults < MaxFaults /\ faults' = faults + 1

\* The process dies and starts again; the open transaction is lost.
Crash == Fault /\ Start(disk) /\ UNCHANGED <<snapshot, signals>>

-----------------------------------------------------------------------------
\* The two statements of close_position.  The key of the trade is the position's, so
\* a second full close raises, and leaves a transaction open if there was none.
InsertTrade(p) ==
    /\ p \notin view.full
    /\ view' = [view EXCEPT !.full = @ \cup {p}] /\ inTx' = TRUE
InsertRaises(p) == p \in view.full /\ inTx' = TRUE /\ UNCHANGED view
DeletePosition(p) ==
    /\ view' = [view EXCEPT !.open = @ \ {p}] /\ inTx' = TRUE

Commit == disk' = view /\ inTx' = FALSE /\ UNCHANGED view
Rollback == view' = disk /\ inTx' = FALSE /\ UNCHANGED disk

-----------------------------------------------------------------------------
(* process_signal_message *)

ConsumerTo(at) == consumer' = [consumer EXCEPT !.at = at]
ConsumerRests == UNCHANGED <<price, repair, snapshot, signals, faults>>

Started ==
    /\ consumer.at = "starting" /\ repair.at = "idle" /\ consumer' = Idle
    /\ UNCHANGED <<disk, view, inTx>> /\ ConsumerRests

\* _tx_depth is counted up at once, BEGIN IMMEDIATE is awaited.
TakeSignal ==
    /\ consumer.at = "idle" /\ signals < MaxSignals /\ signals' = signals + 1
    /\ \E type \in {"OPEN", "CLOSE"}, p \in Position :
          consumer' = [at |-> "begin", type |-> type, p |-> p]
    /\ UNCHANGED <<disk, view, inTx, price, repair, snapshot, faults>>

InTransaction == consumer.at \in {"begin", "execute", "look", "insert", "delete", "commit", "rollback"}

\* BEGIN raises inside a transaction that another task's statement has opened.
Begin ==
    /\ consumer.at = "begin"
    /\ ConsumerTo(IF inTx THEN "rollback" ELSE "execute") /\ inTx' = TRUE
    /\ UNCHANGED <<disk, view>> /\ ConsumerRests

\* BEGIN (the database is locked), log_signal, mark_signal_processed or COMMIT raises.
StatementFails ==
    /\ consumer.at \in {"begin", "execute", "commit"} /\ Fault /\ ConsumerTo("rollback")
    /\ UNCHANGED <<disk, view, inTx, price, repair, snapshot, signals>>

\* The executor rejects what it cannot apply; the transaction is committed all the same.
Reject == consumer' = [at |-> "commit", applied |-> FALSE, p |-> consumer.p]
Apply == consumer' = [at |-> "commit", applied |-> TRUE, p |-> consumer.p]

ExecuteOpen ==
    /\ consumer.at = "execute" /\ consumer.type = "OPEN"
    /\ LET p == consumer.p
           registered == [view EXCEPT !.alphas = @ \cup {AlphaOf[p]}]
       IN IF p \in view.open \cup view.full
          THEN view' = registered /\ Reject
          ELSE view' = [registered EXCEPT !.open = @ \cup {p}] /\ Apply
    /\ UNCHANGED <<disk, inTx>> /\ ConsumerRests

ExecuteClose ==
    /\ consumer.at = "execute" /\ consumer.type = "CLOSE"
    /\ IF consumer.p \in view.open THEN ConsumerTo("look") ELSE Reject
    /\ UNCHANGED <<disk, view, inTx>> /\ ConsumerRests

\* close_position looks it up again, and returns when it is gone.
LookUpOfClose ==
    /\ consumer.at = "look"
    /\ IF consumer.p \in view.open THEN ConsumerTo("insert") ELSE Apply
    /\ UNCHANGED <<disk, view, inTx>> /\ ConsumerRests

InsertOfClose ==
    /\ consumer.at = "insert"
    /\ \/ InsertTrade(consumer.p) /\ ConsumerTo("delete")
       \/ InsertRaises(consumer.p) /\ Reject
    /\ UNCHANGED disk /\ ConsumerRests

DeleteOfClose ==
    /\ consumer.at = "delete" /\ DeletePosition(consumer.p) /\ Apply
    /\ UNCHANGED disk /\ ConsumerRests

CommitSignal ==
    /\ consumer.at = "commit" /\ Commit
    /\ consumer' = IF consumer.applied THEN [at |-> "read", a |-> AlphaOf[consumer.p]] ELSE Idle
    /\ ConsumerRests

\* The rollback also undoes what other tasks wrote; the message stays pending.
RollbackSignal == consumer.at = "rollback" /\ Rollback /\ consumer' = Idle /\ ConsumerRests

-----------------------------------------------------------------------------
(* publish_alpha: INCR and the read, then SET; whatever raises is logged *)

ReadAfterCommit ==
    /\ consumer.at = "read"
    /\ consumer' = [at |-> "set", a |-> consumer.a, rows |-> Of(view.open, consumer.a)]
    /\ UNCHANGED <<disk, view, inTx>> /\ ConsumerRests

SetAfterCommit ==
    /\ consumer.at = "set" /\ consumer' = Idle
    /\ snapshot' = [snapshot EXCEPT ![consumer.a] = consumer.rows]
    /\ UNCHANGED <<disk, view, inTx, price, repair, signals, faults>>

PublishAfterCommitFails ==
    /\ consumer.at \in {"read", "set"} /\ Fault /\ consumer' = Idle
    /\ UNCHANGED <<disk, view, inTx, price, repair, snapshot, signals>>

\* run and publish_all: alpha after alpha, then a pause.
RepairRests == UNCHANGED <<disk, view, inTx, consumer, price, signals>>
Next1(todo) == IF todo = {} THEN Idle ELSE [at |-> "read", todo |-> todo]

ListAlphas ==
    /\ repair.at = "idle" /\ consumer.at # "starting"
    /\ repair' = Next1(KnownAlphas(view)) /\ UNCHANGED <<snapshot, faults>> /\ RepairRests

ReadPositions ==
    /\ repair.at = "read"
    /\ IF repair.todo = {} THEN repair' = Idle
       ELSE \E a \in repair.todo :
              repair' = [at |-> "set", a |-> a, rows |-> Of(view.open, a), todo |-> repair.todo \ {a}]
    /\ UNCHANGED <<snapshot, faults>> /\ RepairRests

SetSnapshot ==
    /\ repair.at = "set" /\ repair' = Next1(repair.todo)
    /\ snapshot' = [snapshot EXCEPT ![repair.a] = repair.rows]
    /\ UNCHANGED faults /\ RepairRests

PublishFails ==
    /\ repair.at = "set" /\ Fault /\ repair' = Next1(repair.todo)
    /\ UNCHANGED snapshot /\ RepairRests

-----------------------------------------------------------------------------
(* run_price_check_loop, check_tpsl_hits: without a transaction of its own *)

PriceTo(at) == price' = [price EXCEPT !.at = at]
PriceRests == UNCHANGED <<consumer, repair, snapshot, signals, faults>>

\* A position of the list is hit; its fill is awaited.
Hit ==
    /\ price.at = "idle" /\ consumer.at # "starting"
    /\ \E p \in view.open : price' = [at |-> "fill", p |-> p]
    /\ UNCHANGED <<disk, view, inTx>> /\ PriceRests

\* close_position looks it up again.
LookUp ==
    /\ price.at = "fill"
    /\ IF price.p \in view.open THEN PriceTo("insert") ELSE price' = Idle
    /\ UNCHANGED <<disk, view, inTx>> /\ PriceRests

InsertOfHit ==
    /\ price.at = "insert"
    /\ \/ InsertTrade(price.p) /\ PriceTo("delete")
       \/ InsertRaises(price.p) /\ price' = Idle
    /\ UNCHANGED disk /\ PriceRests

DeleteOfHit ==
    /\ price.at = "delete" /\ DeletePosition(price.p) /\ PriceTo("commit")
    /\ UNCHANGED disk /\ PriceRests

\* _commit: left to the consumer while it counts a transaction of its own.
CommitHit ==
    /\ price.at = "commit" /\ price' = Idle
    /\ IF InTransaction THEN UNCHANGED <<disk, view, inTx>> ELSE Commit
    /\ PriceRests

-----------------------------------------------------------------------------
ConsumerStep ==
    \/ Started \/ Begin \/ ExecuteOpen \/ ExecuteClose \/ LookUpOfClose \/ InsertOfClose \/ DeleteOfClose
    \/ CommitSignal \/ RollbackSignal \/ ReadAfterCommit \/ SetAfterCommit
RepairStep == ListAlphas \/ ReadPositions \/ SetSnapshot
PriceStep == LookUp \/ InsertOfHit \/ DeleteOfHit \/ CommitHit

Next ==
    \/ TakeSignal \/ ConsumerStep \/ StatementFails \/ PublishAfterCommitFails
    \/ RepairStep \/ PublishFails \/ Hit \/ PriceStep \/ Crash

\* The event loop runs every task that is not waiting for a signal or a price.
Fairness == WF_vars(ConsumerStep) /\ WF_vars(RepairStep) /\ WF_vars(PriceStep)

Spec == Init /\ [][Next]_vars /\ Fairness

-----------------------------------------------------------------------------
TypeOK ==
    /\ \A db \in {disk, view} : db \in [alphas : SUBSET Alpha, open : SUBSET Position, full : SUBSET Position]
    /\ inTx \in BOOLEAN /\ (view # disk => inTx)
    /\ snapshot \in [Alpha -> SUBSET Position]
    /\ signals \in 0..MaxSignals /\ faults \in 0..MaxFaults

\* However the two publishers, the open transaction and the price check interleave, and
\* whatever was lost: when the signals stop, the snapshot of an alpha the worker knows
\* becomes the committed positions and stays so (PositionSnapshotPublisher.run).
SnapshotSettles ==
    \A a \in Alpha : <>[](a \in disk.alphas => snapshot[a] = Of(disk.open, a))

\* Does not hold for every alpha: the snapshot of one whose first OPEN was published
\* from inside the transaction and then rolled back is not repaired.
EverySnapshotSettles == \A a \in Alpha : <>[](snapshot[a] = Of(disk.open, a))

\* Does not hold with the price check (it is off by default): its INSERT goes with the
\* consumer's rollback, its DELETE is committed alone.
NothingVanishes == [][\A p \in disk.open \ disk'.open : p \in disk'.full]_vars
=============================================================================
