------------------------- MODULE WorkerTasks_proofs -------------------------
(***************************************************************************)
(* Theorems about WorkerTasks and their proofs.                            *)
(*                                                                         *)
(*   1. the inductive invariant: no task ends the transaction of the       *)
(*      consumer while its handler runs                                    *)
(*   2. a proof for each task                                              *)
(*   3. the theorems                                                       *)
(***************************************************************************)
EXTENDS WorkerTasks, TLAPS

\* What the constants are: every position belongs to an alpha.
ConstantTypes ==
    /\ AlphaOf \in [Position -> Alpha] /\ Registered \subseteq Alpha
    /\ MaxSignals \in Nat /\ MaxFaults \in Nat

-----------------------------------------------------------------------------
(***************************************************************************)
(* 1. The invariant.                                                       *)
(***************************************************************************)
Database == [alphas : SUBSET Alpha, open : SUBSET Position, full : SUBSET Position]

\* Between BEGIN and COMMIT.
Handling == {"execute", "look", "insert", "delete"}

ConsumerType ==
    consumer \in
        {Idle, [at |-> "starting"]}
        \cup [at : Handling \cup {"begin", "rollback"}, type : {"OPEN", "CLOSE"}, p : Position]
        \cup [at : {"commit", "rollback"}, applied : BOOLEAN, p : Position]
        \cup [at : {"read"}, a : Alpha]
        \cup [at : {"set"}, a : Alpha, rows : SUBSET Position]

PriceType == price \in {Idle} \cup [at : {"fill", "insert", "delete", "commit"}, p : Position]

RepairType ==
    repair \in
        {Idle} \cup [at : {"read"}, todo : SUBSET Alpha]
        \cup [at : {"set"}, a : Alpha, rows : SUBSET Position, todo : SUBSET Alpha]

RowsType ==
    /\ disk \in Database /\ view \in Database /\ inTx \in BOOLEAN
    /\ snapshot \in [Alpha -> SUBSET Position]
    /\ signals \in 0..MaxSignals /\ faults \in 0..MaxFaults

TasksType == RowsType /\ ConsumerType /\ PriceType /\ RepairType

\* From BEGIN to COMMIT the consumer has a transaction: what the price check wrote is
\* committed by the consumer then, and a failed BEGIN goes to the rollback.
OpenUntilCommit == consumer.at \in Handling \cup {"commit"} => inTx

\* Only inside a transaction the connection sees other rows than the disk has.
UncommittedInTx == view # disk => inTx

\* An alpha is registered in the transaction that opens its first position.
Known(db) == \A p \in db.open : AlphaOf[p] \in db.alphas

HeldAlphasAreKnown == Known(disk) /\ Known(view)

TasksInv == TasksType /\ OpenUntilCommit /\ UncommittedInTx /\ HeldAlphasAreKnown

LEMMA InitTasks == ASSUME ConstantTypes PROVE Init => TasksInv
<1> SUFFICES ASSUME Init PROVE TasksInv
    OBVIOUS
<1>1. Empty \in Database /\ Known(Empty) /\ KnownAlphas(Empty) = Registered
    BY DEF ConstantTypes, Empty, Database, Known, KnownAlphas
<1>2. RowsType
    <2>1. disk \in Database /\ view \in Database /\ inTx \in BOOLEAN
        BY <1>1, Zenon DEF Init
    <2>2. snapshot \in [Alpha -> SUBSET Position]
        BY DEF Init
    <2>3. signals \in 0..MaxSignals /\ faults \in 0..MaxFaults
        BY DEF ConstantTypes, Init
    <2> QED
        BY <2>1, <2>2, <2>3 DEF RowsType
<1>3. ConsumerType
    BY DEF Init, ConsumerType
<1>4. PriceType
    BY DEF Init, PriceType
<1>5. RepairType
    BY <1>1 DEF ConstantTypes, Init, RepairType
<1>6. OpenUntilCommit /\ UncommittedInTx /\ HeldAlphasAreKnown
    BY <1>1 DEF Init, OpenUntilCommit, UncommittedInTx, HeldAlphasAreKnown, Handling
<1> QED
    BY <1>2, <1>3, <1>4, <1>5, <1>6 DEF TasksInv, TasksType

-----------------------------------------------------------------------------
(***************************************************************************)
(* 2. The tasks.                                                           *)
(***************************************************************************)

\* Rows of an alpha, and the alphas to publish.
LEMMA RowsOfAlpha ==
    ASSUME ConstantTypes, NEW db \in Database, NEW a
    PROVE  Of(db.open, a) \in SUBSET Position /\ KnownAlphas(db) \in SUBSET Alpha
BY DEF ConstantTypes, Database, Of, KnownAlphas

LEMMA FaultCounts ==
    ASSUME ConstantTypes, faults \in 0..MaxFaults, Fault
    PROVE  faults' \in 0..MaxFaults
BY DEF ConstantTypes, Fault

\* A step that leaves the rows alone keeps what is said of them when the consumer's
\* place in its handler is as before, or outside of it.
LEMMA SameRows ==
    ASSUME TasksInv, UNCHANGED <<disk, view, inTx>>,
           consumer'.at \in Handling \cup {"commit"} => consumer.at \in Handling \cup {"commit"}
    PROVE  OpenUntilCommit' /\ UncommittedInTx' /\ HeldAlphasAreKnown'
BY DEF TasksInv, OpenUntilCommit, UncommittedInTx, HeldAlphasAreKnown, Known

\* What the consumer holds in its handler.
LEMMA HandlerHolds ==
    ASSUME ConsumerType
    PROVE  /\ consumer.at \in Handling \cup {"begin"} =>
                /\ consumer \in [at : Handling \cup {"begin", "rollback"},
                                 type : {"OPEN", "CLOSE"}, p : Position]
                /\ consumer.p \in Position
           /\ consumer.at = "commit" =>
                /\ consumer \in [at : {"commit", "rollback"}, applied : BOOLEAN, p : Position]
                /\ consumer.p \in Position
BY DEF ConsumerType, Handling, Idle

\* The handler goes on, or gives up.
LEMMA HandlerGoesOn ==
    ASSUME ConsumerType, NEW at \in Handling \cup {"rollback"},
           consumer.at \in Handling \cup {"begin"} \/ (consumer.at = "commit" /\ at = "rollback"),
           ConsumerTo(at)
    PROVE  ConsumerType' /\ consumer'.at = at
<1>1. CASE consumer.at \in Handling \cup {"begin"}
    BY <1>1, HandlerHolds DEF ConsumerTo, ConsumerType
<1>2. CASE consumer.at = "commit" /\ at = "rollback"
    BY <1>2, HandlerHolds DEF ConsumerTo, ConsumerType
<1> QED
    BY <1>1, <1>2

\* The handler has an answer.
LEMMA HandlerAnswers ==
    ASSUME ConsumerType, consumer.at \in Handling, Reject \/ Apply
    PROVE  ConsumerType' /\ consumer'.at = "commit"
<1>1. consumer.p \in Position
    BY HandlerHolds
<1>2. PICK applied \in BOOLEAN : consumer' = [at |-> "commit", applied |-> applied, p |-> consumer.p]
    BY DEF Reject, Apply
<1>3. consumer' \in [at : {"commit", "rollback"}, applied : BOOLEAN, p : Position]
    BY <1>1, <1>2
<1> QED
    BY <1>2, <1>3 DEF ConsumerType

\* A full close moves a position from one table to the other, in two statements.
LEMMA CloseStatements ==
    ASSUME RowsType, Known(view), NEW p \in Position,
           InsertTrade(p) \/ DeletePosition(p)
    PROVE  /\ view' \in Database /\ Known(view)' /\ inTx' = TRUE
           /\ view.full \subseteq view'.full
<1>1. CASE InsertTrade(p)
    BY <1>1 DEF RowsType, Database, Known, InsertTrade
<1>2. CASE DeletePosition(p)
    BY <1>2 DEF RowsType, Database, Known, DeletePosition
<1> QED
    BY <1>1, <1>2

\* Rows change inside a transaction only, or as a whole.
LEMMA WrittenInTx ==
    ASSUME TasksInv, view' \in Database, Known(view)', inTx' = TRUE, UNCHANGED disk
    PROVE  disk' \in Database /\ inTx' \in BOOLEAN /\ OpenUntilCommit' /\ UncommittedInTx'
           /\ HeldAlphasAreKnown'
BY DEF TasksInv, TasksType, RowsType, OpenUntilCommit, UncommittedInTx, HeldAlphasAreKnown, Known

LEMMA EndOfTx ==
    ASSUME TasksInv, Commit \/ Rollback, consumer'.at \notin Handling \cup {"commit"}
    PROVE  disk' \in Database /\ view' \in Database /\ inTx' \in BOOLEAN
           /\ OpenUntilCommit' /\ UncommittedInTx' /\ HeldAlphasAreKnown'
BY DEF TasksInv, TasksType, RowsType, Commit, Rollback, OpenUntilCommit, UncommittedInTx,
       HeldAlphasAreKnown, Known

\* process_signal_message, from the start of the worker to the rollback.
LEMMA ConsumerInTransaction ==
    ASSUME TasksInv, ConstantTypes,
           \/ Started \/ TakeSignal \/ Begin \/ StatementFails \/ ExecuteOpen \/ ExecuteClose
           \/ LookUpOfClose \/ InsertOfClose \/ DeleteOfClose \/ CommitSignal \/ RollbackSignal
    PROVE  TasksInv'
<1> USE DEF ConsumerRests
<1>0. /\ RowsType /\ ConsumerType /\ PriceType /\ RepairType
      /\ OpenUntilCommit /\ UncommittedInTx /\ HeldAlphasAreKnown /\ Known(view)
    BY DEF TasksInv, TasksType, HeldAlphasAreKnown
<1>1. CASE Started
    <2>1. ConsumerType' /\ consumer'.at = "idle"
        BY <1>1 DEF Started, ConsumerType, Idle
    <2>2. OpenUntilCommit' /\ UncommittedInTx' /\ HeldAlphasAreKnown'
        BY <1>1, <2>1, SameRows DEF Started, Handling
    <2> QED
        BY <1>0, <1>1, <2>1, <2>2 DEF Started, TasksInv, TasksType, RowsType, PriceType, RepairType
<1>2. CASE TakeSignal
    <2>1. ConsumerType' /\ consumer'.at = "begin"
        BY <1>2 DEF TakeSignal, ConsumerType
    <2>2. OpenUntilCommit' /\ UncommittedInTx' /\ HeldAlphasAreKnown'
        BY <1>2, <2>1, SameRows DEF TakeSignal, Handling
    <2>3. signals' \in 0..MaxSignals
        BY <1>0, <1>2 DEF TakeSignal, RowsType, ConstantTypes
    <2> QED
        BY <1>0, <1>2, <2>1, <2>2, <2>3 DEF TakeSignal, TasksInv, TasksType, RowsType, PriceType, RepairType
<1>3. CASE Begin
    <2>1. ConsumerType'
        BY <1>0, <1>3, HandlerGoesOn DEF Begin, Handling
    <2>2. view' \in Database /\ Known(view)' /\ inTx' = TRUE
        BY <1>0, <1>3 DEF Begin, RowsType, Known
    <2> QED
        BY <1>0, <1>3, <2>1, <2>2, WrittenInTx
        DEF Begin, TasksInv, TasksType, RowsType, PriceType, RepairType
<1>4. CASE StatementFails
    <2>1. ConsumerType' /\ consumer'.at = "rollback"
        BY <1>0, <1>4, HandlerGoesOn DEF StatementFails, Handling
    <2>2. OpenUntilCommit' /\ UncommittedInTx' /\ HeldAlphasAreKnown'
        BY <1>4, <2>1, SameRows DEF StatementFails, Handling
    <2>3. faults' \in 0..MaxFaults
        BY <1>0, <1>4, FaultCounts DEF StatementFails, RowsType
    <2> QED
        BY <1>0, <1>4, <2>1, <2>2, <2>3
        DEF StatementFails, TasksInv, TasksType, RowsType, PriceType, RepairType
<1>5. CASE ExecuteOpen
    <2>1. ConsumerType' /\ consumer'.at = "commit"
        BY <1>0, <1>5, HandlerAnswers DEF ExecuteOpen, Handling
    <2>2. consumer.p \in Position /\ inTx = TRUE
        BY <1>0, <1>5, HandlerHolds DEF ExecuteOpen, Handling, OpenUntilCommit
    <2>3. view' \in Database /\ Known(view)'
        <3> DEFINE alphas == view.alphas \cup {AlphaOf[consumer.p]}
        <3>1. alphas \in SUBSET Alpha
            BY <1>0, <2>2 DEF RowsType, Database, ConstantTypes
        <3>2. PICK open \in {view.open, view.open \cup {consumer.p}} :
                  view' = [alphas |-> alphas, open |-> open, full |-> view.full]
            BY <1>0, <1>5 DEF ExecuteOpen, RowsType, Database
        <3> QED
            BY <1>0, <2>2, <3>1, <3>2 DEF RowsType, Database, Known
    <2>4. inTx' = TRUE
        BY <1>5, <2>2 DEF ExecuteOpen
    <2> QED
        BY <1>0, <1>5, <2>1, <2>3, <2>4, WrittenInTx
        DEF ExecuteOpen, TasksInv, TasksType, RowsType, PriceType, RepairType
<1>6. CASE ExecuteClose \/ LookUpOfClose
    <2>1. ConsumerType'
        BY <1>0, <1>6, HandlerAnswers, HandlerGoesOn DEF ExecuteClose, LookUpOfClose, Handling
    <2>2. OpenUntilCommit' /\ UncommittedInTx' /\ HeldAlphasAreKnown'
        BY <1>6, SameRows DEF ExecuteClose, LookUpOfClose, Handling
    <2> QED
        BY <1>0, <1>6, <2>1, <2>2
        DEF ExecuteClose, LookUpOfClose, TasksInv, TasksType, RowsType, PriceType, RepairType
<1>7. CASE InsertOfClose \/ DeleteOfClose
    <2>1. ConsumerType'
        BY <1>0, <1>7, HandlerAnswers, HandlerGoesOn DEF InsertOfClose, DeleteOfClose, Handling
    <2>2. consumer.p \in Position
        BY <1>0, <1>7, HandlerHolds DEF InsertOfClose, DeleteOfClose, Handling
    <2>3. view' \in Database /\ Known(view)' /\ inTx' = TRUE
        <3>1. CASE InsertTrade(consumer.p) \/ DeletePosition(consumer.p)
            BY <1>0, <2>2, <3>1, CloseStatements
        <3>2. CASE InsertRaises(consumer.p)
            BY <1>0, <3>2 DEF InsertRaises, RowsType, Known
        <3> QED
            BY <1>7, <3>1, <3>2 DEF InsertOfClose, DeleteOfClose
    <2> QED
        BY <1>0, <1>7, <2>1, <2>3, WrittenInTx
        DEF InsertOfClose, DeleteOfClose, TasksInv, TasksType, RowsType, PriceType, RepairType
<1>8. CASE CommitSignal
    <2>1. consumer.p \in Position
        BY <1>0, <1>8, HandlerHolds DEF CommitSignal
    <2>2. ConsumerType' /\ consumer'.at \in {"idle", "read"}
        BY <1>8, <2>1 DEF CommitSignal, ConsumerType, Idle, ConstantTypes
    <2> QED
        BY <1>0, <1>8, <2>2, EndOfTx
        DEF CommitSignal, Handling, TasksInv, TasksType, RowsType, PriceType, RepairType
<1>9. CASE RollbackSignal
    <2>1. ConsumerType' /\ consumer'.at = "idle"
        BY <1>9 DEF RollbackSignal, ConsumerType, Idle
    <2> QED
        BY <1>0, <1>9, <2>1, EndOfTx
        DEF RollbackSignal, Handling, TasksInv, TasksType, RowsType, PriceType, RepairType
<1> QED
    BY <1>1, <1>2, <1>3, <1>4, <1>5, <1>6, <1>7, <1>8, <1>9

\* What the publishers hold.
LEMMA SetterHolds ==
    ASSUME ConsumerType, RepairType
    PROVE  /\ consumer.at = "read" => consumer.a \in Alpha
           /\ consumer.at = "set" => consumer.a \in Alpha /\ consumer.rows \in SUBSET Position
           /\ repair.at = "read" => repair.todo \in SUBSET Alpha
           /\ repair.at = "set" => /\ repair.a \in Alpha /\ repair.rows \in SUBSET Position
                                   /\ repair.todo \in SUBSET Alpha
BY DEF ConsumerType, RepairType, Idle, Handling

\* publish_alpha after a commit.
LEMMA ConsumerPublishes ==
    ASSUME TasksInv, ConstantTypes, ReadAfterCommit \/ SetAfterCommit \/ PublishAfterCommitFails
    PROVE  TasksInv'
<1>0. RowsType /\ ConsumerType /\ PriceType /\ RepairType
    BY DEF TasksInv, TasksType
<1>1. ConsumerType' /\ consumer'.at \in {"idle", "set"}
    <2>1. CASE ReadAfterCommit
        <3>1. consumer.a \in Alpha /\ Of(view.open, consumer.a) \in SUBSET Position
            BY <1>0, <2>1, SetterHolds, RowsOfAlpha DEF ReadAfterCommit, RowsType
        <3> QED
            BY <2>1, <3>1 DEF ReadAfterCommit, ConsumerType
    <2>2. CASE SetAfterCommit \/ PublishAfterCommitFails
        BY <2>2 DEF SetAfterCommit, PublishAfterCommitFails, ConsumerType, Idle
    <2> QED
        BY <2>1, <2>2
<1>2. OpenUntilCommit' /\ UncommittedInTx' /\ HeldAlphasAreKnown'
    BY <1>1, SameRows
    DEF ReadAfterCommit, SetAfterCommit, PublishAfterCommitFails, ConsumerRests, Handling
<1>3. snapshot' \in [Alpha -> SUBSET Position]
    BY <1>0, SetterHolds
    DEF ReadAfterCommit, SetAfterCommit, PublishAfterCommitFails, ConsumerRests, RowsType
<1>4. faults' \in 0..MaxFaults
    BY <1>0, FaultCounts
    DEF ReadAfterCommit, SetAfterCommit, PublishAfterCommitFails, ConsumerRests, RowsType
<1>5. UNCHANGED <<disk, view, inTx, price, repair, signals>>
    BY DEF ReadAfterCommit, SetAfterCommit, PublishAfterCommitFails, ConsumerRests
<1> QED
    BY <1>0, <1>1, <1>2, <1>3, <1>4, <1>5 DEF TasksInv, TasksType, RowsType, PriceType, RepairType

\* PositionSnapshotPublisher.run.
LEMMA RepairPublishes ==
    ASSUME TasksInv, ConstantTypes, RepairStep \/ PublishFails
    PROVE  TasksInv'
<1> USE DEF RepairRests
<1>0. RowsType /\ ConsumerType /\ PriceType /\ RepairType
    BY DEF TasksInv, TasksType
<1>1. ASSUME NEW todo \in SUBSET Alpha, repair' = Next1(todo)
      PROVE  RepairType'
    BY <1>1 DEF Next1, RepairType
<1>2. RepairType'
    <2>1. CASE ListAlphas
        BY <1>0, <1>1, <2>1, RowsOfAlpha DEF ListAlphas, RowsType
    <2>2. CASE ReadPositions
        <3>1. CASE repair.todo = {}
            BY <2>2, <3>1 DEF ReadPositions, RepairType
        <3>2. CASE repair.todo # {}
            <4>1. PICK a \in repair.todo :
                      repair' = [at |-> "set", a |-> a, rows |-> Of(view.open, a),
                                 todo |-> repair.todo \ {a}]
                BY <2>2, <3>2 DEF ReadPositions
            <4>2. repair.todo \in SUBSET Alpha /\ Of(view.open, a) \in SUBSET Position
                BY <1>0, <2>2, SetterHolds, RowsOfAlpha DEF ReadPositions, RowsType
            <4>3. a \in Alpha /\ repair.todo \ {a} \in SUBSET Alpha
                BY <4>2
            <4> QED
                BY <4>1, <4>2, <4>3 DEF RepairType
        <3> QED
            BY <3>1, <3>2
    <2>3. CASE SetSnapshot \/ PublishFails
        BY <1>0, <1>1, <2>3, SetterHolds DEF SetSnapshot, PublishFails
    <2> QED
        BY <2>1, <2>2, <2>3 DEF RepairStep
<1>3. snapshot' \in [Alpha -> SUBSET Position]
    BY <1>0, SetterHolds DEF RepairStep, ListAlphas, ReadPositions, SetSnapshot, PublishFails, RowsType
<1>4. faults' \in 0..MaxFaults
    BY <1>0, FaultCounts DEF RepairStep, ListAlphas, ReadPositions, SetSnapshot, PublishFails, RowsType
<1>5. UNCHANGED <<disk, view, inTx, consumer, price, signals>>
    BY DEF RepairStep, ListAlphas, ReadPositions, SetSnapshot, PublishFails
<1>6. OpenUntilCommit' /\ UncommittedInTx' /\ HeldAlphasAreKnown'
    BY <1>5, SameRows
<1> QED
    BY <1>0, <1>2, <1>3, <1>4, <1>5, <1>6 DEF TasksInv, TasksType, RowsType, ConsumerType, PriceType

\* check_tpsl_hits.
LEMMA PriceCloses ==
    ASSUME TasksInv, ConstantTypes, Hit \/ PriceStep
    PROVE  TasksInv'
<1> USE DEF PriceRests
<1>0. /\ RowsType /\ ConsumerType /\ PriceType /\ RepairType
      /\ OpenUntilCommit /\ UncommittedInTx /\ HeldAlphasAreKnown /\ Known(view)
    BY DEF TasksInv, TasksType, HeldAlphasAreKnown
<1>1. UNCHANGED <<consumer, repair, snapshot, signals, faults>>
    BY DEF Hit, PriceStep, LookUp, InsertOfHit, DeleteOfHit, CommitHit
<1>2. price.at # "idle" =>
          /\ price \in [at : {"fill", "insert", "delete", "commit"}, p : Position]
          /\ price.p \in Position
    BY <1>0 DEF PriceType, Idle
<1>3. ASSUME NEW at \in {"insert", "delete", "commit"}, price.at # "idle", PriceTo(at)
      PROVE  PriceType'
    BY <1>2, <1>3 DEF PriceTo, PriceType
<1>4. ASSUME PriceType', view' \in Database, disk' \in Database, inTx' \in BOOLEAN,
             OpenUntilCommit', UncommittedInTx', HeldAlphasAreKnown'
      PROVE  TasksInv'
    BY <1>0, <1>1, <1>4 DEF TasksInv, TasksType, RowsType, ConsumerType, RepairType
<1>5. CASE Hit \/ LookUp
    <2>1. PriceType'
        <3>1. CASE Hit
            BY <1>0, <3>1 DEF Hit, PriceType, RowsType, Database
        <3>2. CASE LookUp
            BY <1>3, <3>2 DEF LookUp, PriceType
        <3> QED
            BY <1>5, <3>1, <3>2
    <2>2. UNCHANGED <<disk, view, inTx>>
        BY <1>5 DEF Hit, LookUp
    <2>3. OpenUntilCommit' /\ UncommittedInTx' /\ HeldAlphasAreKnown'
        BY <1>1, <2>2, SameRows
    <2> QED
        BY <1>0, <1>4, <2>1, <2>2, <2>3 DEF RowsType
<1>6. CASE InsertOfHit \/ DeleteOfHit
    <2>1. PriceType'
        BY <1>3, <1>6 DEF InsertOfHit, DeleteOfHit, PriceType
    <2>2. price.p \in Position
        BY <1>2, <1>6 DEF InsertOfHit, DeleteOfHit
    <2>3. view' \in Database /\ Known(view)' /\ inTx' = TRUE
        <3>1. CASE InsertTrade(price.p) \/ DeletePosition(price.p)
            BY <1>0, <2>2, <3>1, CloseStatements
        <3>2. CASE InsertRaises(price.p)
            BY <1>0, <3>2 DEF InsertRaises, RowsType, Known
        <3> QED
            BY <1>6, <3>1, <3>2 DEF InsertOfHit, DeleteOfHit
    <2>4. disk' = disk
        BY <1>6 DEF InsertOfHit, DeleteOfHit
    <2> QED
        BY <1>4, <2>1, <2>3, <2>4, WrittenInTx
<1>7. CASE CommitHit
    <2>1. PriceType'
        BY <1>7 DEF CommitHit, PriceType
    <2>2. CASE InTransaction
        <3>1. UNCHANGED <<disk, view, inTx>>
            BY <1>7, <2>2 DEF CommitHit
        <3>2. OpenUntilCommit' /\ UncommittedInTx' /\ HeldAlphasAreKnown'
            BY <1>1, <3>1, SameRows
        <3> QED
            BY <1>0, <1>4, <2>1, <3>1, <3>2 DEF RowsType
    <2>3. CASE ~ InTransaction
        BY <1>1, <1>4, <1>7, <2>1, <2>3, EndOfTx DEF CommitHit, InTransaction, Handling
    <2> QED
        BY <2>2, <2>3
<1> QED
    BY <1>5, <1>6, <1>7 DEF PriceStep

\* What is committed survives a crash, and every task starts anew.
LEMMA CrashRestarts ==
    ASSUME TasksInv, ConstantTypes, Crash
    PROVE  TasksInv'
<1>0. RowsType /\ Known(disk)
    BY DEF TasksInv, TasksType, HeldAlphasAreKnown
<1>1. disk' = disk /\ view' = disk /\ inTx' = FALSE
    BY DEF Crash, Start
<1>2. RowsType'
    BY <1>0, <1>1, FaultCounts DEF Crash, RowsType
<1>3. ConsumerType' /\ consumer'.at = "starting"
    BY DEF Crash, Start, ConsumerType
<1>4. PriceType'
    BY DEF Crash, Start, PriceType
<1>5. RepairType'
    BY <1>0, RowsOfAlpha DEF Crash, Start, RepairType, RowsType
<1>6. OpenUntilCommit' /\ UncommittedInTx' /\ HeldAlphasAreKnown'
    BY <1>0, <1>1, <1>3 DEF OpenUntilCommit, UncommittedInTx, HeldAlphasAreKnown, Known, Handling
<1> QED
    BY <1>2, <1>3, <1>4, <1>5, <1>6 DEF TasksInv, TasksType

LEMMA TasksStep ==
    ASSUME TasksInv, ConstantTypes, [Next]_vars
    PROVE  TasksInv'
<1>1. CASE UNCHANGED vars
    BY <1>1 DEF vars, TasksInv, TasksType, RowsType, ConsumerType, PriceType, RepairType,
                OpenUntilCommit, UncommittedInTx, HeldAlphasAreKnown, Known
<1> QED
    BY <1>1, ConsumerInTransaction, ConsumerPublishes, RepairPublishes, PriceCloses, CrashRestarts
    DEF Next, ConsumerStep

-----------------------------------------------------------------------------
(***************************************************************************)
(* 3. The theorems.                                                        *)
(***************************************************************************)
LEMMA TasksInvariant == ASSUME ConstantTypes PROVE Spec => []TasksInv
BY InitTasks, TasksStep, PTL DEF Spec

\* TypeOK: in particular, whoever sends statements over the shared connection, rows
\* that are not committed are seen only while a transaction is open.
THEOREM TasksTypeCorrect == ASSUME ConstantTypes PROVE Spec => []TypeOK
<1>1. TasksInv => TypeOK
    BY DEF TasksInv, TasksType, RowsType, Database, UncommittedInTx, TypeOK
<1> QED
    BY TasksInvariant, <1>1, PTL

\* Between the BEGIN and the COMMIT of process_signal_message a transaction is open,
\* whatever the price check writes and commits: its _commit waits while _tx_depth is up.
THEOREM HandlerKeepsItsTransaction == ASSUME ConstantTypes PROVE Spec => []OpenUntilCommit
<1>1. TasksInv => OpenUntilCommit
    BY DEF TasksInv
<1> QED
    BY TasksInvariant, <1>1, PTL

\* Every alpha with a position, committed or not, is a row of the table alphas: what
\* SnapshotSettles says of the known alphas, it says of all that hold something.
THEOREM HeldAlphasAreRegistered == ASSUME ConstantTypes PROVE Spec => []HeldAlphasAreKnown
<1>1. TasksInv => HeldAlphasAreKnown
    BY DEF TasksInv
<1> QED
    BY TasksInvariant, <1>1, PTL

\* The price check is off by default: its task never takes a position.
PriceCheckOff == price.at = "idle"

\* A position that is gone has its trade, and a trade is not lost before COMMIT.
ClosedHasTrade ==
    /\ disk.full \subseteq view.full
    /\ disk.open \ view.open \subseteq view.full
    /\ consumer.at = "delete" => consumer.p \in view.full

LEMMA ClosedHasTradeStep ==
    ASSUME TasksInv, ClosedHasTrade, PriceCheckOff, PriceCheckOff', [Next]_vars
    PROVE  ClosedHasTrade' /\ \A p \in disk.open \ disk'.open : p \in disk'.full
<1> USE DEF ConsumerRests, RepairRests, PriceRests
<1>0. disk \in Database /\ view \in Database /\ ConsumerType
    BY DEF TasksInv, TasksType, RowsType
<1>1. ASSUME disk' = disk, disk.full \subseteq view'.full, disk.open \ view'.open \subseteq view'.full,
             consumer'.at = "delete" => consumer'.p \in view'.full
      PROVE  ClosedHasTrade' /\ \A p \in disk.open \ disk'.open : p \in disk'.full
    BY <1>1 DEF ClosedHasTrade
<1>2. ASSUME UNCHANGED <<disk, view>>, consumer'.at # "delete" \/ UNCHANGED consumer
      PROVE  ClosedHasTrade' /\ \A p \in disk.open \ disk'.open : p \in disk'.full
    BY <1>1, <1>2 DEF ClosedHasTrade
<1>3. CASE Started \/ TakeSignal \/ Begin \/ StatementFails \/ ExecuteClose \/ LookUpOfClose
    <2>1. consumer'.at # "delete"
        <3>1. CASE Started \/ TakeSignal
            BY <3>1 DEF Started, TakeSignal, Idle
        <3>2. CASE Begin \/ StatementFails \/ ExecuteClose \/ LookUpOfClose
            BY <1>0, <3>2, HandlerGoesOn, HandlerAnswers
            DEF Begin, StatementFails, ExecuteClose, LookUpOfClose, Handling
        <3> QED
            BY <1>3, <3>1, <3>2
    <2> QED
        BY <1>2, <1>3, <2>1
        DEF Started, TakeSignal, Begin, StatementFails, ExecuteClose, LookUpOfClose
<1>4. CASE ExecuteOpen
    <2>1. consumer'.at = "commit"
        BY <1>0, <1>4, HandlerAnswers DEF ExecuteOpen, Handling
    <2>2. view'.full = view.full /\ view.open \subseteq view'.open
        BY <1>0, <1>4 DEF ExecuteOpen, Database
    <2> QED
        BY <1>1, <1>4, <2>1, <2>2 DEF ExecuteOpen, ClosedHasTrade
<1>5. CASE InsertOfClose
    <2>1. CASE InsertTrade(consumer.p) /\ ConsumerTo("delete")
        <3>1. view'.full = view.full \cup {consumer.p} /\ view'.open = view.open
            BY <1>0, <2>1 DEF InsertTrade, Database
        <3>2. consumer'.p = consumer.p
            BY <1>0, <1>5, <2>1, HandlerHolds DEF InsertOfClose, ConsumerTo, Handling
        <3> QED
            BY <1>1, <1>5, <3>1, <3>2 DEF InsertOfClose, ClosedHasTrade
    <2>2. CASE InsertRaises(consumer.p) /\ Reject
        BY <1>2, <1>5, <2>2 DEF InsertOfClose, InsertRaises, Reject
    <2> QED
        BY <1>5, <2>1, <2>2 DEF InsertOfClose
<1>6. CASE DeleteOfClose
    <2>1. view'.full = view.full /\ view'.open = view.open \ {consumer.p}
        BY <1>0, <1>6 DEF DeleteOfClose, DeletePosition, Database
    <2>2. consumer.p \in view.full /\ consumer'.at = "commit"
        BY <1>6 DEF DeleteOfClose, ClosedHasTrade, Apply
    <2> QED
        BY <1>1, <1>6, <2>1, <2>2 DEF DeleteOfClose, ClosedHasTrade
<1>7. CASE CommitSignal
    BY <1>0, <1>7 DEF CommitSignal, Commit, ClosedHasTrade, Idle
<1>8. CASE RollbackSignal
    BY <1>1, <1>8 DEF RollbackSignal, Rollback, Idle
<1>9. CASE ReadAfterCommit \/ SetAfterCommit \/ PublishAfterCommitFails
    BY <1>2, <1>9 DEF ReadAfterCommit, SetAfterCommit, PublishAfterCommitFails, Idle
<1>10. CASE RepairStep \/ PublishFails
    BY <1>2, <1>10 DEF RepairStep, ListAlphas, ReadPositions, SetSnapshot, PublishFails
<1>11. CASE Hit \/ PriceStep
    BY <1>11 DEF Hit, PriceStep, LookUp, InsertOfHit, DeleteOfHit, CommitHit, PriceCheckOff
<1>12. CASE Crash
    BY <1>1, <1>12 DEF Crash, Start
<1>13. CASE UNCHANGED vars
    BY <1>2, <1>13 DEF vars
<1> QED
    BY <1>3, <1>4, <1>5, <1>6, <1>7, <1>8, <1>9, <1>10, <1>11, <1>12, <1>13 DEF Next, ConsumerStep

\* With the price check off no row is lost, whatever statement fails and wherever the
\* worker crashes: a committed position that is gone has its full trade, committed
\* with it.  (With the price check on this does not hold.)
THEOREM NothingVanishesByDefault ==
    ASSUME ConstantTypes PROVE Spec /\ []PriceCheckOff => NothingVanishes
<1>1. Init => ClosedHasTrade
    BY DEF Init, Empty, ClosedHasTrade
<1>2. TasksInv /\ ClosedHasTrade /\ PriceCheckOff /\ PriceCheckOff' /\ [Next]_vars
        => ClosedHasTrade' /\ [\A p \in disk.open \ disk'.open : p \in disk'.full]_vars
    BY ClosedHasTradeStep
<1> QED
    BY TasksInvariant, <1>1, <1>2, PTL DEF Spec, NothingVanishes

=============================================================================
