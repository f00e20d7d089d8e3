------------------------ MODULE SignalWorker_proofs ------------------------
(***************************************************************************)
(* Theorems about SignalWorker and their proofs.                           *)
(*                                                                         *)
(*   1. what the operations of db.py do to a database value                *)
(*   2. type correctness                                                   *)
(*   3. conservation of quantity                                           *)
(*   4. what the signals table records                                     *)
(*   5. the counters                                                       *)
(*   6. the effect of every handler on the book                            *)
(*   7. an open position can be closed in full                             *)
(*   8. the worker implements PositionLedger                               *)
(***************************************************************************)
EXTENDS SignalWorker, SequenceTheorems, TLAPS

-----------------------------------------------------------------------------
(***************************************************************************)
(* 1. Operations of the database.                                          *)
(***************************************************************************)

\* A function on an initial segment of the naturals is a sequence (the shape in
\* which the model rewrites the rows of the signals table).
LEMMA FunctionIsSeq ==
    ASSUME NEW S, NEW n \in Nat, NEW f \in [1..n -> S]
    PROVE  f \in Seq(S) /\ Len(f) = n
<1>1. f \in Seq(S)
    BY SeqDef
<1>2. Len(f) \in Nat /\ DOMAIN f = 1..Len(f)
    BY <1>1, LenProperties
<1>3. DOMAIN f = 1..n
    OBVIOUS
<1> QED
    BY <1>1, <1>2, <1>3

\* log_signal appends one unprocessed row and touches no other table.
LEMMA LogSignalProperties ==
    ASSUME NEW d \in Database, NEW m \in Signals
    PROVE  LET s == LogSignal(d, m) IN
           /\ s \in Database
           /\ s.positions = d.positions /\ s.traded = d.traded
           /\ s.full = d.full /\ s.opened = d.opened
           /\ s.unreduced = d.unreduced
           /\ Len(s.signals) = Len(d.signals) + 1
           /\ s.signals[Len(s.signals)] =
                 [payload |-> m, processed |-> FALSE, error |-> FALSE]
           /\ \A i \in 1..Len(d.signals) : s.signals[i] = d.signals[i]
<1> DEFINE r == [payload |-> m, processed |-> FALSE, error |-> FALSE]
<1>1. r \in Row
    BY DEF Row
<1>2. d.signals \in Seq(Row)
    BY DEF Database
<1>3. /\ Append(d.signals, r) \in Seq(Row)
      /\ Len(Append(d.signals, r)) = Len(d.signals) + 1
      /\ Append(d.signals, r)[Len(d.signals) + 1] = r
      /\ \A i \in 1..Len(d.signals) : Append(d.signals, r)[i] = d.signals[i]
    BY <1>1, <1>2
<1>4. LogSignal(d, m) = [d EXCEPT !.signals = Append(d.signals, r)]
    BY DEF LogSignal
<1> HIDE DEF r
<1>5. /\ LogSignal(d, m) \in Database
      /\ LogSignal(d, m).signals = Append(d.signals, r)
      /\ LogSignal(d, m).positions = d.positions
      /\ LogSignal(d, m).traded = d.traded
      /\ LogSignal(d, m).full = d.full
      /\ LogSignal(d, m).opened = d.opened
      /\ LogSignal(d, m).unreduced = d.unreduced
    BY <1>3, <1>4 DEF Database
<1> QED
    BY <1>3, <1>5 DEF r

\* mark_signal_processed keeps the rows, marks those of the id and touches no
\* other table.
LEMMA MarkProcessedProperties ==
    ASSUME NEW d \in Database, NEW id, NEW failed \in BOOLEAN
    PROVE  LET s == MarkProcessed(d, id, failed) IN
           /\ s \in Database
           /\ s.positions = d.positions /\ s.traded = d.traded
           /\ s.full = d.full /\ s.opened = d.opened
           /\ s.unreduced = d.unreduced
           /\ Len(s.signals) = Len(d.signals)
           /\ \A i \in 1..Len(d.signals) :
                 IF d.signals[i].payload.id = id
                 THEN /\ s.signals[i].payload = d.signals[i].payload
                      /\ s.signals[i].processed
                      /\ s.signals[i].error = failed
                 ELSE s.signals[i] = d.signals[i]
<1> DEFINE n == Len(d.signals)
           row(i) == IF d.signals[i].payload.id = id
                     THEN [d.signals[i] EXCEPT !.processed = TRUE, !.error = failed]
                     ELSE d.signals[i]
           rows == [i \in 1..n |-> row(i)]
<1>1. /\ d.signals \in Seq(Row)
      /\ n \in Nat
      /\ DOMAIN d.signals = 1..n
    BY LenProperties DEF Database
<1>2. ASSUME NEW i \in 1..n
      PROVE  /\ d.signals[i] \in Row
             /\ row(i) \in Row
             /\ row(i).payload = d.signals[i].payload
             /\ d.signals[i].payload.id = id =>
                    row(i).processed /\ row(i).error = failed
    <2>1. d.signals[i] \in Row
        BY <1>1, ElementOfSeq
    <2> QED
        BY <2>1 DEF Row
<1>3. rows \in Seq(Row) /\ Len(rows) = n
    <2>1. rows \in [1..n -> Row]
        BY <1>2
    <2> HIDE DEF rows
    <2> QED
        BY <2>1, <1>1, FunctionIsSeq
<1>4. MarkProcessed(d, id, failed) = [d EXCEPT !.signals = rows]
    BY <1>1 DEF MarkProcessed
<1>5. \A i \in 1..n : rows[i] = row(i)
    OBVIOUS
<1> HIDE DEF rows
<1>6. /\ MarkProcessed(d, id, failed) \in Database
      /\ MarkProcessed(d, id, failed).signals = rows
      /\ MarkProcessed(d, id, failed).positions = d.positions
      /\ MarkProcessed(d, id, failed).traded = d.traded
      /\ MarkProcessed(d, id, failed).full = d.full
      /\ MarkProcessed(d, id, failed).opened = d.opened
      /\ MarkProcessed(d, id, failed).unreduced = d.unreduced
    BY <1>3, <1>4 DEF Database
<1> QED
    BY <1>2, <1>3, <1>5, <1>6

\* Logging and settling a signal adds one processed row with its outcome.
LEMMA SettledProperties ==
    ASSUME NEW d \in Database, NEW m \in Signals, NEW failed \in BOOLEAN
    PROVE  LET s == Settled(d, m, failed) IN
           /\ s \in Database
           /\ s.positions = d.positions /\ s.traded = d.traded
           /\ s.full = d.full /\ s.opened = d.opened
           /\ s.unreduced = d.unreduced
           /\ Len(s.signals) = Len(d.signals) + 1
           /\ s.signals[Len(s.signals)].payload = m
           /\ s.signals[Len(s.signals)].processed
           /\ s.signals[Len(s.signals)].error = failed
           /\ \A i \in 1..Len(d.signals) :
                 /\ s.signals[i].payload = d.signals[i].payload
                 /\ d.signals[i].processed => s.signals[i].processed
<1> DEFINE l == LogSignal(d, m)
           s == MarkProcessed(l, m.id, failed)
<1>1. Settled(d, m, failed) = s
    BY DEF Settled
<1>2. /\ l \in Database
      /\ l.positions = d.positions /\ l.traded = d.traded
      /\ l.full = d.full /\ l.opened = d.opened
      /\ l.unreduced = d.unreduced
      /\ Len(l.signals) = Len(d.signals) + 1
      /\ l.signals[Len(l.signals)] =
            [payload |-> m, processed |-> FALSE, error |-> FALSE]
      /\ \A i \in 1..Len(d.signals) : l.signals[i] = d.signals[i]
    BY LogSignalProperties
<1>3. /\ s \in Database
      /\ s.positions = l.positions /\ s.traded = l.traded
      /\ s.full = l.full /\ s.opened = l.opened
      /\ s.unreduced = l.unreduced
      /\ Len(s.signals) = Len(l.signals)
      /\ \A i \in 1..Len(l.signals) :
            IF l.signals[i].payload.id = m.id
            THEN /\ s.signals[i].payload = l.signals[i].payload
                 /\ s.signals[i].processed
                 /\ s.signals[i].error = failed
            ELSE s.signals[i] = l.signals[i]
    BY <1>2, MarkProcessedProperties
<1>4. Len(d.signals) \in Nat
    BY LenProperties DEF Database
<1> HIDE DEF l, s
<1>5. Len(l.signals) \in 1..Len(l.signals)
    BY <1>2, <1>4
<1>6. /\ s.signals[Len(s.signals)].payload = m
      /\ s.signals[Len(s.signals)].processed
      /\ s.signals[Len(s.signals)].error = failed
    BY <1>2, <1>3, <1>5
<1>7. \A i \in 1..Len(d.signals) :
          /\ s.signals[i].payload = d.signals[i].payload
          /\ d.signals[i].processed => s.signals[i].processed
    BY <1>2, <1>3, <1>4
<1> QED
    BY <1>1, <1>2, <1>3, <1>6, <1>7

-----------------------------------------------------------------------------
(***************************************************************************)
(* What every handler keeps of a database value, and what holds of the     *)
(* value it leaves behind.                                                 *)
(***************************************************************************)
Sound(d) ==
    /\ Conserved(d)
    /\ DUPLICATE_POSITION_POLICY = "reject" => OnePerSymbol(d)

\* Sound depends on the two book tables and the history of openings only.
LEMMA SoundFrame ==
    ASSUME NEW d \in Database, NEW e \in Database, Sound(d),
           e.positions = d.positions, e.traded = d.traded, e.opened = d.opened,
           e.unreduced = d.unreduced
    PROVE  Sound(e)
BY DEF Sound, Conserved, QtyOpen, OnePerSymbol, Open

\* register_alpha only adds to the alphas table.
LEMMA RegisterAlphaProperties ==
    ASSUME NEW d \in Database, NEW a \in Alpha
    PROVE  LET s == RegisterAlpha(d, a) IN
           /\ s \in Database
           /\ s.positions = d.positions /\ s.traded = d.traded
           /\ s.full = d.full /\ s.opened = d.opened
           /\ s.unreduced = d.unreduced
           /\ s.signals = d.signals
BY DEF RegisterAlpha, Database

\* create_position: a fresh id, and either the duplicate guard let it pass.
LEMMA CreatePositionProperties ==
    ASSUME NEW d \in Database, NEW m \in Signals,
           NEW p \in PositionId, p \notin Open(d)
    PROVE  LET s == CreatePosition(d, m, p) IN
           /\ s \in Database
           /\ s.signals = d.signals
           /\ Sound(d) /\ ~DuplicateRejected(d, m) => Sound(s)
           /\ \A n : StopsKept(d, s, n)
<1> DEFINE s == CreatePosition(d, m, p)
           pos == [alpha |-> m.alpha, symbol |-> m.symbol, side |-> m.side,
                   qty |-> OpenQty(m), sl |-> Stored(m.sl), time |-> m.time,
                   dup |-> m.dup, version |-> m.runtime # "bad"]
<1>1. m \in Signal /\ None \notin Int /\ None \notin Position
    BY SignalWorkerAssumption
<1>2. OpenQty(m) \in Int /\ pos \in Position
    BY <1>1 DEF Signal, OpenQty, Stored, Position
<1>3. pos # None /\ pos.qty = OpenQty(m) /\ pos.alpha = m.alpha
      /\ pos.symbol = m.symbol /\ pos.dup = m.dup
    BY <1>1, <1>2
<1>4. d.positions[p] = None
    BY DEF Open
<1> HIDE DEF pos
<1>5. s = [d EXCEPT !.positions = [d.positions EXCEPT ![p] = pos],
                    !.opened = [d.opened EXCEPT ![p] = @ + OpenQty(m)]]
    BY DEF CreatePosition, pos
<1>6. /\ d.positions \in [PositionId -> Position \cup {None}]
      /\ d.opened \in [PositionId -> Int] /\ d.traded \in [PositionId -> Int]
      /\ d.unreduced \in [PositionId -> Int]
    BY DEF Database
<1>7. /\ s \in Database
      /\ s.signals = d.signals
      /\ s.traded = d.traded /\ s.unreduced = d.unreduced
      /\ s.positions = [d.positions EXCEPT ![p] = pos]
      /\ s.opened = [d.opened EXCEPT ![p] = @ + OpenQty(m)]
    <2> DEFINE ps == [d.positions EXCEPT ![p] = pos]
               os == [d.opened EXCEPT ![p] = @ + OpenQty(m)]
    <2>1. ps \in [PositionId -> Position \cup {None}]
          /\ os \in [PositionId -> Int]
        BY <1>2, <1>6
    <2>2. s = [d EXCEPT !.positions = ps, !.opened = os]
        BY <1>5
    <2> HIDE DEF ps, os, s
    <2>3. /\ s \in Database /\ s.signals = d.signals /\ s.traded = d.traded
          /\ s.unreduced = d.unreduced
          /\ s.positions = ps /\ s.opened = os
        BY <2>1, <2>2 DEF Database
    <2> QED
        BY <2>3 DEF ps, os
<1> HIDE DEF s
<1>8. ASSUME Sound(d), ~DuplicateRejected(d, m)
      PROVE  Sound(s)
    <2>1. Conserved(s)
        BY <1>2, <1>3, <1>4, <1>6, <1>7, <1>8 DEF Sound, Conserved, QtyOpen
    <2>2. ASSUME DUPLICATE_POSITION_POLICY = "reject",
                 NEW q \in Open(s), NEW r \in Open(s), q # r,
                 s.positions[q].alpha = s.positions[r].alpha,
                 s.positions[q].symbol = s.positions[r].symbol
          PROVE  s.positions[q].dup \/ s.positions[r].dup
        <3>1. \A x \in Open(s) \ {p} :
                 x \in Open(d) /\ s.positions[x] = d.positions[x]
            BY <1>6, <1>7 DEF Open
        <3>2. s.positions[p] = pos
            BY <1>6, <1>7
        <3>3. m.dup \/ \A x \in Open(d) : ~ /\ d.positions[x].alpha = m.alpha
                                            /\ d.positions[x].symbol = m.symbol
            BY <1>8, <2>2 DEF DuplicateRejected
        <3>4. CASE q = p
            BY <3>1, <3>2, <3>3, <3>4, <1>3, <2>2
        <3>5. CASE r = p
            BY <3>1, <3>2, <3>3, <3>5, <1>3, <2>2
        <3>6. CASE q # p /\ r # p
            BY <3>1, <3>6, <1>8, <2>2 DEF Sound, OnePerSymbol
        <3> QED
            BY <3>4, <3>5, <3>6
    <2> QED
        BY <2>1, <2>2 DEF Sound, OnePerSymbol
<1>9. \A n : StopsKept(d, s, n)
    <2>1. SUFFICES ASSUME NEW q \in Open(d), d.positions[q].sl # None
                   PROVE  /\ s.positions[q] = d.positions[q]
                          /\ d.positions[q].sl \in Int
        BY SignalWorkerAssumption DEF StopsKept, StopMoved
    <2>2. d.positions[q] \in Position
        BY <1>6 DEF Open
    <2> QED
        BY <1>6, <1>7, <1>4, <2>1, <2>2 DEF Open, Position
<1> QED
    BY <1>7, <1>8, <1>9 DEF s

\* modify_position moves the stop of an open position, after process_modify
\* refused a level against the position.
LEMMA ModifyPositionProperties ==
    ASSUME NEW d \in Database, NEW p \in Open(d), NEW m \in Signals
    PROVE  LET s == ModifyPosition(d, p, m) IN
           /\ s \in Database
           /\ s.signals = d.signals
           /\ Sound(d) => Sound(s)
           /\ ~StopMovesAgainst(d.positions[p], m.sl) /\ m.type = "MODIFY"
                 => StopsKept(d, s, m)
<1> DEFINE s == ModifyPosition(d, p, m)
           sl == IF m.sl = None THEN d.positions[p].sl ELSE Stored(m.sl)
           pos == Modified(d.positions[p], m)
           ps == [d.positions EXCEPT ![p] = pos]
<1>1. /\ None \notin Int /\ None \notin Position /\ NaN \notin Int \cup {None}
      /\ m \in Signal
    BY SignalWorkerAssumption
<1>2. /\ d.positions \in [PositionId -> Position \cup {None}]
      /\ p \in PositionId
      /\ d.positions[p] \in Position
    BY DEF Database, Open
<1>3. /\ sl \in Int \cup {None}
      /\ sl = None => m.sl = NaN \/ d.positions[p].sl = None
      /\ sl # None => sl = m.sl \/ sl = d.positions[p].sl
    BY <1>1, <1>2 DEF Position, Signal, Stored
<1>4. MergedVersion(d.positions[p], m) \in BOOLEAN
    BY <1>2 DEF MergedVersion, Position
<1>5. s = [d EXCEPT !.positions = ps]
    BY DEF ModifyPosition
<1> HIDE DEF sl, s
<1>6. /\ pos \in Position
      /\ pos.sl = sl
      /\ pos.side = d.positions[p].side
      /\ pos.qty = d.positions[p].qty
      /\ pos.alpha = d.positions[p].alpha
      /\ pos.symbol = d.positions[p].symbol
      /\ pos.dup = d.positions[p].dup
    BY <1>2, <1>3, <1>4 DEF Position, Modified, sl
<1> HIDE DEF pos
<1>7. ps \in [PositionId -> Position \cup {None}]
    BY <1>2, <1>6
<1>8. \A q \in PositionId : ps[q] = IF q = p THEN pos ELSE d.positions[q]
    BY <1>2
<1> HIDE DEF ps
<1>9. /\ s \in Database /\ s.signals = d.signals
      /\ s.traded = d.traded /\ s.opened = d.opened
      /\ s.unreduced = d.unreduced
      /\ s.positions = ps
    BY <1>5, <1>7 DEF Database
<1>10. Open(s) = Open(d) /\ pos # None
    BY <1>1, <1>2, <1>6, <1>8, <1>9 DEF Open
<1>11. Sound(d) => Conserved(s)
    BY <1>2, <1>6, <1>8, <1>9, <1>10, <1>1 DEF Sound, Conserved, QtyOpen
<1>12. OnePerSymbol(d) => OnePerSymbol(s)
    BY <1>6, <1>8, <1>9, <1>10 DEF OnePerSymbol, Open
<1>13. ASSUME ~StopMovesAgainst(d.positions[p], m.sl), m.type = "MODIFY",
              NEW q \in Open(d), d.positions[q].sl # None
       PROVE  StopMoved(d.positions[q], s.positions[q], m)
    <2>1. /\ q \in PositionId
          /\ d.positions[q].sl \in Int
          /\ d.positions[q].side \in {"LONG", "SHORT"}
        BY <1>2, <1>13 DEF Open, Position, Side
    <2>2. CASE q # p
        BY <1>1, <1>8, <1>9, <2>1, <2>2 DEF StopMoved
    <2>3. CASE q = p /\ sl = None
        BY <1>3, <1>6, <1>8, <1>9, <1>13, <2>1, <2>3 DEF StopMoved
    <2>4. CASE q = p /\ sl # None
        <3>1. sl \in Int /\ (sl = m.sl \/ sl = d.positions[p].sl)
            BY <1>3, <2>4
        <3>2. IF d.positions[p].side = "LONG" THEN sl >= d.positions[p].sl
                                             ELSE sl <= d.positions[p].sl
            BY <1>1, <1>13, <2>1, <2>4, <3>1 DEF StopMovesAgainst
        <3> QED
            BY <1>1, <1>6, <1>8, <1>9, <2>1, <2>4, <3>1, <3>2 DEF StopMoved
    <2> QED
        BY <2>2, <2>3, <2>4
<1> QED
    BY <1>9, <1>11, <1>12, <1>13 DEF s, Sound, StopsKept

\* The position left of a partial close.
LEMMA ReducedProperties ==
    ASSUME NEW pos \in Position, NEW q \in Int, NEW m
    PROVE  LET r == Reduced(pos, q, m) IN
           /\ r \in Position /\ r # None
           /\ r.qty = pos.qty - q /\ r.sl = pos.sl /\ r.alpha = pos.alpha
           /\ r.symbol = pos.symbol /\ r.dup = pos.dup
<1> DEFINE v == MergedVersion(pos, m)
           r == Reduced(pos, q, m)
<1>1. v \in BOOLEAN
    BY DEF MergedVersion, Position
<1>2. r = [pos EXCEPT !.qty = pos.qty - q, !.version = v]
    BY DEF Reduced
<1> HIDE DEF v, r
<1>3. pos.qty - q \in Int
    BY DEF Position
<1>4. r \in Position
    BY <1>1, <1>2, <1>3 DEF Position
<1>5. /\ r.qty = pos.qty - q /\ r.sl = pos.sl /\ r.alpha = pos.alpha
      /\ r.symbol = pos.symbol /\ r.dup = pos.dup
    BY <1>2 DEF Position
<1> QED
    BY <1>4, <1>5, SignalWorkerAssumption DEF r

\* close_position moves a quantity from positions to trades.
LEMMA ClosePositionProperties ==
    ASSUME NEW d \in Database, NEW p \in Open(d), NEW q \in Int, NEW m
    PROVE  LET s == ClosePosition(d, p, q, m) IN
           /\ s \in Database
           /\ s.signals = d.signals
           /\ Sound(d) => Sound(s)
           /\ \A n : StopsKept(d, s, n)
<1> DEFINE s == ClosePosition(d, p, q, m)
           rest == IF q = d.positions[p].qty THEN None
                   ELSE Reduced(d.positions[p], q, m)
           ps == [d.positions EXCEPT ![p] = rest]
           ts == [d.traded EXCEPT ![p] = @ + q]
<1>1. None \notin Int /\ None \notin Position
    BY SignalWorkerAssumption
<1>2. /\ d.positions \in [PositionId -> Position \cup {None}]
      /\ d.traded \in [PositionId -> Int]
      /\ d.opened \in [PositionId -> Int]
      /\ d.unreduced \in [PositionId -> Int]
      /\ p \in PositionId
      /\ d.positions[p] \in Position
      /\ d.positions[p] # None
    BY DEF Database, Open
<1>3. /\ rest \in Position \cup {None}
      /\ q = d.positions[p].qty => rest = None
      /\ q # d.positions[p].qty =>
            /\ rest # None
            /\ rest.qty = d.positions[p].qty - q
            /\ rest.sl = d.positions[p].sl
            /\ rest.alpha = d.positions[p].alpha
            /\ rest.symbol = d.positions[p].symbol
            /\ rest.dup = d.positions[p].dup
    BY <1>1, <1>2, ReducedProperties
<1>4. PICK fs \in SUBSET PositionId :
          s = [d EXCEPT !.traded = ts, !.full = fs, !.positions = ps]
    <2>1. CASE q = d.positions[p].qty
        <3>1. s = [d EXCEPT !.traded = ts, !.full = d.full \cup {p}, !.positions = ps]
            BY <2>1 DEF ClosePosition
        <3>2. d.full \cup {p} \in SUBSET PositionId
            BY <1>2 DEF Database
        <3> QED
            BY <3>1, <3>2
    <2>2. CASE q # d.positions[p].qty
        <3>1. s = [d EXCEPT !.traded = ts, !.positions = ps]
            BY <2>2 DEF ClosePosition
        <3>2. [d EXCEPT !.traded = ts, !.positions = ps]
              = [d EXCEPT !.traded = ts, !.full = d.full, !.positions = ps]
            BY DEF Database
        <3>3. d.full \in SUBSET PositionId
            BY DEF Database
        <3> QED
            BY <3>1, <3>2, <3>3
    <2> QED
        BY <2>1, <2>2
<1> HIDE DEF s, rest
<1>5. ps \in [PositionId -> Position \cup {None}] /\ ts \in [PositionId -> Int]
    BY <1>2, <1>3 DEF Position
<1>6. /\ \A x \in PositionId : ps[x] = IF x = p THEN rest ELSE d.positions[x]
      /\ \A x \in PositionId :
            ts[x] = IF x = p THEN d.traded[p] + q ELSE d.traded[x]
    BY <1>2
<1> HIDE DEF ps, ts
<1>7. /\ s \in Database /\ s.signals = d.signals /\ s.opened = d.opened
      /\ s.unreduced = d.unreduced
      /\ s.positions = ps /\ s.traded = ts
    BY <1>4, <1>5 DEF Database
<1>8. Open(s) \subseteq Open(d)
    BY <1>2, <1>6, <1>7 DEF Open
<1>9. Conserved(d) => Conserved(s)
    <2>1. SUFFICES ASSUME NEW x \in PositionId,
                          d.opened[x] + d.unreduced[x]
                             = d.traded[x] + QtyOpen(d, x)
                   PROVE  s.opened[x] + s.unreduced[x]
                             = s.traded[x] + QtyOpen(s, x)
        BY DEF Conserved
    <2>2. CASE x # p
        BY <1>6, <1>7, <2>1, <2>2 DEF QtyOpen
    <2>3. CASE x = p
        <3>1. d.traded[p] \in Int /\ d.positions[p].qty \in Int
            BY <1>2 DEF Position
        <3> QED
            BY <3>1, <1>2, <1>3, <1>6, <1>7, <2>1, <2>3 DEF QtyOpen
    <2> QED
        BY <2>2, <2>3
<1>10. OnePerSymbol(d) => OnePerSymbol(s)
    <2>1. \A x \in Open(s) :
             /\ x \in Open(d)
             /\ s.positions[x].alpha = d.positions[x].alpha
             /\ s.positions[x].symbol = d.positions[x].symbol
             /\ s.positions[x].dup = d.positions[x].dup
        BY <1>3, <1>6, <1>7, <1>8 DEF Open
    <2> QED
        BY <2>1 DEF OnePerSymbol
<1>11. \A n : StopsKept(d, s, n)
    <2>1. \A x \in Open(d) :
             s.positions[x] # None => s.positions[x].sl = d.positions[x].sl
        BY <1>3, <1>6, <1>7 DEF Open
    <2>2. \A x \in Open(d) : d.positions[x].sl # None => d.positions[x].sl \in Int
        BY <1>2 DEF Open, Position
    <2> QED
        BY <2>1, <2>2, SignalWorkerAssumption DEF StopsKept, StopMoved
<1> QED
    BY <1>7, <1>9, <1>10, <1>11 DEF s, Sound

\* close_position that raises after its INSERT: one more trade, and the position
\* as it was.
LEMMA TradeOnlyProperties ==
    ASSUME NEW d \in Database, NEW p \in PositionId, NEW q \in Int
    PROVE  LET s == TradeOnly(d, p, q) IN
           /\ s \in Database
           /\ s.signals = d.signals /\ s.positions = d.positions
           /\ s.full = d.full /\ s.opened = d.opened
           /\ s.traded = [d.traded EXCEPT ![p] = @ + q]
           /\ Sound(d) => Sound(s)
<1> DEFINE s == TradeOnly(d, p, q)
           ts == [d.traded EXCEPT ![p] = @ + q]
           us == [d.unreduced EXCEPT ![p] = @ + q]
<1>1. /\ d.traded \in [PositionId -> Int]
      /\ d.unreduced \in [PositionId -> Int]
      /\ d.opened \in [PositionId -> Int]
      /\ d.positions \in [PositionId -> Position \cup {None}]
    BY DEF Database
<1>2. ts \in [PositionId -> Int] /\ us \in [PositionId -> Int]
    BY <1>1
<1>3. s = [d EXCEPT !.traded = ts, !.unreduced = us]
    BY DEF TradeOnly
<1> HIDE DEF s, ts, us
<1>4. /\ s \in Database
      /\ s.signals = d.signals /\ s.positions = d.positions
      /\ s.full = d.full /\ s.opened = d.opened
      /\ s.traded = ts /\ s.unreduced = us
    BY <1>2, <1>3 DEF Database
<1>5. Conserved(d) => Conserved(s)
    <2>1. \A x \in PositionId :
             /\ QtyOpen(s, x) = QtyOpen(d, x)
             /\ QtyOpen(d, x) \in Int
        BY <1>1, <1>4 DEF QtyOpen, Position
    <2>2. \A x \in PositionId :
             /\ ts[x] = IF x = p THEN d.traded[x] + q ELSE d.traded[x]
             /\ us[x] = IF x = p THEN d.unreduced[x] + q ELSE d.unreduced[x]
        BY <1>1 DEF ts, us
    <2>3. \A x \in PositionId :
             /\ d.traded[x] \in Int /\ d.unreduced[x] \in Int
             /\ d.opened[x] \in Int
        BY <1>1
    <2>4. ASSUME Conserved(d), NEW x \in PositionId
          PROVE  s.opened[x] + s.unreduced[x] = s.traded[x] + QtyOpen(s, x)
        <3>1. d.opened[x] + d.unreduced[x] = d.traded[x] + QtyOpen(d, x)
            BY <2>4 DEF Conserved
        <3>2. /\ s.opened[x] = d.opened[x] /\ QtyOpen(s, x) = QtyOpen(d, x)
              /\ s.traded[x] = ts[x] /\ s.unreduced[x] = us[x]
            BY <1>4, <2>1, <2>4
        <3>3. CASE x = p
            BY <2>1, <2>2, <2>3, <2>4, <3>1, <3>2, <3>3
        <3>4. CASE x # p
            BY <2>2, <2>4, <3>1, <3>2, <3>4
        <3> QED
            BY <3>3, <3>4
    <2> QED
        BY <2>4 DEF Conserved
<1>6. OnePerSymbol(d) => OnePerSymbol(s)
    BY <1>4 DEF OnePerSymbol, Open
<1> QED
    BY <1>4, <1>5, <1>6 DEF s, ts, Sound

-----------------------------------------------------------------------------
(***************************************************************************)
(* 2. Type correctness.                                                    *)
(***************************************************************************)

\* A message the consumer works on is one of the published ones.
LEMMA CurrentType ==
    ASSUME TypeOK, cursor <= delivered
    PROVE  Current \in Signals
<1>1. stream \in Seq(Signals) /\ cursor \in 1..Len(stream)
    BY LenProperties DEF TypeOK
<1> QED
    BY <1>1, ElementOfSeq DEF Current

LEMMA IncType ==
    ASSUME TypeOK, NEW c \in Counter
    PROVE  Inc(c) \in [Counter -> Nat]
BY DEF TypeOK, Inc

\* What the checks of process_close say of a close that breaks off: it is the
\* close of a part, and brings a strategy_runtime along.
TradePart(d, m) ==
    /\ m.type = "CLOSE" /\ m.runtime # "none"
    /\ m.position_id \in Open(d)
    /\ m.qty # None /\ 0 < m.qty /\ m.qty < d.positions[m.position_id].qty

LEMMA ClosingAPart ==
    ASSUME NEW d \in Database, NEW m \in Signals, m.type = "CLOSE",
           CanClose(d, m), BreaksOff(d.positions[m.position_id], m)
    PROVE  TradePart(d, m)
<1> DEFINE pos == d.positions[m.position_id]
<1>1. m \in Signal /\ m.position_id \in Open(d)
    BY SignalWorkerAssumption DEF CanClose
<1>2. pos \in Position
    BY <1>1 DEF Open, Database
<1>3. m.qty # None /\ m.qty \in Int /\ pos.qty \in Int
    BY <1>1, <1>2 DEF BreaksOff, CloseQty, Signal, Position
<1>4. m.runtime # "none"
    BY DEF BreaksOff, MergeRaises
<1> QED
    BY <1>1, <1>3, <1>4 DEF CanClose, BreaksOff, CloseQty, TradePart

\* What one settlement amounts to, whichever handler ran: a database value d
\* the handler left behind, in which the signal is then recorded.
Settlement(d, failed) ==
    /\ d \in Database
    /\ d.signals = tx.signals
    /\ Sound(tx) => Sound(d)
    /\ StopsKept(tx, d, Current)
    /\ failed => /\ d.positions = tx.positions
                 /\ d.traded = tx.traded \/ TradeLeft(tx, d, Current)
                 /\ d.full = tx.full
    /\ tx' = Settled(d, Current, failed)

\* Every handler, with everything it may do or refuse, is one Settlement.
LEMMA ExecuteSettles ==
    ASSUME TypeOK, Execute
    PROVE  /\ pc = "execute" /\ pc' = "commit"
           /\ metrics' \in [Counter -> Nat]
           /\ UNCHANGED <<stream, delivered, pel, cursor, db, crashes>>
           /\ \E d \in Database, failed \in BOOLEAN : Settlement(d, failed)
<1>1. pc = "execute"
    BY DEF Execute, LogParseError, ProcessOpen, ProcessModify, ProcessClose,
           ProcessRegisterColumns
<1>2. tx \in Database /\ cursor <= delivered
    BY <1>1 DEF TypeOK
<1>3. Current \in Signals /\ Current \in Signal
    BY <1>2, CurrentType, SignalWorkerAssumption
<1>4. \A n : StopsKept(tx, tx, n)
    BY <1>2, SignalWorkerAssumption
    DEF StopsKept, StopMoved, Open, Database, Position
<1>5. None \notin PositionId
    BY SignalWorkerAssumption
<1>6. ASSUME NEW d, NEW failed \in BOOLEAN, Settle(d, failed)
      PROVE  /\ pc' = "commit"
             /\ metrics' \in [Counter -> Nat]
             /\ UNCHANGED <<stream, delivered, pel, cursor, db, crashes>>
             /\ tx' = Settled(d, Current, failed)
    <2>1. metrics' \in [Counter -> Nat]
        BY <1>6, IncType DEF Settle, Counter
    <2> QED
        BY <1>6, <2>1 DEF Settle
<1>7. CASE LogParseError
    <2>1. metrics' \in [Counter -> Nat]
        BY <1>7 DEF LogParseError, TypeOK
    <2>2. Settlement(tx, TRUE)
        BY <1>2, <1>4, <1>7 DEF LogParseError, Settlement
    <2> QED
        BY <1>2, <1>7, <2>1, <2>2 DEF LogParseError
<1>8. CASE ProcessOpen
    <2> DEFINE d == RegisterAlpha(tx, Current.alpha)
    <2>1. /\ d \in Database
          /\ d.positions = tx.positions /\ d.traded = tx.traded
          /\ d.full = tx.full /\ d.opened = tx.opened
          /\ d.unreduced = tx.unreduced
          /\ d.signals = tx.signals
        BY <1>2, <1>3, RegisterAlphaProperties DEF Signal
    <2>2. Sound(tx) => Sound(d)
        BY <1>2, <2>1, SoundFrame
    <2>3. \A e \in Database : \A n : StopsKept(d, e, n) => StopsKept(tx, e, n)
        BY <2>1 DEF StopsKept, Open
    <2>4. ASSUME ~DuplicateRejected(d, Current),
                 NEW p \in OpenIds(d, Current) \ Open(d),
                 Settle(CreatePosition(d, Current, p), FALSE)
          PROVE  Settlement(CreatePosition(d, Current, p), FALSE)
        <3>1. p \in PositionId /\ p \notin Open(d)
            BY <1>3, <2>4, SignalWorkerAssumption DEF OpenIds, Signal
        <3> HIDE DEF d
        <3>2. /\ CreatePosition(d, Current, p) \in Database
              /\ CreatePosition(d, Current, p).signals = d.signals
              /\ Sound(d) /\ ~DuplicateRejected(d, Current)
                    => Sound(CreatePosition(d, Current, p))
              /\ StopsKept(d, CreatePosition(d, Current, p), Current)
            BY <1>3, <2>1, <3>1, CreatePositionProperties
        <3> QED
            BY <1>6, <2>1, <2>2, <2>3, <2>4, <3>2 DEF Settlement
    <2>5. ASSUME Settle(d, TRUE)
          PROVE  Settlement(d, TRUE)
        BY <1>4, <1>6, <2>1, <2>2, <2>5 DEF Settlement, StopsKept, Open
    <2>6. \/ \E p \in OpenIds(d, Current) \ Open(d) :
                /\ ~DuplicateRejected(d, Current)
                /\ Settle(CreatePosition(d, Current, p), FALSE)
          \/ Settle(d, TRUE)
        BY <1>8 DEF ProcessOpen
    <2> HIDE DEF d
    <2>7. \E e \in Database, failed \in BOOLEAN :
             Settle(e, failed) /\ Settlement(e, failed)
        BY <2>1, <2>4, <2>5, <2>6 DEF Settlement
    <2> QED
        BY <1>1, <1>6, <2>7
<1>9. CASE ProcessModify
    <2> DEFINE p == Current.position_id
               d == ModifyPosition(tx, p, Current)
    <2>1. ASSUME p \in Open(tx), ~StopMovesAgainst(tx.positions[p], Current.sl),
                 Settle(d, FALSE)
          PROVE  Settlement(d, FALSE)
        <3>1. Current.type = "MODIFY"
            BY <1>9 DEF ProcessModify
        <3>2. /\ d \in Database
              /\ d.signals = tx.signals
              /\ Sound(tx) => Sound(d)
              /\ StopsKept(tx, d, Current)
            BY <1>2, <1>3, <2>1, <3>1, ModifyPositionProperties
        <3> QED
            BY <1>6, <2>1, <3>2 DEF Settlement
    <2>2. ASSUME Settle(tx, TRUE)
          PROVE  Settlement(tx, TRUE)
        BY <1>2, <1>4, <1>6, <2>2 DEF Settlement
    <2>3. \/ /\ p \in Open(tx)
             /\ ~StopMovesAgainst(tx.positions[p], Current.sl)
             /\ Settle(d, FALSE)
          \/ Settle(tx, TRUE)
        BY <1>9 DEF ProcessModify
    <2> HIDE DEF p, d
    <2>4. \E e \in Database, failed \in BOOLEAN :
             Settle(e, failed) /\ Settlement(e, failed)
        BY <1>2, <2>1, <2>2, <2>3 DEF Settlement
    <2> QED
        BY <1>1, <1>6, <2>4
<1>10. CASE ProcessClose
    <2> DEFINE p == Current.position_id
               q == CloseQty(tx.positions[p], Current)
               d == ClosePosition(tx, p, q, Current)
               t == TradeOnly(tx, p, q)
    <2>1. ASSUME CanClose(tx, Current)
          PROVE  /\ p \in Open(tx) /\ p \in PositionId
                 /\ q \in Int
        <3>1. p \in Open(tx) /\ p \in PositionId
            BY <2>1 DEF CanClose, Open
        <3>2. tx.positions[p] \in Position
            BY <1>2, <3>1 DEF Open, Database
        <3> QED
            BY <1>3, <3>1, <3>2 DEF CloseQty, Signal, Position
    <2>2. ASSUME CanClose(tx, Current), Settle(d, FALSE)
          PROVE  Settlement(d, FALSE)
        <3>1. p \in Open(tx) /\ q \in Int
            BY <2>1, <2>2
        <3> HIDE DEF p, q
        <3>2. /\ d \in Database
              /\ d.signals = tx.signals
              /\ Sound(tx) => Sound(d)
              /\ StopsKept(tx, d, Current)
            BY <1>2, <3>1, ClosePositionProperties
        <3> QED
            BY <1>6, <2>2, <3>2 DEF Settlement
    <2>3. ASSUME CanClose(tx, Current), BreaksOff(tx.positions[p], Current),
                 Settle(t, TRUE)
          PROVE  Settlement(t, TRUE)
        <3>1. p \in Open(tx) /\ p \in PositionId /\ q \in Int
            BY <2>1, <2>3
        <3>2. TradePart(tx, Current)
            BY <1>2, <1>3, <1>10, <2>3, ClosingAPart DEF ProcessClose
        <3> HIDE DEF p, q
        <3>3. /\ t \in Database
              /\ t.signals = tx.signals /\ t.positions = tx.positions
              /\ t.full = tx.full
              /\ t.traded = [tx.traded EXCEPT ![p] = @ + q]
              /\ Sound(tx) => Sound(t)
            BY <1>2, <3>1, TradeOnlyProperties
        <3>4. StopsKept(tx, t, Current)
            BY <1>4, <3>3 DEF StopsKept, Open
        <3>5. TradeLeft(tx, t, Current)
            BY <3>1, <3>2, <3>3 DEF TradePart, TradeLeft, p, q, CloseQty
        <3> HIDE DEF t
        <3> QED
            BY <1>6, <2>3, <3>3, <3>4, <3>5 DEF Settlement
    <2>4. ASSUME Settle(tx, TRUE)
          PROVE  Settlement(tx, TRUE)
        BY <1>2, <1>4, <1>6, <2>4 DEF Settlement
    <2>5. \/ CanClose(tx, Current) /\ Settle(d, FALSE)
          \/ /\ CanClose(tx, Current) /\ BreaksOff(tx.positions[p], Current)
             /\ Settle(t, TRUE)
          \/ Settle(tx, TRUE)
        BY <1>10 DEF ProcessClose
    <2> HIDE DEF p, q, d, t
    <2>6. \E e \in Database, failed \in BOOLEAN :
             Settle(e, failed) /\ Settlement(e, failed)
        BY <1>2, <2>2, <2>3, <2>4, <2>5 DEF Settlement
    <2> QED
        BY <1>1, <1>6, <2>6
<1>11. CASE ProcessRegisterColumns
    <2> DEFINE r == RegisterAlpha(tx, Current.alpha)
               d == [r EXCEPT !.columns[Current.alpha] = Current.cols]
    <2>1. /\ r \in Database
          /\ r.positions = tx.positions /\ r.traded = tx.traded
          /\ r.full = tx.full /\ r.opened = tx.opened
          /\ r.unreduced = tx.unreduced
          /\ r.signals = tx.signals
        BY <1>2, <1>3, RegisterAlphaProperties DEF Signal
    <2>2. /\ d \in Database
          /\ d.positions = tx.positions /\ d.traded = tx.traded
          /\ d.full = tx.full /\ d.opened = tx.opened
          /\ d.unreduced = tx.unreduced
          /\ d.signals = tx.signals
        <3> HIDE DEF r
        <3>1. Current.alpha \in Alpha /\ Current.cols \in SUBSET ColumnKey
            BY <1>3 DEF Signal
        <3> QED
            BY <2>1, <3>1 DEF Database
    <2>3. /\ Sound(tx) => Sound(d)
          /\ StopsKept(tx, d, Current)
        <3> HIDE DEF d
        <3> QED
            BY <1>2, <1>4, <2>2, SoundFrame DEF StopsKept, Open
    <2>4. ASSUME NEW failed \in BOOLEAN, Settle(d, failed)
          PROVE  Settlement(d, failed)
        <3> HIDE DEF d
        <3> QED
            BY <1>6, <2>2, <2>3, <2>4 DEF Settlement
    <2>5. ASSUME Settle(tx, TRUE)
          PROVE  Settlement(tx, TRUE)
        BY <1>2, <1>4, <1>6, <2>5 DEF Settlement
    <2>6. \/ Settle(d, Current.payload = "row")
          \/ Settle(tx, TRUE)
        BY <1>11 DEF ProcessRegisterColumns
    <2> HIDE DEF d, r
    <2>7. \E e \in Database, failed \in BOOLEAN :
             Settle(e, failed) /\ Settlement(e, failed)
        BY <1>2, <2>2, <2>4, <2>5, <2>6
    <2> QED
        BY <1>1, <1>6, <2>7
<1> QED
    BY <1>7, <1>8, <1>9, <1>10, <1>11 DEF Execute

LEMMA InitType == Init => TypeOK
<1> SUFFICES ASSUME Init
             PROVE  TypeOK
    OBVIOUS
<1>1. EmptyDatabase \in Database
    BY EmptySeq DEF EmptyDatabase, Database
<1>2. MaxCrashes \in Nat /\ Zero \in [Counter -> Nat]
    BY SignalWorkerAssumption DEF Zero
<1>3. stream \in Seq(Signals) /\ Len(stream) = 0
    BY EmptySeq DEF Init
<1> QED
    BY <1>1, <1>2, <1>3 DEF Init, TypeOK

LEMMA NextType ==
    ASSUME TypeOK, [Next]_vars
    PROVE  TypeOK'
<1>1. /\ stream \in Seq(Signals) /\ Len(stream) \in Nat
      /\ delivered \in 0..Len(stream) /\ pel \subseteq 1..delivered
      /\ cursor \in 1..delivered + 1
      /\ pc \in {"down", "idle", "begin", "execute", "commit", "ack"}
      /\ pc \in {"begin", "execute", "commit", "ack"} => cursor <= delivered
      /\ db \in Database
      /\ tx \in Database \cup {None}
      /\ (pc \in {"execute", "commit"}) <=> (tx # None)
      /\ metrics \in [Counter -> Nat]
      /\ crashes \in 0..MaxCrashes
    BY LenProperties DEF TypeOK
<1>2. None \notin Database /\ REDIS_READ_COUNT \in Nat \ {0}
    BY SignalWorkerAssumption
<1>3. \A c \in Counter : Inc(c) \in [Counter -> Nat]
    BY IncType
<1>4. LeavePending => metrics' \in [Counter -> Nat] /\ pc' = "idle" /\ tx' = None
    BY <1>3 DEF LeavePending, Counter
<1>5. CASE UNCHANGED vars
    BY <1>1, <1>5 DEF TypeOK, vars
<1>6. CASE Publish
    <2>1. PICK m \in Signals : stream' = Append(stream, m)
        BY <1>6 DEF Publish
    <2>2. stream' \in Seq(Signals) /\ Len(stream') = Len(stream) + 1
        BY <1>1, <2>1
    <2> QED
        BY <1>1, <1>6, <2>2 DEF Publish, TypeOK
<1>7. CASE Deliver
    <2>1. delivered' \in delivered..Len(stream)
        BY <1>1, <1>2, <1>7 DEF Deliver
    <2>2. pel' \subseteq 1..delivered'
        <3>1. pel' = pel \cup ((delivered + 1)..delivered')
            BY <1>7 DEF Deliver
        <3>2. delivered \in Nat /\ delivered' \in Nat /\ delivered <= delivered'
            BY <1>1, <2>1
        <3> QED
            BY <1>1, <3>1, <3>2
    <2> QED
        BY <1>1, <1>7, <2>1, <2>2 DEF Deliver, TypeOK
<1>8. CASE SkipDuplicate
    <2>1. metrics' \in [Counter -> Nat]
        <3>1. Inc("received") \in [Counter -> Nat]
            BY <1>3 DEF Counter
        <3> QED
            BY <1>8, <3>1 DEF SkipDuplicate, Counter
    <2> QED
        BY <1>1, <1>8, <2>1 DEF SkipDuplicate, TypeOK
<1>9. CASE Accept
    <2>1. metrics' \in [Counter -> Nat]
        <3>1. Inc("received") \in [Counter -> Nat]
            BY <1>3 DEF Counter
        <3> QED
            BY <1>9, <3>1 DEF Accept, Counter
    <2> QED
        BY <1>1, <1>9, <2>1 DEF Accept, TypeOK
<1>10. CASE Begin
    BY <1>1, <1>2, <1>10 DEF Begin, TypeOK
<1>11. CASE Execute
    <2>1. PICK d \in Database, failed \in BOOLEAN : Settlement(d, failed)
        BY <1>11, ExecuteSettles
    <2>2. cursor <= delivered /\ pc = "execute" /\ pc' = "commit"
        BY <1>1, <1>11, ExecuteSettles
    <2>3. tx' \in Database
        BY <2>1, <2>2, CurrentType, SettledProperties DEF Settlement
    <2> QED
        BY <1>1, <1>2, <1>11, <2>2, <2>3, ExecuteSettles DEF TypeOK
<1>12. CASE Commit
    BY <1>1, <1>12 DEF Commit, TypeOK
<1>13. CASE Ack
    <2>1. metrics' \in [Counter -> Nat]
        BY <1>3, <1>13 DEF Ack, Counter
    <2> QED
        BY <1>1, <1>13, <2>1 DEF Ack, TypeOK
<1>14. CASE BeginFails
    BY <1>1, <1>4, <1>14 DEF BeginFails, LeavePending, TypeOK
<1>15. CASE CommitFails
    BY <1>1, <1>4, <1>15 DEF CommitFails, LeavePending, TypeOK
<1>16. CASE AckFails
    BY <1>1, <1>4, <1>16 DEF AckFails, LeavePending, TypeOK
<1>17. CASE Crash
    <2>1. metrics' \in [Counter -> Nat]
        BY <1>17 DEF Crash, Zero
    <2>2. crashes' \in 0..MaxCrashes
        BY <1>1, <1>17, SignalWorkerAssumption DEF Crash
    <2> QED
        BY <1>1, <1>17, <2>1, <2>2 DEF Crash, TypeOK
<1>18. CASE Restart
    <2>1. PICK n \in 0..Len(db.signals) :
             db' = [db EXCEPT !.alphas = @ \cup RegisteredAlphas,
                              !.signals = SubSeq(@, n + 1, Len(@))]
        BY <1>18 DEF Restart
    <2>2. db.signals \in Seq(Row) /\ Len(db.signals) \in Nat
        BY <1>1, LenProperties DEF Database
    <2>3. SubSeq(db.signals, n + 1, Len(db.signals)) \in Seq(Row)
        <3>1. \A i \in n + 1..Len(db.signals) : db.signals[i] \in Row
            BY <2>2, ElementOfSeq
        <3> QED
            BY <2>2, <3>1, SubSeqProperties
    <2>4. db' \in Database
        BY <1>1, <2>1, <2>3, SignalWorkerAssumption DEF Database
    <2> QED
        BY <1>1, <1>18, <2>4 DEF Restart, TypeOK
<1> QED
    BY <1>5, <1>6, <1>7, <1>8, <1>9, <1>10, <1>11, <1>12, <1>13, <1>14, <1>15,
       <1>16, <1>17, <1>18 DEF Next, Consume, Fault

\* Every variable keeps its type, the transaction is open exactly while a
\* handler runs, and the consumer works on a delivered message.
THEOREM TypeCorrect == Spec => []TypeOK
<1>1. Init => TypeOK
    BY InitType
<1>2. TypeOK /\ [Next]_vars => TypeOK'
    BY NextType
<1> QED
    BY <1>1, <1>2, PTL DEF Spec

-----------------------------------------------------------------------------
(***************************************************************************)
(* 3. The book: positions and trades.                                      *)
(*                                                                         *)
(* The properties speak of committed contents; what a COMMIT will publish  *)
(* is in tx, so the invariant says of tx, at each place of the consumer,   *)
(* what the commit needs.                                                  *)
(***************************************************************************)
BookInv ==
    /\ Sound(db)
    /\ pc = "execute" => tx = db
    /\ pc = "commit" => /\ Sound(tx)
                        /\ StopsKept(db, tx, Newest(tx).payload)
                        /\ ErrorKeepsBook(db, tx)

\* The promises about one change of the committed contents.
BookStep ==
    /\ StopsKept(db, db', Newest(db').payload)
    /\ ErrorKeepsBook(db, db')

LEMMA InitBook == Init => BookInv
<1> SUFFICES ASSUME Init
             PROVE  BookInv
    OBVIOUS
<1>1. \A p \in PositionId : db.positions[p] = None
                            /\ db.opened[p] = 0 /\ db.traded[p] = 0
                            /\ db.unreduced[p] = 0
    BY DEF Init, EmptyDatabase
<1>2. Conserved(db)
    BY <1>1 DEF Conserved, QtyOpen
<1>3. OnePerSymbol(db)
    BY <1>1 DEF OnePerSymbol, Open
<1> QED
    BY <1>2, <1>3 DEF Init, BookInv, Sound

\* The commit publishes what the transaction holds, a restart only prunes the
\* signals table, and nothing else writes to the database.
LEMMA NextBook ==
    ASSUME TypeOK, BookInv, [Next]_vars
    PROVE  BookInv' /\ [BookStep]_db
<1>1. db \in Database
    BY DEF TypeOK
<1>2. CASE Begin
    BY <1>2 DEF Begin, BookInv
<1>3. CASE Execute
    <2>1. /\ pc = "execute" /\ pc' = "commit" /\ db' = db
          /\ tx = db
        BY <1>3, ExecuteSettles DEF BookInv
    <2>2. PICK d \in Database, failed \in BOOLEAN : Settlement(d, failed)
        BY <1>3, ExecuteSettles
    <2>3. Current \in Signals
        BY <2>1, CurrentType DEF TypeOK
    <2>4. LET s == Settled(d, Current, failed) IN
          /\ s \in Database
          /\ s.positions = d.positions /\ s.traded = d.traded
          /\ s.full = d.full /\ s.opened = d.opened
          /\ s.unreduced = d.unreduced
          /\ Newest(s).error = failed /\ Newest(s).payload = Current
        BY <2>2, <2>3, SettledProperties DEF Newest
    <2>5. /\ tx' \in Database
          /\ tx'.positions = d.positions /\ tx'.traded = d.traded
          /\ tx'.full = d.full /\ tx'.opened = d.opened
          /\ tx'.unreduced = d.unreduced
          /\ Newest(tx').error = failed /\ Newest(tx').payload = Current
        BY <2>2, <2>4 DEF Settlement
    <2>6. Sound(tx')
        BY <2>1, <2>2, <2>5, SoundFrame DEF Settlement, BookInv
    <2>7. StopsKept(db, tx', Newest(tx').payload)
        BY <2>1, <2>2, <2>5 DEF Settlement, StopsKept
    <2>8. ErrorKeepsBook(db, tx')
        BY <2>1, <2>2, <2>5 DEF Settlement, ErrorKeepsBook, TradeLeft
    <2> QED
        BY <2>1, <2>6, <2>7, <2>8 DEF BookInv
<1>4. CASE Commit
    BY <1>4 DEF Commit, BookInv, BookStep
<1>5. CASE Restart
    <2>1. /\ db'.positions = db.positions /\ db'.traded = db.traded
          /\ db'.full = db.full /\ db'.opened = db.opened
          /\ db'.unreduced = db.unreduced
          /\ pc' = "idle"
        BY <1>1, <1>5 DEF Restart, Database
    <2>2. db' \in Database
        BY NextType, <1>5 DEF TypeOK, Next
    <2>3. Sound(db')
        BY <1>1, <2>1, <2>2, SoundFrame DEF BookInv
    <2>4. StopsKept(db, db', Newest(db').payload)
        BY <1>1, <2>1, SignalWorkerAssumption
        DEF StopsKept, StopMoved, Open, Database, Position
    <2> QED
        BY <2>1, <2>3, <2>4 DEF BookInv, BookStep, ErrorKeepsBook
<1>6. CASE \/ UNCHANGED vars \/ Publish \/ Deliver \/ SkipDuplicate \/ Accept
           \/ Ack \/ BeginFails \/ CommitFails \/ AckFails \/ Crash
    BY <1>6 DEF vars, Publish, Deliver, SkipDuplicate, Accept, Ack, BeginFails,
                CommitFails, AckFails, LeavePending, Crash, BookInv
<1> QED
    BY <1>2, <1>3, <1>4, <1>5, <1>6 DEF Next, Consume, Fault

\* In every reachable state the trades of a position id and its open quantity
\* add up to what was opened under it and the partial closes that broke off.
THEOREM QuantityConserved == Spec => []QtyConserved
<1>1. Init => TypeOK /\ BookInv
    BY InitType, InitBook
<1>2. TypeOK /\ BookInv /\ [Next]_vars => TypeOK' /\ BookInv'
    BY NextType, NextBook
<1>3. BookInv => QtyConserved
    BY DEF BookInv, Sound, QtyConserved
<1> QED
    BY <1>1, <1>2, <1>3, PTL DEF Spec

\* The duplicate guard of process_open leaves at most one ordinary position per
\* alpha and symbol.
THEOREM DuplicateGuardWorks == Spec => []OnePositionPerSymbol
<1>1. Init => TypeOK /\ BookInv
    BY InitType, InitBook
<1>2. TypeOK /\ BookInv /\ [Next]_vars => TypeOK' /\ BookInv'
    BY NextType, NextBook
<1>3. BookInv => OnePositionPerSymbol
    BY DEF BookInv, Sound, OnePositionPerSymbol
<1> QED
    BY <1>1, <1>2, <1>3, PTL DEF Spec

\* No step loosens the stop of a position that stays open, and only a MODIFY
\* with NaN takes it away.
THEOREM StopsOnlyTighten == Spec => StopNeverLoosened
<1>1. Init => TypeOK /\ BookInv
    BY InitType, InitBook
<1>2. TypeOK /\ BookInv /\ [Next]_vars => TypeOK' /\ BookInv'
    BY NextType, NextBook
<1>3. TypeOK /\ BookInv /\ [Next]_vars 
             => [StopsKept(db, db', Newest(db').payload)]_db
    BY NextBook DEF BookStep
<1> QED
    BY <1>1, <1>2, <1>3, PTL DEF Spec, StopNeverLoosened

\* A signal recorded as failed left the book as it was, but for the one trade of
\* a partial close that raised after its INSERT.
THEOREM FailedSignalsHaveNoEffect == Spec => ErrorsLeaveBookAlone
<1>1. Init => TypeOK /\ BookInv
    BY InitType, InitBook
<1>2. TypeOK /\ BookInv /\ [Next]_vars => TypeOK' /\ BookInv'
    BY NextType, NextBook
<1>3. TypeOK /\ BookInv /\ [Next]_vars => [ErrorKeepsBook(db, db')]_db
    BY NextBook DEF BookStep
<1> QED
    BY <1>1, <1>2, <1>3, PTL DEF Spec, ErrorsLeaveBookAlone

-----------------------------------------------------------------------------
(***************************************************************************)
(* 4. The signals table, while nothing is pruned.                          *)
(*                                                                         *)
(* Every committed row is processed: then the duplicate check, which looks *)
(* for processed rows only, sees every row there is, and the row logged    *)
(* next is the only one of its id.                                         *)
(***************************************************************************)
AllProcessed(d) == \A i \in 1..Len(d.signals) : d.signals[i].processed

SettledOnce(d) ==
    \A i, j \in 1..Len(d.signals) :
        i # j /\ d.signals[i].payload.id = d.signals[j].payload.id
            => d.signals[i].payload.id = Unknown

\* the message is not recorded yet, or has no id to be recognised by
Fresh(d, id) ==
    id = Unknown \/ \A i \in 1..Len(d.signals) : d.signals[i].payload.id # id

\* the committed rows are still there, in the same order
Extends(d, e) ==
    /\ Len(d.signals) <= Len(e.signals)
    /\ \A i \in 1..Len(d.signals) :
          e.signals[i].payload = d.signals[i].payload

RecordInv ==
    /\ AllProcessed(db)
    /\ SettledOnce(db)
    /\ pc \in {"begin", "execute"} => Fresh(db, Current.id)
    /\ pc = "execute" => tx = db
    /\ pc = "commit" => /\ AllProcessed(tx)
                        /\ SettledOnce(tx)
                        /\ Extends(db, tx)
                        /\ Processed(tx, Current.id)
    /\ pc = "ack" => Processed(db, Current.id)
    /\ \A i \in (1..delivered) \ pel : Processed(db, stream[i].id)

\* A handler that starts from a processed table without the message's id leaves
\* a processed table with it, still without repetitions.
LEMMA SettlementRecords ==
    ASSUME NEW b \in Database, NEW d \in Database, d.signals = b.signals,
           NEW m \in Signals, NEW failed \in BOOLEAN,
           AllProcessed(b), SettledOnce(b), Fresh(b, m.id)
    PROVE  LET s == Settled(d, m, failed) IN
           AllProcessed(s) /\ SettledOnce(s) /\ Extends(b, s) /\ Processed(s, m.id)
<1> DEFINE s == Settled(d, m, failed)
           n == Len(b.signals)
<1>1. /\ s \in Database
      /\ Len(s.signals) = n + 1
      /\ s.signals[n + 1].payload = m
      /\ s.signals[n + 1].processed
      /\ \A i \in 1..n : /\ s.signals[i].payload = b.signals[i].payload
                         /\ b.signals[i].processed => s.signals[i].processed
    <2>1. Len(s.signals) = n + 1
        BY SettledProperties
    <2> HIDE DEF s, n
    <2>2. s.signals[Len(s.signals)].payload = m
          /\ s.signals[Len(s.signals)].processed
        BY SettledProperties DEF s
    <2>3. \A i \in 1..n : /\ s.signals[i].payload = b.signals[i].payload
                          /\ b.signals[i].processed => s.signals[i].processed
        BY SettledProperties DEF s, n
    <2> QED
        BY <2>1, <2>2, <2>3, SettledProperties DEF s
<1>2. n \in Nat
    BY LenProperties DEF Database
<1>3. DOMAIN s.signals = 1..n + 1
    <2>1. s.signals \in Seq(Row)
        BY <1>1 DEF Database
    <2> QED
        BY <1>1, <2>1, LenProperties
<1> HIDE DEF s, n
<1>4. AllProcessed(s)
    BY <1>1, <1>2 DEF AllProcessed, n
<1>5. SettledOnce(s)
    <2>1. SUFFICES ASSUME NEW i \in 1..n + 1, NEW j \in 1..n + 1, i # j,
                          s.signals[i].payload.id = s.signals[j].payload.id
                   PROVE  s.signals[i].payload.id = Unknown
        BY <1>1 DEF SettledOnce
    <2>2. CASE i \in 1..n /\ j \in 1..n
        BY <1>1, <2>1, <2>2 DEF SettledOnce, n
    <2>3. CASE i = n + 1
        <3>1. j \in 1..n
            BY <1>2, <2>1, <2>3
        <3>2. s.signals[i].payload = m
              /\ s.signals[j].payload = b.signals[j].payload
            BY <1>1, <2>3, <3>1
        <3>3. m.id = Unknown \/ b.signals[j].payload.id # m.id
            BY <3>1 DEF Fresh, n
        <3> QED
            BY <2>1, <3>2, <3>3
    <2>4. CASE j = n + 1
        <3>1. i \in 1..n
            BY <1>2, <2>1, <2>4
        <3>2. s.signals[j].payload = m
              /\ s.signals[i].payload = b.signals[i].payload
            BY <1>1, <2>4, <3>1
        <3>3. m.id = Unknown \/ b.signals[i].payload.id # m.id
            BY <3>1 DEF Fresh, n
        <3> QED
            BY <2>1, <3>2, <3>3
    <2> QED
        BY <1>2, <2>2, <2>3, <2>4
<1>6. Extends(b, s)
    BY <1>1, <1>2 DEF Extends, n
<1>7. Processed(s, m.id)
    BY <1>1, <1>2, <1>3 DEF Processed
<1> QED
    BY <1>4, <1>5, <1>6, <1>7 DEF s

\* What is processed stays processed when rows are only added.
LEMMA ProcessedStays ==
    ASSUME NEW d \in Database, NEW e \in Database, Extends(d, e),
           AllProcessed(e), NEW id, Processed(d, id)
    PROVE  Processed(e, id)
<1>1. /\ DOMAIN d.signals = 1..Len(d.signals) /\ Len(d.signals) \in Nat
      /\ DOMAIN e.signals = 1..Len(e.signals) /\ Len(e.signals) \in Nat
    BY LenProperties DEF Database
<1>2. PICK i \in 1..Len(d.signals) : d.signals[i].payload.id = id
    BY <1>1 DEF Processed
<1> QED
    BY <1>1, <1>2 DEF Extends, AllProcessed, Processed

LEMMA InitRecord == Init => RecordInv
BY DEF Init, RecordInv, EmptyDatabase, AllProcessed, SettledOnce

LEMMA NextRecord ==
    ASSUME SIGNAL_RETENTION_DAYS = 0, TypeOK, RecordInv, [Next]_vars
    PROVE  RecordInv'
<1>1. /\ db \in Database /\ stream \in Seq(Signals)
      /\ delivered \in 0..Len(stream) /\ Len(stream) \in Nat
      /\ cursor \in 1..delivered + 1
      /\ pel \subseteq 1..delivered
    BY LenProperties DEF TypeOK
<1>2. CASE Publish
    <2>1. PICK m \in Signals : stream' = Append(stream, m)
        BY <1>2 DEF Publish
    <2>2. \A i \in 1..delivered : stream'[i] = stream[i]
        BY <1>1, <2>1
    <2>3. pc \in {"begin", "execute", "commit", "ack"} => Current' = Current
        BY <1>1, <1>2, <2>2 DEF Publish, Current, TypeOK
    <2> QED
        BY <1>2, <2>2, <2>3 DEF Publish, RecordInv
<1>3. CASE Deliver
    <2>1. (1..delivered') \ pel' \subseteq (1..delivered) \ pel
        <3>1. pel' = pel \cup ((delivered + 1)..delivered')
            BY <1>3 DEF Deliver
        <3>2. delivered' \in Nat
            BY <1>1, <1>3, SignalWorkerAssumption DEF Deliver
        <3> QED
            BY <1>1, <3>1, <3>2
    <2> QED
        BY <1>3, <2>1 DEF Deliver, RecordInv
<1>4. CASE SkipDuplicate
    BY <1>4 DEF SkipDuplicate, RecordInv, Current
<1>5. CASE Accept
    <2>1. Fresh(db, Current.id)
        <3>1. DOMAIN db.signals = 1..Len(db.signals)
            BY <1>1, LenProperties DEF Database
        <3> QED
            BY <1>5, <3>1 DEF Accept, RecordInv, AllProcessed, Processed, Fresh
    <2> QED
        BY <1>5, <2>1 DEF Accept, RecordInv, Current
<1>6. CASE Begin
    BY <1>6 DEF Begin, RecordInv, Current
<1>7. CASE Execute
    <2>1. /\ pc = "execute" /\ pc' = "commit"
          /\ UNCHANGED <<stream, delivered, pel, cursor, db>>
          /\ tx = db
        BY <1>7, ExecuteSettles DEF RecordInv
    <2>2. PICK d \in Database, failed \in BOOLEAN : Settlement(d, failed)
        BY <1>7, ExecuteSettles
    <2>3. Current \in Signals
        BY <2>1, CurrentType DEF TypeOK
    <2>4. /\ AllProcessed(tx') /\ SettledOnce(tx') /\ Extends(db, tx')
          /\ Processed(tx', Current.id)
        BY <1>1, <2>1, <2>2, <2>3, SettlementRecords DEF Settlement, RecordInv
    <2> QED
        BY <2>1, <2>4 DEF RecordInv, Current
<1>8. CASE Commit
    <2>1. tx \in Database /\ db' = tx
        BY <1>8 DEF Commit, TypeOK
    <2>2. \A id : Processed(db, id) => Processed(tx, id)
        BY <1>1, <1>8, <2>1, ProcessedStays DEF Commit, RecordInv
    <2> QED
        BY <1>8, <2>1, <2>2 DEF Commit, RecordInv, Current
<1>9. CASE Ack
    BY <1>9 DEF Ack, RecordInv, Current
<1>10. CASE AckFails
    BY <1>10 DEF AckFails, LeavePending, RecordInv, Current
<1>11. CASE Restart
    <2>1. db' = [db EXCEPT !.alphas = @ \cup RegisteredAlphas]
        <3>1. db' = [db EXCEPT !.alphas = @ \cup RegisteredAlphas,
                               !.signals = SubSeq(@, 1, Len(@))]
            BY <1>11 DEF Restart
        <3>2. SubSeq(db.signals, 1, Len(db.signals)) = db.signals
            BY <1>1, SubSeqFull DEF Database
        <3> QED
            BY <1>1, <3>1, <3>2 DEF Database
    <2>2. db'.signals = db.signals
        BY <1>1, <2>1 DEF Database
    <2>3. \A id : Processed(db, id) => Processed(db', id)
        BY <2>2 DEF Processed
    <2> QED
        BY <1>11, <2>2, <2>3 DEF Restart, RecordInv, AllProcessed, SettledOnce
<1>12. CASE UNCHANGED vars \/ BeginFails \/ CommitFails \/ Crash
    BY <1>12 DEF vars, BeginFails, CommitFails, LeavePending, Crash,
                 RecordInv, Current
<1> QED
    BY <1>2, <1>3, <1>4, <1>5, <1>6, <1>7, <1>8, <1>9, <1>10, <1>11, <1>12
    DEF Next, Consume, Fault

\* No failure or crash makes a signal_id settle twice.
THEOREM SettlesAtMostOnce == Spec => []SettledAtMostOnce
<1> DEFINE Inv == SIGNAL_RETENTION_DAYS = 0 => RecordInv
<1>1. Init => TypeOK /\ Inv
    BY InitType, InitRecord
<1>2. TypeOK /\ Inv /\ [Next]_vars => TypeOK' /\ Inv'
    BY NextType, NextRecord
<1>3. TypeOK /\ Inv => SettledAtMostOnce
    <2>1. TypeOK => DOMAIN db.signals = 1..Len(db.signals)
        BY LenProperties DEF TypeOK, Database
    <2> QED
        BY <2>1 DEF RecordInv, SettledOnce, SettledAtMostOnce
<1> HIDE DEF Inv
<1> QED
    BY <1>1, <1>2, <1>3, PTL DEF Spec

\* What left the pending entries list is recorded as processed.
THEOREM AcknowledgedIsRecorded == Spec => []AckedIsRecorded
<1> DEFINE Inv == SIGNAL_RETENTION_DAYS = 0 => RecordInv
<1>1. Init => TypeOK /\ Inv
    BY InitType, InitRecord
<1>2. TypeOK /\ Inv /\ [Next]_vars => TypeOK' /\ Inv'
    BY NextType, NextRecord
<1>3. Inv => AckedIsRecorded
    BY DEF RecordInv, AckedIsRecorded
<1> HIDE DEF Inv
<1> QED
    BY <1>1, <1>2, <1>3, PTL DEF Spec

-----------------------------------------------------------------------------
(***************************************************************************)
(* 5. The counters.                                                        *)
(*                                                                         *)
(* Between two messages nothing is owed; the message at hand is received   *)
(* but neither acknowledged nor left pending, and until its handler ends   *)
(* (or unless it could not be parsed) it has no outcome either.            *)
(***************************************************************************)
Owed == IF pc \in {"begin", "execute", "commit", "ack"} THEN 1 ELSE 0

OutcomeOwed ==
    IF pc \in {"begin", "execute"} /\ Current.type # "INVALID" THEN 1 ELSE 0

CounterInv ==
    /\ metrics.received = metrics.xack + metrics.left_pending + Owed
    /\ metrics.received <= Outcomes + OutcomeOwed

\* One more of a counter, none of the others.
LEMMA IncValue ==
    ASSUME TypeOK, NEW c \in Counter
    PROVE  \A k \in Counter : Inc(c)[k] = IF k = c THEN metrics[k] + 1 ELSE metrics[k]
BY DEF TypeOK, Inc

\* An exception that leaves the message pending settles what is owed.
LEMMA LeavePendingCounts ==
    ASSUME TypeOK, CounterInv, LeavePending,
           pc \in {"begin", "execute", "commit", "ack"}
    PROVE  CounterInv'
<1>1. \A k \in Counter : metrics[k] \in Nat
    BY DEF TypeOK
<1>2. /\ metrics' = Inc("left_pending") /\ pc' = "idle"
    BY DEF LeavePending
<1>3. \A k \in Counter :
         metrics'[k] = IF k = "left_pending" THEN metrics[k] + 1 ELSE metrics[k]
    BY <1>2, IncValue DEF Counter
<1> QED
    BY <1>1, <1>2, <1>3
    DEF CounterInv, Owed, OutcomeOwed, Outcomes, Counter

LEMMA NextCounters ==
    ASSUME TypeOK, CounterInv, [Next]_vars
    PROVE  CounterInv'
<1>1. \A k \in Counter : metrics[k] \in Nat
    BY DEF TypeOK
<1> USE DEF Counter
<1>2. CASE SkipDuplicate
    <2>1. /\ metrics' = [Inc("received") EXCEPT !.duplicate_skipped = @ + 1]
          /\ pc = "idle" /\ pc' = "ack"
        BY <1>2 DEF SkipDuplicate
    <2>2. Inc("received") \in [Counter -> Nat]
        BY IncType
    <2>3. \A k \in Counter :
             metrics'[k] = IF k \in {"received", "duplicate_skipped"}
                           THEN metrics[k] + 1 ELSE metrics[k]
        BY <2>1, <2>2, IncValue
    <2> QED
        BY <1>1, <2>1, <2>3 DEF CounterInv, Owed, OutcomeOwed, Outcomes
<1>3. CASE Accept
    <2>1. /\ pc = "idle" /\ pc' = "begin" /\ Current' = Current
        BY <1>3 DEF Accept, Current
    <2>2. CASE Current.type = "INVALID"
        <3>1. Inc("received") \in [Counter -> Nat]
            BY IncType
        <3>2. \A k \in Counter :
                 metrics'[k] = IF k \in {"received", "parse_error"}
                               THEN metrics[k] + 1 ELSE metrics[k]
            BY <1>3, <2>2, <3>1, IncValue DEF Accept
        <3> QED
            BY <1>1, <2>1, <2>2, <3>2 DEF CounterInv, Owed, OutcomeOwed, Outcomes
    <2>3. CASE Current.type # "INVALID"
        <3>1. \A k \in Counter :
                 metrics'[k] = IF k = "received" THEN metrics[k] + 1 ELSE metrics[k]
            BY <1>3, <2>3, IncValue DEF Accept
        <3> QED
            BY <1>1, <2>1, <2>3, <3>1 DEF CounterInv, Owed, OutcomeOwed, Outcomes
    <2> QED
        BY <2>2, <2>3
<1>4. CASE Begin
    BY <1>4 DEF Begin, CounterInv, Owed, OutcomeOwed, Outcomes, Current
<1>5. CASE LogParseError
    BY <1>5 DEF LogParseError, CounterInv, Owed, OutcomeOwed, Outcomes, Current
<1>6. ASSUME NEW d, NEW failed \in BOOLEAN, pc = "execute", Settle(d, failed)
      PROVE  CounterInv'
    <2>1. /\ metrics' = Inc(IF failed THEN "process_error" ELSE "committed")
          /\ pc' = "commit"
        BY <1>6 DEF Settle
    <2>2. \A k \in Counter :
             metrics'[k] = IF k = (IF failed THEN "process_error" ELSE "committed")
                           THEN metrics[k] + 1 ELSE metrics[k]
        BY <2>1, IncValue
    <2> QED
        BY <1>1, <1>6, <2>1, <2>2 DEF CounterInv, Owed, OutcomeOwed, Outcomes
<1>7. CASE ProcessOpen
    BY <1>6, <1>7 DEF ProcessOpen
<1>8. CASE ProcessModify
    BY <1>6, <1>8 DEF ProcessModify
<1>9. CASE ProcessClose
    BY <1>6, <1>9 DEF ProcessClose
<1>10. CASE ProcessRegisterColumns
    BY <1>6, <1>10 DEF ProcessRegisterColumns
<1>11. CASE Commit
    BY <1>11 DEF Commit, CounterInv, Owed, OutcomeOwed, Outcomes
<1>12. CASE Ack
    <2>1. \A k \in Counter :
             metrics'[k] = IF k = "xack" THEN metrics[k] + 1 ELSE metrics[k]
        BY <1>12, IncValue DEF Ack
    <2> QED
        BY <1>1, <1>12, <2>1 DEF Ack, CounterInv, Owed, OutcomeOwed, Outcomes
<1>13. CASE BeginFails \/ CommitFails \/ AckFails
    BY <1>13, LeavePendingCounts DEF BeginFails, CommitFails, AckFails
<1>14. CASE Crash
    BY <1>14 DEF Crash, Zero, CounterInv, Owed, OutcomeOwed, Outcomes
<1>15. CASE Publish
    <2>1. PICK m \in Signals : stream' = Append(stream, m)
        BY <1>15 DEF Publish
    <2>2. pc \in {"begin", "execute"} => Current' = Current
        <3>1. pc \in {"begin", "execute"} => cursor \in 1..Len(stream)
            BY LenProperties DEF TypeOK
        <3>2. cursor' = cursor
            BY <1>15 DEF Publish
        <3>3. stream \in Seq(Signals)
            BY DEF TypeOK
        <3> QED
            BY <2>1, <3>1, <3>2, <3>3, AppendProperties DEF Current
    <2> QED
        BY <1>15, <2>2 DEF Publish, CounterInv, Owed, OutcomeOwed, Outcomes
<1>16. CASE Deliver \/ Restart
    BY <1>16 DEF Deliver, Restart, CounterInv, Owed, OutcomeOwed, Outcomes
<1>17. CASE UNCHANGED vars
    BY <1>17 DEF vars, CounterInv, Owed, OutcomeOwed, Outcomes, Current
<1> QED
    BY <1>2, <1>3, <1>4, <1>5, <1>7, <1>8, <1>9, <1>10, <1>11, <1>12, <1>13,
       <1>14, <1>15, <1>16, <1>17
    DEF Next, Consume, Execute, Fault

\* Between messages every received message was acknowledged or counted as left
\* pending, and has one outcome at least, wherever the worker failed or crashed
\* (WorkerMetrics; handle_signal_message's except).
THEOREM EveryMessageIsCounted == Spec => []CountersAddUp
<1>1. Init => CounterInv
    BY DEF Init, Zero, Counter, CounterInv, Owed, OutcomeOwed, Outcomes
<1>2. TypeOK /\ CounterInv /\ [Next]_vars => CounterInv'
    BY NextCounters
<1>3. TypeOK /\ CounterInv => CountersAddUp
    <2>1. TypeOK => \A k \in Counter : metrics[k] \in Nat
        BY DEF TypeOK
    <2> QED
        BY <2>1 DEF CounterInv, CountersAddUp, Owed, OutcomeOwed, Outcomes, Counter
<1> QED
    BY <1>1, <1>2, <1>3, TypeCorrect, PTL DEF Spec
-----------------------------------------------------------------------------
(***************************************************************************)
(* 6. The effect of a handler that turns the database value b into d.      *)
(***************************************************************************)
Held(d) == [p \in PositionId |->
               IF d.positions[p] = None THEN None ELSE d.positions[p].qty]

NoTrade(b, d) ==
    /\ Held(d) = Held(b)
    /\ d.traded = b.traded /\ d.full = b.full /\ d.opened = b.opened

Opening(b, d, m) ==
    /\ m.type = "OPEN"
    /\ \E p \in OpenIds(b, m) :
          /\ Held(b)[p] = None
          /\ Held(d) = [Held(b) EXCEPT ![p] = OpenQty(m)]
          /\ d.opened = [b.opened EXCEPT ![p] = @ + OpenQty(m)]
    /\ d.traded = b.traded /\ d.full = b.full

Closing(b, d, m) ==
    LET p == m.position_id
        q == IF m.qty = None THEN Held(b)[p] ELSE m.qty
    IN  /\ m.type = "CLOSE"
        /\ p \in PositionId /\ Held(b)[p] # None
        /\ 0 < q /\ q <= Held(b)[p]
        /\ Held(d) = [Held(b) EXCEPT ![p] = IF q = Held(b)[p] THEN None ELSE @ - q]
        /\ d.traded = [b.traded EXCEPT ![p] = @ + q]
        /\ d.full = IF q = Held(b)[p] THEN b.full \cup {p} ELSE b.full
        /\ d.opened = b.opened

Trading(b, d, m) ==
    /\ TradePart(b, m)
    /\ Held(d) = Held(b)
    /\ d.traded = [b.traded EXCEPT ![m.position_id] = @ + m.qty]
    /\ d.full = b.full /\ d.opened = b.opened

Effect(b, d, m) ==
    NoTrade(b, d) \/ Opening(b, d, m) \/ Closing(b, d, m) \/ Trading(b, d, m)

\* The held quantity of an open position is an integer, that of another is None.
LEMMA HeldValue ==
    ASSUME NEW d \in Database
    PROVE  /\ Held(d) \in [PositionId -> Int \cup {None}]
           /\ \A p \in PositionId : p \in Open(d) <=> Held(d)[p] # None
           /\ \A p \in Open(d) : Held(d)[p] = d.positions[p].qty
<1>1. /\ d.positions \in [PositionId -> Position \cup {None}]
      /\ None \notin Int /\ None \notin Position
    BY SignalWorkerAssumption DEF Database
<1>2. \A p \in PositionId : d.positions[p] # None => d.positions[p].qty \in Int
    BY <1>1 DEF Position
<1> QED
    BY <1>1, <1>2 DEF Held, Open

LEMMA HeldFrame ==
    ASSUME NEW b, NEW d, d.positions = b.positions
    PROVE  Held(d) = Held(b)
BY DEF Held

\* create_position opens one position that was not open.
LEMMA CreatePositionEffect ==
    ASSUME NEW b \in Database, NEW m \in Signals, m.type = "OPEN",
           NEW p \in OpenIds(b, m), p \in PositionId \ Open(b)
    PROVE  Opening(b, CreatePosition(b, m, p), m)
<1> DEFINE d == CreatePosition(b, m, p)
           pos == [alpha |-> m.alpha, symbol |-> m.symbol, side |-> m.side,
                   qty |-> OpenQty(m), sl |-> Stored(m.sl), time |-> m.time,
                   dup |-> m.dup, version |-> m.runtime # "bad"]
<1>1. m \in Signal /\ None \notin Int /\ None \notin Position
    BY SignalWorkerAssumption
<1>2. pos \in Position /\ pos # None /\ pos.qty = OpenQty(m)
    <2>1. OpenQty(m) \in Int /\ Stored(m.sl) \in Int \cup {None}
        BY <1>1 DEF Signal, OpenQty, Stored
    <2>2. pos \in Position
        BY <1>1, <2>1 DEF Signal, Position
    <2> QED
        BY <1>1, <2>2
<1> HIDE DEF pos
<1>3. d = [b EXCEPT !.positions = [b.positions EXCEPT ![p] = pos],
                    !.opened = [b.opened EXCEPT ![p] = @ + OpenQty(m)]]
    BY DEF CreatePosition, pos
<1>4. /\ d.positions = [b.positions EXCEPT ![p] = pos]
      /\ d.opened = [b.opened EXCEPT ![p] = @ + OpenQty(m)]
      /\ d.traded = b.traded /\ d.full = b.full
    BY <1>3 DEF Database
<1> HIDE DEF d
<1>5. b.positions \in [PositionId -> Position \cup {None}]
    BY DEF Database
<1>6. Held(b)[p] = None
    BY HeldValue
<1>7. Held(d) = [Held(b) EXCEPT ![p] = OpenQty(m)]
    BY <1>2, <1>4, <1>5 DEF Held
<1> QED
    BY <1>4, <1>6, <1>7 DEF Opening, d

\* modify_position does not touch quantities.
LEMMA ModifyPositionEffect ==
    ASSUME NEW b \in Database, NEW p \in Open(b), NEW m \in Signals
    PROVE  NoTrade(b, ModifyPosition(b, p, m))
<1> DEFINE d == ModifyPosition(b, p, m)
           pos == Modified(b.positions[p], m)
<1>1. /\ b.positions \in [PositionId -> Position \cup {None}]
      /\ p \in PositionId /\ b.positions[p] \in Position
      /\ None \notin Position /\ NaN \notin Int \cup {None} /\ m \in Signal
    BY SignalWorkerAssumption DEF Database, Open
<1>2. d = [b EXCEPT !.positions = [b.positions EXCEPT ![p] = pos]]
    BY DEF ModifyPosition
<1> HIDE DEF d
<1>3. pos.qty = b.positions[p].qty /\ pos # None
    <2>1. m.sl = None \/ Stored(m.sl) \in Int \cup {None}
        BY <1>1 DEF Stored, Signal
    <2>2. MergedVersion(b.positions[p], m) \in BOOLEAN
        BY <1>1 DEF MergedVersion, Position
    <2>3. pos \in Position /\ pos.qty = b.positions[p].qty
        BY <1>1, <2>1, <2>2 DEF Modified, Position
    <2> QED
        BY <1>1, <2>3
<1> HIDE DEF pos
<1>4. /\ d.positions = [b.positions EXCEPT ![p] = pos]
      /\ d.traded = b.traded /\ d.full = b.full /\ d.opened = b.opened
    BY <1>2 DEF Database
<1>5. Held(d) = Held(b)
    BY <1>1, <1>3, <1>4 DEF Held
<1> QED
    BY <1>4, <1>5 DEF NoTrade, d

\* close_position moves a quantity to the trades, after process_close's checks.
LEMMA ClosePositionEffect ==
    ASSUME NEW b \in Database, NEW m \in Signals, m.type = "CLOSE", CanClose(b, m)
    PROVE  LET p == m.position_id IN
           Closing(b, ClosePosition(b, p, CloseQty(b.positions[p], m), m), m)
<1> DEFINE p == m.position_id
           pos == b.positions[p]
           q == CloseQty(pos, m)
           d == ClosePosition(b, p, q, m)
           rest == IF q = pos.qty THEN None ELSE Reduced(pos, q, m)
           ps == [b.positions EXCEPT ![p] = rest]
           ts == [b.traded EXCEPT ![p] = @ + q]
           fs == IF q = pos.qty THEN b.full \cup {p} ELSE b.full
<1>1. /\ m \in Signal /\ None \notin Int /\ None \notin Position
      /\ p \in Open(b) /\ 0 < q /\ q <= pos.qty
    BY SignalWorkerAssumption DEF CanClose
<1>2. /\ b.positions \in [PositionId -> Position \cup {None}]
      /\ p \in PositionId /\ pos \in Position
    BY <1>1 DEF Database, Open
<1>3. /\ Held(b)[p] = pos.qty /\ Held(b)[p] # None /\ pos.qty \in Int
      /\ q = (IF m.qty = None THEN Held(b)[p] ELSE m.qty)
      /\ q \in Int
    BY <1>1, <1>2, HeldValue DEF CloseQty, Position, Signal
<1> HIDE DEF q
<1>4. /\ q # pos.qty => rest # None /\ rest.qty = pos.qty - q
      /\ q = pos.qty => rest = None
    BY <1>1, <1>2, <1>3, ReducedProperties
<1>5. /\ d.positions = ps /\ d.traded = ts /\ d.full = fs /\ d.opened = b.opened
    <2>1. CASE q = pos.qty
        <3>1. d = [b EXCEPT !.traded = ts, !.full = fs, !.positions = ps]
            BY <2>1 DEF ClosePosition
        <3> HIDE DEF d, ts, fs, ps
        <3> QED
            BY <3>1 DEF Database
    <2>2. CASE q # pos.qty
        <3>1. d = [b EXCEPT !.traded = ts, !.positions = ps]
            BY <2>2 DEF ClosePosition
        <3>2. fs = b.full
            BY <2>2
        <3> HIDE DEF d, ts, fs, ps
        <3> QED
            BY <3>1, <3>2 DEF Database
    <2> QED
        BY <2>1, <2>2
<1> HIDE DEF d, rest
<1>6. Held(d) = [Held(b) EXCEPT ![p] = IF q = Held(b)[p] THEN None ELSE @ - q]
    BY <1>2, <1>3, <1>4, <1>5 DEF Held
<1> QED
    BY <1>1, <1>2, <1>3, <1>5, <1>6 DEF Closing, d, q

\* Whatever a handler does or refuses, it leaves a database value d that differs
\* from the transaction's by one effect on quantities, and records the signal.
LEMMA ExecuteEffect ==
    ASSUME TypeOK, Execute
    PROVE  \E d \in Database, failed \in BOOLEAN :
              /\ tx' = Settled(d, Current, failed)
              /\ d.signals = tx.signals
              /\ Effect(tx, d, Current)
<1>1. pc = "execute"
    BY DEF Execute, LogParseError, ProcessOpen, ProcessModify, ProcessClose,
           ProcessRegisterColumns
<1>2. tx \in Database /\ cursor <= delivered
    BY <1>1 DEF TypeOK
<1>3. Current \in Signals /\ Current \in Signal
    BY <1>2, CurrentType, SignalWorkerAssumption
<1>4. NoTrade(tx, tx)
    BY DEF NoTrade
<1> DEFINE Goal == \E d \in Database, failed \in BOOLEAN :
                      /\ tx' = Settled(d, Current, failed)
                      /\ d.signals = tx.signals
                      /\ Effect(tx, d, Current)
<1> SUFFICES Goal
    OBVIOUS
<1> HIDE DEF Goal
<1>5. ASSUME NEW d \in Database, NEW failed \in BOOLEAN, Settle(d, failed),
             d.signals = tx.signals, Effect(tx, d, Current)
      PROVE  Goal
    BY <1>5 DEF Settle, Goal
<1>6. ASSUME NEW failed \in BOOLEAN, Settle(tx, failed)
      PROVE  Goal
    BY <1>2, <1>4, <1>6 DEF Settle, Effect, Goal
<1>7. CASE LogParseError
    BY <1>2, <1>4, <1>7 DEF LogParseError, Effect, Goal
<1>8. CASE ProcessOpen
    <2> DEFINE r == RegisterAlpha(tx, Current.alpha)
    <2>1. /\ r \in Database
          /\ r.positions = tx.positions /\ r.traded = tx.traded
          /\ r.full = tx.full /\ r.opened = tx.opened
          /\ r.signals = tx.signals
        BY <1>2, <1>3, RegisterAlphaProperties DEF Signal
    <2> HIDE DEF r
    <2>2. /\ Held(r) = Held(tx)
          /\ OpenIds(r, Current) = OpenIds(tx, Current)
        BY <2>1, HeldFrame DEF OpenIds
    <2>3. ASSUME NEW p \in OpenIds(r, Current) \ Open(r),
                 Settle(CreatePosition(r, Current, p), FALSE)
          PROVE  Goal
        <3>1. p \in PositionId \ Open(r) /\ Current.type = "OPEN"
            BY <1>3, <1>8, <2>3, SignalWorkerAssumption
            DEF OpenIds, Signal, ProcessOpen
        <3>2. Opening(r, CreatePosition(r, Current, p), Current)
            BY <1>3, <2>1, <2>3, <3>1, CreatePositionEffect
        <3>3. Opening(tx, CreatePosition(r, Current, p), Current)
            BY <2>1, <2>2, <3>2 DEF Opening
        <3>4. /\ CreatePosition(r, Current, p) \in Database
              /\ CreatePosition(r, Current, p).signals = r.signals
            BY <1>3, <2>1, <3>1, CreatePositionProperties
        <3> QED
            BY <1>5, <2>1, <2>3, <3>3, <3>4 DEF Effect
    <2>4. ASSUME Settle(r, TRUE)
          PROVE  Goal
        <3>1. NoTrade(tx, r)
            BY <2>1, <2>2 DEF NoTrade
        <3> QED
            BY <1>5, <2>1, <2>4, <3>1 DEF Effect
    <2> QED
        BY <1>8, <2>3, <2>4 DEF ProcessOpen, r
<1>9. CASE ProcessModify
    <2> DEFINE p == Current.position_id
               d == ModifyPosition(tx, p, Current)
    <2>1. ASSUME p \in Open(tx), Settle(d, FALSE)
          PROVE  Goal
        <3>1. d \in Database /\ d.signals = tx.signals
            BY <1>2, <1>3, <2>1, ModifyPositionProperties
        <3>2. NoTrade(tx, d)
            BY <1>2, <1>3, <2>1, ModifyPositionEffect
        <3> HIDE DEF d
        <3> QED
            BY <1>5, <2>1, <3>1, <3>2 DEF Effect
    <2>2. (p \in Open(tx) /\ Settle(d, FALSE)) \/ Settle(tx, TRUE)
        BY <1>9 DEF ProcessModify
    <2> QED
        BY <1>6, <2>1, <2>2
<1>10. CASE ProcessClose
    <2> DEFINE p == Current.position_id
               q == CloseQty(tx.positions[p], Current)
               d == ClosePosition(tx, p, q, Current)
               t == TradeOnly(tx, p, q)
    <2>1. ASSUME CanClose(tx, Current), Settle(d, FALSE)
          PROVE  Goal
        <3>1. p \in Open(tx) /\ Current.type = "CLOSE"
            BY <1>10, <2>1 DEF CanClose, ProcessClose
        <3>2. q \in Int
            <4>1. tx.positions[p] \in Position
                BY <1>2, <3>1 DEF Open, Database
            <4> QED
                BY <1>3, <4>1 DEF CloseQty, Signal, Position
        <3>3. d \in Database /\ d.signals = tx.signals
            BY <1>2, <3>1, <3>2, ClosePositionProperties
        <3>4. Closing(tx, d, Current)
            BY <1>2, <1>3, <2>1, <3>1, ClosePositionEffect
        <3> HIDE DEF d
        <3> QED
            BY <1>5, <2>1, <3>3, <3>4 DEF Effect
    <2>2. ASSUME CanClose(tx, Current), BreaksOff(tx.positions[p], Current),
                 Settle(t, TRUE)
          PROVE  Goal
        <3>1. TradePart(tx, Current)
            BY <1>2, <1>3, <1>10, <2>2, ClosingAPart DEF ProcessClose
        <3>2. p \in PositionId /\ q = Current.qty /\ q \in Int
            BY <1>3, <3>1 DEF TradePart, CloseQty, Open, Signal
        <3>3. /\ t \in Database
              /\ t.signals = tx.signals /\ t.positions = tx.positions
              /\ t.full = tx.full /\ t.opened = tx.opened
              /\ t.traded = [tx.traded EXCEPT ![p] = @ + q]
            BY <1>2, <3>2, TradeOnlyProperties
        <3>4. Trading(tx, t, Current)
            BY <3>1, <3>2, <3>3, HeldFrame DEF Trading
        <3> HIDE DEF t
        <3> QED
            BY <1>5, <2>2, <3>3, <3>4 DEF Effect
    <2>3. \/ CanClose(tx, Current) /\ Settle(d, FALSE)
          \/ /\ CanClose(tx, Current) /\ BreaksOff(tx.positions[p], Current)
             /\ Settle(t, TRUE)
          \/ Settle(tx, TRUE)
        BY <1>10 DEF ProcessClose
    <2> QED
        BY <1>6, <2>1, <2>2, <2>3
<1>11. CASE ProcessRegisterColumns
    <2> DEFINE r == RegisterAlpha(tx, Current.alpha)
               d == [r EXCEPT !.columns[Current.alpha] = Current.cols]
    <2>1. /\ r \in Database
          /\ r.positions = tx.positions /\ r.traded = tx.traded
          /\ r.full = tx.full /\ r.opened = tx.opened
          /\ r.signals = tx.signals
        BY <1>2, <1>3, RegisterAlphaProperties DEF Signal
    <2>2. /\ d \in Database
          /\ d.positions = tx.positions /\ d.traded = tx.traded
          /\ d.full = tx.full /\ d.opened = tx.opened
          /\ d.signals = tx.signals
        <3> HIDE DEF r
        <3>1. Current.alpha \in Alpha /\ Current.cols \in SUBSET ColumnKey
            BY <1>3 DEF Signal
        <3> QED
            BY <2>1, <3>1 DEF Database
    <2>3. NoTrade(tx, d)
        BY <2>2, HeldFrame DEF NoTrade
    <2>4. Settle(tx, TRUE) \/ \E failed \in BOOLEAN : Settle(d, failed)
        BY <1>11 DEF ProcessRegisterColumns
    <2> HIDE DEF d
    <2> QED
        BY <1>5, <1>6, <2>2, <2>3, <2>4 DEF Effect
<1> QED
    BY <1>7, <1>8, <1>9, <1>10, <1>11 DEF Execute

\* the rows of b, and one more for the message m
Adds(b, s, m) ==
    /\ Len(s.signals) = Len(b.signals) + 1
    /\ s.signals[Len(b.signals) + 1].payload = m
    /\ \A i \in 1..Len(b.signals) :
          s.signals[i].payload = b.signals[i].payload

(***************************************************************************)
(* What is about to be committed is one effect of the current message on   *)
(* the committed database, and the record of it.                           *)
(***************************************************************************)
EffectInv ==
    pc = "commit" =>
        /\ Effect(db, tx, Current)
        /\ Adds(db, tx, Current)
        /\ Fresh(db, Current.id)

\* The restart prunes nothing while the retention is 0.
LEMMA RestartKeepsTables ==
    ASSUME SIGNAL_RETENTION_DAYS = 0, TypeOK, Restart
    PROVE  /\ db'.positions = db.positions /\ db'.traded = db.traded
           /\ db'.full = db.full /\ db'.opened = db.opened
           /\ db'.signals = db.signals
<1>1. db \in Database /\ db.signals \in Seq(Row)
    BY DEF TypeOK, Database
<1>2. db' = [db EXCEPT !.alphas = @ \cup RegisteredAlphas,
                       !.signals = SubSeq(@, 1, Len(@))]
    BY DEF Restart
<1>3. SubSeq(db.signals, 1, Len(db.signals)) = db.signals
    BY <1>1, SubSeqFull
<1> QED
    BY <1>1, <1>2, <1>3 DEF Database

LEMMA NextEffect ==
    ASSUME SIGNAL_RETENTION_DAYS = 0, TypeOK, RecordInv, EffectInv, [Next]_vars
    PROVE  EffectInv'
<1>1. CASE Execute
    <2>1. /\ pc = "execute" /\ tx = db /\ Fresh(db, Current.id)
          /\ UNCHANGED <<stream, cursor, db>>
        BY <1>1, ExecuteSettles DEF RecordInv
    <2>2. tx \in Database /\ Current \in Signals
        BY <2>1, CurrentType DEF TypeOK
    <2>3. PICK d \in Database, failed \in BOOLEAN :
              /\ tx' = Settled(d, Current, failed)
              /\ d.signals = tx.signals
              /\ Effect(tx, d, Current)
        BY <1>1, ExecuteEffect
    <2>4. /\ tx'.positions = d.positions /\ tx'.traded = d.traded
          /\ tx'.full = d.full /\ tx'.opened = d.opened
        BY <2>2, <2>3, SettledProperties
    <2>5. Held(tx') = Held(d)
        BY <2>4, HeldFrame
    <2>6. Effect(tx, tx', Current)
        BY <2>3, <2>4, <2>5 DEF Effect, NoTrade, Opening, Closing, Trading
    <2>7. Adds(tx, tx', Current)
        <3> DEFINE s == Settled(d, Current, failed)
        <3>1. /\ Len(s.signals) = Len(d.signals) + 1
              /\ s.signals[Len(s.signals)].payload = Current
              /\ \A i \in 1..Len(d.signals) :
                    s.signals[i].payload = d.signals[i].payload
            BY <2>2, SettledProperties
        <3> HIDE DEF s
        <3> QED
            BY <2>3, <3>1 DEF Adds, s
    <2>8. Current' = Current
        BY <2>1 DEF Current
    <2> QED
        BY <2>1, <2>6, <2>7, <2>8 DEF EffectInv
<1>2. CASE Publish
    <2>1. PICK m \in Signals : stream' = Append(stream, m)
        BY <1>2 DEF Publish
    <2>2. pc = "commit" => Current' = Current
        <3>1. pc = "commit" => cursor \in 1..Len(stream)
            BY LenProperties DEF TypeOK
        <3>2. cursor' = cursor /\ stream \in Seq(Signals)
            BY <1>2 DEF Publish, TypeOK
        <3> QED
            BY <2>1, <3>1, <3>2, AppendProperties DEF Current
    <2> QED
        BY <1>2, <2>2 DEF Publish, EffectInv
<1>3. CASE UNCHANGED vars
    BY <1>3 DEF vars, EffectInv, Current
<1>4. CASE Deliver \/ SkipDuplicate \/ Accept \/ Begin \/ Commit \/ Ack
           \/ BeginFails \/ CommitFails \/ AckFails \/ Crash \/ Restart
    BY <1>4 DEF Deliver, SkipDuplicate, Accept, Begin, Commit, Ack, BeginFails,
                CommitFails, AckFails, Crash, Restart, LeavePending, EffectInv
<1> QED
    BY <1>1, <1>2, <1>3, <1>4 DEF Next, Consume, Fault

-----------------------------------------------------------------------------
(***************************************************************************)
(* 7. An open position can be closed in full.                              *)
(*                                                                         *)
(* A trade that carries a position's own id means that the position was    *)
(* closed, and the signal that opened it is still recorded: the same OPEN  *)
(* cannot run again, and the worker's own ids are never drawn twice.       *)
(***************************************************************************)
RecordedOpen(d, p) ==
    \E i \in 1..Len(d.signals) :
        /\ d.signals[i].payload.type = "OPEN"
        /\ d.signals[i].payload.position_id = p

Closable(d) ==
    /\ \A p \in PositionId : d.traded[p] >= 0
    /\ \A p \in d.full : p \notin Open(d) /\ d.traded[p] > 0
    /\ \A p \in (d.full \cup Open(d)) \ WorkerId : RecordedOpen(d, p)

\* An opening chooses an id that no trade carries.
LEMMA OpenedIdIsNew ==
    ASSUME UniqueOpenIds, NEW b \in Database, NEW m \in Signals, m.type = "OPEN",
           Closable(b), Fresh(b, m.id), NEW p \in OpenIds(b, m)
    PROVE  /\ p \in PositionId /\ p \notin b.full
           /\ p \notin WorkerId => m.position_id = p
<1>1. /\ m \in Signal /\ m.id # Unknown
      /\ m.position_id \in PositionId \cup {None}
      /\ WorkerId \subseteq PositionId
    BY SignalWorkerAssumption DEF Signal
<1>2. /\ b.traded \in [PositionId -> Int] /\ b.signals \in Seq(Row)
      /\ b.full \subseteq PositionId
    BY DEF Database
<1>3. CASE m.position_id # None
    <2>1. p = m.position_id /\ p \notin WorkerId
        BY <1>3 DEF OpenIds, UniqueOpenIds
    <2>2. ASSUME p \in b.full
          PROVE  FALSE
        <3>1. PICK i \in 1..Len(b.signals) :
                  /\ b.signals[i].payload.type = "OPEN"
                  /\ b.signals[i].payload.position_id = p
            BY <2>1, <2>2 DEF Closable, RecordedOpen
        <3>2. b.signals[i].payload \in Signals
            <4>1. b.signals[i] \in Row
                BY <1>2, ElementOfSeq
            <4> QED
                BY <4>1 DEF Row
        <3>3. b.signals[i].payload.id = m.id
            BY <1>3, <2>1, <3>1, <3>2 DEF UniqueOpenIds
        <3> QED
            BY <1>1, <3>1, <3>3 DEF Fresh
    <2> QED
        BY <1>1, <1>3, <2>1, <2>2
<1>4. CASE m.position_id = None
    <2>1. p \in WorkerId /\ b.traded[p] = 0
        BY <1>4 DEF OpenIds
    <2> QED
        BY <1>1, <2>1 DEF Closable
<1> QED
    BY <1>3, <1>4

LEMMA EffectKeepsClosable ==
    ASSUME UniqueOpenIds, NEW b \in Database, NEW s \in Database,
           NEW m \in Signals, Closable(b), Fresh(b, m.id),
           Effect(b, s, m), Adds(b, s, m)
    PROVE  Closable(s)
<1>1. /\ b.traded \in [PositionId -> Int] /\ s.traded \in [PositionId -> Int]
      /\ b.full \subseteq PositionId /\ s.full \subseteq PositionId
      /\ Len(b.signals) \in Nat
    BY LenProperties DEF Database
<1>2. /\ \A p \in PositionId : p \in Open(b) <=> Held(b)[p] # None
      /\ \A p \in PositionId : p \in Open(s) <=> Held(s)[p] # None
      /\ Held(b) \in [PositionId -> Int \cup {None}]
      /\ Open(b) \subseteq PositionId /\ Open(s) \subseteq PositionId
    BY HeldValue DEF Open
<1>3. ASSUME NEW p, RecordedOpen(b, p)
      PROVE  RecordedOpen(s, p)
    BY <1>1, <1>3 DEF RecordedOpen, Adds
<1>4. CASE NoTrade(b, s)
    BY <1>1, <1>2, <1>3, <1>4 DEF NoTrade, Closable
<1>5. CASE Opening(b, s, m)
    <2>1. PICK p \in OpenIds(b, m) :
              /\ Held(b)[p] = None
              /\ Held(s) = [Held(b) EXCEPT ![p] = OpenQty(m)]
        BY <1>5 DEF Opening
    <2>2. /\ p \in PositionId /\ p \notin b.full
          /\ p \notin WorkerId => m.position_id = p
        BY <1>5, OpenedIdIsNew DEF Opening
    <2>3. s.traded = b.traded /\ s.full = b.full /\ m.type = "OPEN"
        BY <1>5 DEF Opening
    <2>4. Open(s) \subseteq Open(b) \cup {p}
        BY <1>2, <2>1, <2>2
    <2>5. p \notin WorkerId => RecordedOpen(s, p)
        BY <1>1, <2>2, <2>3 DEF RecordedOpen, Adds
    <2> QED
        BY <1>3, <2>2, <2>3, <2>4, <2>5 DEF Closable
<1>6. CASE Closing(b, s, m)
    <2> DEFINE p == m.position_id
               q == IF m.qty = None THEN Held(b)[p] ELSE m.qty
    <2>1. /\ p \in PositionId /\ Held(b)[p] # None
          /\ 0 < q /\ q <= Held(b)[p]
          /\ Held(s) = [Held(b) EXCEPT ![p] = IF q = Held(b)[p] THEN None ELSE @ - q]
          /\ s.traded = [b.traded EXCEPT ![p] = @ + q]
          /\ s.full = IF q = Held(b)[p] THEN b.full \cup {p} ELSE b.full
        BY <1>6 DEF Closing
    <2>2. q \in Int /\ p \in Open(b)
        <3>1. m \in Signal
            BY SignalWorkerAssumption
        <3> QED
            BY <1>2, <2>1, <3>1 DEF Signal
    <2> HIDE DEF p, q
    <2>3. /\ Open(s) \subseteq Open(b)
          /\ s.full \subseteq b.full \cup {p}
          /\ p \in s.full \ b.full => p \notin Open(s)
        BY <1>2, <2>1, <2>2
    <2>4. \A r \in PositionId : s.traded[r] >= b.traded[r]
        BY <1>1, <2>1, <2>2
    <2>5. s.traded[p] > 0
        BY <1>1, <2>1, <2>2 DEF Closable
    <2> QED
        BY <1>1, <1>3, <2>2, <2>3, <2>4, <2>5 DEF Closable
<1>7. CASE Trading(b, s, m)
    <2> DEFINE p == m.position_id
               q == m.qty
    <2>1. /\ Held(s) = Held(b) /\ s.full = b.full
          /\ s.traded = [b.traded EXCEPT ![p] = @ + q]
        BY <1>7 DEF Trading
    <2>2. q \in Int /\ 0 < q
        <3>1. m \in Signal
            BY SignalWorkerAssumption
        <3> QED
            BY <1>7, <3>1 DEF Trading, TradePart, Signal
    <2> HIDE DEF p, q
    <2>3. \A r \in PositionId : s.traded[r] >= b.traded[r]
        BY <1>1, <2>1, <2>2
    <2>4. Open(s) = Open(b)
        BY <1>2, <2>1
    <2> QED
        BY <1>1, <1>3, <2>1, <2>3, <2>4 DEF Closable
<1> QED
    BY <1>4, <1>5, <1>6, <1>7 DEF Effect

LEMMA NextClosable ==
    ASSUME SIGNAL_RETENTION_DAYS = 0, UniqueOpenIds, TypeOK, RecordInv,
           EffectInv, Closable(db), [Next]_vars
    PROVE  Closable(db)'
<1>1. CASE Commit
    <2>1. /\ pc = "commit" /\ db' = tx /\ db \in Database /\ tx \in Database
          /\ Current \in Signals
        BY <1>1, CurrentType DEF Commit, TypeOK
    <2>2. Closable(tx)
        BY <2>1, EffectKeepsClosable DEF EffectInv
    <2> QED
        BY <2>1, <2>2
<1>2. CASE Restart
    BY <1>2, RestartKeepsTables DEF Closable, Open, RecordedOpen
<1>3. CASE UNCHANGED db
    BY <1>3
<1> QED
    BY <1>1, <1>2, <1>3, ExecuteSettles
    DEF Next, Consume, Fault, vars, Publish, Deliver, SkipDuplicate, Accept,
        Begin, Ack, BeginFails, CommitFails, AckFails, Crash

\* No trade of an open position carries its id, so the INSERT of close_position
\* never collides and the position can always be closed (the duplicate check
\* keeps a republished OPEN from reviving a closed position).
THEOREM OpenPositionsCanClose == Spec => []OpenIsClosable
<1> DEFINE Inv == /\ SIGNAL_RETENTION_DAYS = 0 => RecordInv /\ EffectInv
                  /\ SIGNAL_RETENTION_DAYS = 0 /\ UniqueOpenIds => Closable(db)
<1>1. Init => TypeOK /\ BookInv /\ Inv
    <2>1. Init => EffectInv /\ Closable(db)
        BY DEF Init, EmptyDatabase, EffectInv, Closable, Open
    <2> QED
        BY <2>1, InitType, InitBook, InitRecord
<1>2. TypeOK /\ BookInv /\ Inv /\ [Next]_vars => TypeOK' /\ BookInv' /\ Inv'
    <2> SUFFICES ASSUME TypeOK, BookInv, Inv, [Next]_vars
                 PROVE  TypeOK' /\ BookInv' /\ Inv'
        OBVIOUS
    <2>1. TypeOK' /\ BookInv'
        BY NextType, NextBook
    <2>2. SIGNAL_RETENTION_DAYS = 0 => RecordInv' /\ EffectInv'
        BY NextRecord, NextEffect
    <2>3. SIGNAL_RETENTION_DAYS = 0 /\ UniqueOpenIds => Closable(db)'
        BY NextClosable
    <2> QED
        BY <2>1, <2>2, <2>3
<1>3. Inv => OpenIsClosable
    BY DEF Closable, OpenIsClosable
<1> HIDE DEF Inv
<1> QED
    BY <1>1, <1>2, <1>3, PTL DEF Spec

-----------------------------------------------------------------------------
(***************************************************************************)
(* 8. The worker implements PositionLedger.                                *)
(*                                                                         *)
(* Only a commit is a step of the ledger: it settles the current message   *)
(* when that has an id, and changes nothing the ledger sees when it has    *)
(* none.  With pruning the restart would forget settled ids, so the        *)
(* theorem is about an unlimited retention.                                *)
(***************************************************************************)
SettledIds(d) == {i \in SignalId : Processed(d, i)}

\* The ids recorded after a settlement are those before and the message's.
LEMMA SettledIdsGrow ==
    ASSUME NEW b \in Database, NEW s \in Database, NEW m \in Signals,
           AllProcessed(b), AllProcessed(s), Adds(b, s, m)
    PROVE  SettledIds(s) = SettledIds(b) \cup ({m.id} \cap SignalId)
<1>1. /\ DOMAIN b.signals = 1..Len(b.signals) /\ Len(b.signals) \in Nat
      /\ DOMAIN s.signals = 1..Len(s.signals)
    BY LenProperties DEF Database
<1>2. \A id : Processed(b, id) <=>
                 \E i \in 1..Len(b.signals) : b.signals[i].payload.id = id
    BY <1>1 DEF Processed, AllProcessed
<1>3. \A id : Processed(s, id) <=>
                 \E i \in 1..Len(s.signals) : s.signals[i].payload.id = id
    BY <1>1 DEF Processed, AllProcessed
<1>4. \A id : Processed(s, id) <=> Processed(b, id) \/ id = m.id
    <2>1. /\ \A i \in 1..Len(s.signals) :
                i \in 1..Len(b.signals) \/ i = Len(b.signals) + 1
          /\ 1..Len(b.signals) \subseteq 1..Len(s.signals)
          /\ Len(b.signals) + 1 \in 1..Len(s.signals)
        BY <1>1 DEF Adds
    <2> QED
        BY <1>2, <1>3, <2>1 DEF Adds
<1> QED
    BY <1>4 DEF SettledIds

LEMMA CommitSettles ==
    ASSUME SIGNAL_RETENTION_DAYS = 0, TypeOK, RecordInv, EffectInv, Commit
    PROVE  [Ledger!Next]_(Ledger!ledger)
<1> PICK m \in Signals : m = Current
    BY CurrentType DEF Commit, TypeOK
<1>1. pc = "commit" /\ db' = tx /\ db \in Database /\ tx \in Database
    BY DEF Commit, TypeOK
<1>2. /\ Effect(db, tx, m) /\ Adds(db, tx, m) /\ Fresh(db, m.id)
      /\ AllProcessed(db) /\ AllProcessed(tx)
    BY <1>1 DEF EffectInv, RecordInv
<1>3. /\ m \in Signal /\ m.id \in SignalId \cup {Unknown}
      /\ m.id = Unknown => m.type \in {"REGISTER_COLUMNS", "INVALID"}
      /\ Unknown \notin SignalId /\ None \notin PositionId
      /\ WorkerId \subseteq PositionId
    BY SignalWorkerAssumption DEF Signal
<1>4. SettledIds(db') = SettledIds(db) \cup ({m.id} \cap SignalId)
    BY <1>1, <1>2, SettledIdsGrow
<1>5. CASE m.id = Unknown
    <2>1. NoTrade(db, db') /\ SettledIds(db') = SettledIds(db)
        BY <1>1, <1>2, <1>3, <1>4, <1>5
        DEF Effect, Opening, Closing, Trading, TradePart
    <2> QED
        BY <2>1 DEF Ledger!ledger, NoTrade, Held, SettledIds
<1>6. CASE m.id \in SignalId
    <2>1. m.id \notin SettledIds(db)
        <3>1. DOMAIN db.signals = 1..Len(db.signals)
            BY <1>1, LenProperties DEF Database
        <3> QED
            BY <1>2, <1>3, <1>6, <3>1 DEF Fresh, SettledIds, Processed
    <2>2. SettledIds(db') = SettledIds(db) \cup {m.id}
        BY <1>4, <1>6
    <2>3. \/ Ledger!OpenPosition(m) \/ Ledger!ClosePosition(m)
          \/ Ledger!TradePart(m) \/ Ledger!NoEffect
        <3>1. CASE NoTrade(db, tx)
            BY <1>1, <3>1 DEF NoTrade, Held, Ledger!NoEffect
        <3>2. CASE Opening(db, tx, m)
            <4>1. PICK p \in OpenIds(db, m) :
                      /\ Held(db)[p] = None
                      /\ Held(tx) = [Held(db) EXCEPT ![p] = OpenQty(m)]
                BY <3>2 DEF Opening
            <4>2. p \in IF m.position_id = None THEN PositionId
                        ELSE {m.position_id}
                BY <1>3, <4>1 DEF OpenIds
            <4>3. m.type = "OPEN" /\ tx.traded = db.traded
                BY <3>2 DEF Opening
            <4> QED
                BY <1>1, <4>1, <4>2, <4>3 DEF Ledger!OpenPosition, Held, OpenQty
        <3>3. CASE Closing(db, tx, m)
            BY <1>1, <3>3 DEF Closing, Held, Ledger!ClosePosition
        <3>4. CASE Trading(db, tx, m)
            <4> DEFINE p == m.position_id
            <4>1. p \in PositionId /\ Held(db)[p] = db.positions[p].qty
                  /\ Held(db)[p] # None
                BY <1>1, <3>4, HeldValue DEF Trading, TradePart, Open
            <4> QED
                BY <1>1, <3>4, <4>1 DEF Trading, TradePart, Held, Ledger!TradePart
        <3> QED
            BY <1>2, <3>1, <3>2, <3>3, <3>4 DEF Effect
    <2>4. Ledger!Settle(m)
        BY <1>6, <2>1, <2>2, <2>3 DEF Ledger!Settle, SettledIds
    <2> QED
        BY <2>4 DEF Ledger!Next
<1> QED
    BY <1>3, <1>5, <1>6

LEMMA NextImplementsLedger ==
    ASSUME SIGNAL_RETENTION_DAYS = 0, TypeOK, RecordInv, EffectInv, [Next]_vars
    PROVE  [Ledger!Next]_(Ledger!ledger)
<1>1. CASE Commit
    BY <1>1, CommitSettles
<1>2. CASE Restart
    BY <1>2, RestartKeepsTables DEF Ledger!ledger, Processed
<1>3. CASE UNCHANGED db
    BY <1>3 DEF Ledger!ledger, Processed
<1> QED
    BY <1>1, <1>2, <1>3, ExecuteSettles
    DEF Next, Consume, Fault, vars, Publish, Deliver, SkipDuplicate, Accept,
        Begin, Ack, BeginFails, CommitFails, AckFails, Crash

\* Under any publishing, failure and crash the worker's steps are settlements,
\* one per signal_id, or nothing; and a settlement is whole, unless a partial
\* close broke off after its trade (process_signal_message's transaction and
\* duplicate check, close_position).
THEOREM WorkerImplementsLedger ==
    SIGNAL_RETENTION_DAYS = 0 /\ Spec => ImplementsLedger
<1> SUFFICES ASSUME SIGNAL_RETENTION_DAYS = 0
             PROVE  Spec => ImplementsLedger
    OBVIOUS
<1> DEFINE Inv == RecordInv /\ EffectInv
<1>1. Init => TypeOK /\ Inv
    BY InitType, InitRecord DEF Init, EffectInv
<1>2. TypeOK /\ Inv /\ [Next]_vars => TypeOK' /\ Inv'
    BY NextType, NextRecord, NextEffect
<1>3. Init => Ledger!Init
    BY DEF Init, EmptyDatabase, Processed, Ledger!Init
<1>4. TypeOK /\ Inv /\ [Next]_vars => [Ledger!Next]_(Ledger!ledger)
    BY NextImplementsLedger
<1> HIDE DEF Inv
<1> QED
    BY <1>1, <1>2, <1>3, <1>4, PTL DEF Spec, ImplementsLedger, Ledger!Spec
=============================================================================
