------------------------ MODULE VirtualLedger_proofs ------------------------
(***************************************************************************)
(* Theorems about VirtualLedger and their proofs.                          *)
(*                                                                         *)
(*   1. what the operators of the model compute                            *)
(*   2. what a rebalance publishes                                         *)
(*   3. type correctness                                                   *)
(*   4. the consumer: what is acknowledged, and the tables                 *)
(*   5. the publisher: the state and the stream say the same               *)
(*   6. end to end: a consumer that caught up agrees with the state        *)
(***************************************************************************)
EXTENDS VirtualLedger, SequenceTheorems, FiniteSetTheorems, TLAPS

-----------------------------------------------------------------------------
(***************************************************************************)
(* 1. Operators.                                                           *)
(***************************************************************************)

\* A nonempty set of naturals has a least element, and Min is it.
LEMMA MinProperties ==
    ASSUME NEW S \in SUBSET Nat, S # {}
    PROVE  Min(S) \in S /\ \A y \in S : Min(S) <= y
<1> DEFINE Less == {ss \in Nat \X Nat : ss[1] < ss[2]}
<1>1. IsWellFoundedOn(Less, Nat)
    BY NatLessThanWellFounded DEF OpToRel
<1>2. PICK x \in S : \A y \in S : ~ (<<y, x>> \in Less)
    BY <1>1, WFMin
<1>3. \A y \in S : x <= y
    <2>1. \A y \in Nat : y < x => <<y, x>> \in Less
        OBVIOUS
    <2> HIDE DEF Less
    <2>2. \A y \in S : ~ (y < x)
        BY <1>2, <2>1
    <2> QED
        BY <2>2
<1> QED
    BY <1>3 DEF Min

\* A finite set as a sequence: every element once, and nothing else.
LEMMA SetToSeqProperties ==
    ASSUME NEW T, NEW S \in SUBSET T, IsFiniteSet(S)
    PROVE  /\ SetToSeq(S) \in Seq(T)
           /\ \A i \in 1..Len(SetToSeq(S)) : SetToSeq(S)[i] \in S
           /\ \A i, j \in 1..Len(SetToSeq(S)) :
                 SetToSeq(S)[i] = SetToSeq(S)[j] => i = j
           /\ \A x \in S : \E i \in 1..Len(SetToSeq(S)) : SetToSeq(S)[i] = x
<1> DEFINE n == Cardinality(S)
           f == SetToSeq(S)
<1>1. n \in Nat /\ ExistsBijection(1..n, S)
    BY FS_CardinalityType
<1>2. \E g \in [1..n -> S] : IsInjective(g)
    BY <1>1 DEF ExistsBijection, Bijection, Injection
<1>3. f \in [1..n -> S] /\ IsInjective(f)
    BY <1>2 DEF SetToSeq
<1>4. f \in Seq(T) /\ Len(f) = n
    <2>1. f \in [1..n -> T]
        BY <1>3
    <2> HIDE DEF f, n
    <2>2. f \in Seq(T)
        BY <1>1, <2>1, SeqDef
    <2> QED
        BY <1>1, <2>1, <2>2, LenProperties
<1>5. f \in Surjection(1..n, S)
    <2>1. IsFiniteSet(1..n) /\ Cardinality(1..n) = n
        BY <1>1, FS_Interval
    <2>2. f \in Injection(1..n, S)
        BY <1>3 DEF Injection
    <2> HIDE DEF f
    <2> QED
        BY <2>1, <2>2, FS_Injection
<1> HIDE DEF f, n
<1> QED
    BY <1>3, <1>4, <1>5 DEF IsInjective, Surjection, f

\* COUNT takes an initial segment of a range.
LEMMA FirstOfRange ==
    ASSUME NEW a \in Nat, NEW b \in Nat, a < b
    PROVE  \E m \in (a + 1)..b : /\ FirstOf(a + 1 .. b) = (a + 1)..m
                                 /\ Cardinality(FirstOf(a + 1 .. b)) = m - a
<1>1. READ_COUNT \in Nat \ {0}
    BY VirtualLedgerAssumption
<1>2. ASSUME NEW i \in (a + 1)..b
      PROVE  Cardinality({j \in (a + 1)..b : j < i}) = i - a - 1
    <2>1. {j \in (a + 1)..b : j < i} = (a + 1)..(i - 1)
        BY <1>2
    <2>2. Cardinality((a + 1)..(i - 1)) = i - a - 1
        <3>1. a + 1 \in Int /\ i - 1 \in Int /\ ~ (i - 1 < a)
            BY <1>2
        <3>2. Cardinality((a + 1)..(i - 1)) =
                 IF a + 1 > i - 1 THEN 0 ELSE (i - 1) - (a + 1) + 1
            BY <3>1, FS_Interval
        <3> QED
            BY <3>1, <3>2
    <2> QED
        BY <2>1, <2>2
<1>3. FirstOf(a + 1 .. b) = {i \in (a + 1)..b : i - a - 1 < READ_COUNT}
    BY <1>2 DEF FirstOf
<1> DEFINE m == IF a + READ_COUNT <= b THEN a + READ_COUNT ELSE b
<1>4. m \in (a + 1)..b
    BY <1>1
<1>5. \A i \in (a + 1)..b : i - a - 1 < READ_COUNT <=> i <= m
    BY <1>1
<1> HIDE DEF m
<1>6. FirstOf(a + 1 .. b) = (a + 1)..m
    <2>1. FirstOf(a + 1 .. b) = {i \in (a + 1)..b : i <= m}
        BY <1>3, <1>5
    <2>2. {i \in (a + 1)..b : i <= m} = (a + 1)..m
        BY <1>4
    <2> QED
        BY <2>1, <2>2
<1>7. Cardinality((a + 1)..m) = m - a
    BY <1>4, FS_Interval
<1> QED
    BY <1>4, <1>6, <1>7

\* There are finitely many positions, and so finitely many events.
LEMMA FinitePosition == IsFiniteSet(Position)
<1> DEFINE f == [sc \in Symbol \X Candle |->
                    [symbol |-> sc[1], candle |-> sc[2]]]
<1>1. IsFiniteSet(Symbol) /\ IsFiniteSet(Candle)
    BY VirtualLedgerAssumption, FS_Interval DEF Candle
<1>2. IsFiniteSet(Symbol \X Candle)
    BY <1>1, FS_Product
<1>3. f \in Surjection(Symbol \X Candle, Position)
    <2>1. f \in [Symbol \X Candle -> Position]
        BY DEF Position
    <2>2. ASSUME NEW p \in Position
          PROVE  \E sc \in Symbol \X Candle : f[sc] = p
        <3>1. <<p.symbol, p.candle>> \in Symbol \X Candle
            BY DEF Position
        <3>2. f[<<p.symbol, p.candle>>] = p
            BY <3>1 DEF Position
        <3> QED
            BY <3>1, <3>2
    <2> QED
        BY <2>1, <2>2 DEF Surjection
<1> HIDE DEF f
<1> QED
    BY <1>2, <1>3, FS_Surjection

\* Where the elements of two concatenated sequences are.
LEMMA ConcatElements ==
    ASSUME NEW T, NEW x \in Seq(T), NEW y \in Seq(T)
    PROVE  /\ x \o y \in Seq(T) /\ Len(x \o y) = Len(x) + Len(y)
           /\ Len(x) \in Nat /\ Len(y) \in Nat
           /\ \A i \in 1..Len(x) : i \in 1..Len(x \o y) /\ (x \o y)[i] = x[i]
           /\ \A i \in 1..Len(y) : /\ Len(x) + i \in 1..Len(x \o y)
                                   /\ (x \o y)[Len(x) + i] = y[i]
           /\ \A i \in 1..Len(x \o y) :
                 \/ i \in 1..Len(x)
                 \/ i - Len(x) \in 1..Len(y) /\ (x \o y)[i] = y[i - Len(x)]
<1> DEFINE z == x \o y
<1>1. /\ z \in Seq(T) /\ Len(z) = Len(x) + Len(y)
      /\ \A i \in 1..Len(x) + Len(y) :
            z[i] = IF i <= Len(x) THEN x[i] ELSE y[i - Len(x)]
    BY ConcatProperties
<1>2. Len(x) \in Nat /\ Len(y) \in Nat
    BY LenProperties
<1> HIDE DEF z
<1>3. ASSUME NEW i \in 1..Len(x)
      PROVE  i \in 1..Len(z) /\ z[i] = x[i]
    BY <1>1, <1>2
<1>4. ASSUME NEW i \in 1..Len(y)
      PROVE  Len(x) + i \in 1..Len(z) /\ z[Len(x) + i] = y[i]
    <2>1. /\ Len(x) + i \in 1..Len(x) + Len(y) /\ ~ (Len(x) + i <= Len(x))
          /\ (Len(x) + i) - Len(x) = i
        BY <1>2
    <2> QED
        BY <1>1, <2>1
<1>5. ASSUME NEW i \in 1..Len(z), i \notin 1..Len(x)
      PROVE  i - Len(x) \in 1..Len(y) /\ z[i] = y[i - Len(x)]
    BY <1>1, <1>2, <1>5
<1> QED
    BY <1>1, <1>2, <1>3, <1>4, <1>5 DEF z

\* The image of a finite set is finite.
LEMMA FiniteImage ==
    ASSUME NEW S, IsFiniteSet(S), NEW f, DOMAIN f = S
    PROVE  IsFiniteSet({f[x] : x \in S})
<1> DEFINE T == {f[x] : x \in S}
           g == [x \in S |-> f[x]]
<1>1. g \in Surjection(S, T)
    BY DEF Surjection
<1> HIDE DEF T, g
<1>2. IsFiniteSet(T)
    BY <1>1, FS_Surjection
<1> QED
    BY <1>2 DEF T

-----------------------------------------------------------------------------
(***************************************************************************)
(* 2. What a rebalance publishes.                                          *)
(***************************************************************************)
Closed(held, s) == held \ Retained(held, s)

\* The next positions are positions: carried over, or opened at this candle.
LEMMA OpenedPositions ==
    ASSUME NEW held \in SUBSET Position, NEW s \in Selection
    PROVE  /\ s.candle \in Candle
           /\ Opened(held, s) \subseteq Position
           /\ \A p \in Opened(held, s) : p.candle = s.candle
           /\ Closed(held, s) \subseteq held
           /\ Retained(held, s) = held \ Closed(held, s)
           /\ NextPositions(held, s) = (held \ Closed(held, s)) \cup Opened(held, s)
           /\ NextPositions(held, s) \subseteq Position
<1>1. s.candle \in Candle /\ s.weights \subseteq Symbol
    BY DEF Selection
<1>2. /\ Opened(held, s) \subseteq Position
      /\ \A p \in Opened(held, s) : p.candle = s.candle
    BY <1>1 DEF Opened, Position
<1>3. Retained(held, s) \subseteq held
    BY DEF Retained
<1> QED
    BY <1>1, <1>2, <1>3 DEF Closed, NextPositions

\* One close for every position that is not carried over, one open for every
\* opened one, and nothing else.
LEMMA RebalanceEventsProperties ==
    ASSUME NEW held \in SUBSET Position, NEW s \in Selection
    PROVE  LET new == RebalanceEvents(held, s) IN
           /\ new \in Seq(Event)
           /\ \A i \in 1..Len(new) :
                 \/ \E p \in Closed(held, s) : new[i] = CloseEvent(p, s.candle)
                 \/ \E p \in Opened(held, s) : new[i] = OpenEvent(p)
           /\ \A p \in Closed(held, s) :
                 \E i \in 1..Len(new) : new[i] = CloseEvent(p, s.candle)
           /\ \A p \in Opened(held, s) :
                 \E i \in 1..Len(new) : new[i] = OpenEvent(p)
           /\ \A i, j \in 1..Len(new) :
                 /\ new[i].type = "VIRTUAL_CLOSE" /\ new[j].type = "VIRTUAL_CLOSE"
                 /\ new[i].position = new[j].position
                 => i = j
<1> DEFINE C == Closed(held, s)
           O == Opened(held, s)
           f == [p \in C |-> CloseEvent(p, s.candle)]
           g == [p \in O |-> OpenEvent(p)]
           closes == {CloseEvent(p, s.candle) : p \in C}
           opens == {OpenEvent(p) : p \in O}
           x == SetToSeq(closes)
           y == SetToSeq(opens)
           new == RebalanceEvents(held, s)
<1>1. /\ s.candle \in Candle /\ C \subseteq Position /\ O \subseteq Position
      /\ \A p \in O : p.candle \in Candle
    BY OpenedPositions DEF Position
<1>2. IsFiniteSet(C) /\ IsFiniteSet(O)
    BY <1>1, FinitePosition, FS_Subset
<1> HIDE DEF C, O
<1>3. closes \subseteq Event /\ opens \subseteq Event
    BY <1>1 DEF Event, CloseEvent, OpenEvent
<1>4. closes = {f[p] : p \in C} /\ opens = {g[p] : p \in O}
    OBVIOUS
<1>5. IsFiniteSet(closes) /\ IsFiniteSet(opens)
    <2>1. DOMAIN f = C /\ DOMAIN g = O
        OBVIOUS
    <2> HIDE DEF f, g, closes, opens
    <2> QED
        BY <1>2, <1>4, <2>1, FiniteImage
<1>6. new = x \o y
    BY DEF RebalanceEvents, Closed, C, O
<1> HIDE DEF closes, opens, f, g
<1>7. /\ x \in Seq(Event)
      /\ \A i \in 1..Len(x) : x[i] \in closes
      /\ \A i, j \in 1..Len(x) : x[i] = x[j] => i = j
      /\ \A e \in closes : \E i \in 1..Len(x) : x[i] = e
    BY <1>3, <1>5, SetToSeqProperties
<1>8. /\ y \in Seq(Event)
      /\ \A i \in 1..Len(y) : y[i] \in opens
      /\ \A e \in opens : \E i \in 1..Len(y) : y[i] = e
    BY <1>3, <1>5, SetToSeqProperties
<1> HIDE DEF x, y, new
<1>9. /\ new \in Seq(Event)
      /\ \A i \in 1..Len(x) : i \in 1..Len(new) /\ new[i] = x[i]
      /\ \A i \in 1..Len(y) : /\ Len(x) + i \in 1..Len(new)
                              /\ new[Len(x) + i] = y[i]
      /\ \A i \in 1..Len(new) :
            \/ i \in 1..Len(x)
            \/ i - Len(x) \in 1..Len(y) /\ new[i] = y[i - Len(x)]
    BY <1>6, <1>7, <1>8, ConcatElements
<1>10. \A e \in closes : \E i \in 1..Len(new) : new[i] = e
    BY <1>7, <1>9
<1>11. \A i \in 1..Len(new) : \/ i \in 1..Len(x) /\ new[i] = x[i] /\ new[i] \in closes
                              \/ new[i] \in opens
    BY <1>7, <1>8, <1>9
<1>12. \A e \in opens : \E i \in 1..Len(new) : new[i] = e
    <2> TAKE e \in opens
    <2>1. PICK i \in 1..Len(y) : y[i] = e
        BY <1>8
    <2> QED
        BY <1>9, <2>1
<1>13. \A i \in 1..Len(new) : \/ \E p \in C : new[i] = CloseEvent(p, s.candle)
                              \/ \E p \in O : new[i] = OpenEvent(p)
    BY <1>11 DEF closes, opens
<1>14. /\ \A p \in C : \E i \in 1..Len(new) : new[i] = CloseEvent(p, s.candle)
       /\ \A p \in O : \E i \in 1..Len(new) : new[i] = OpenEvent(p)
    BY <1>10, <1>12 DEF closes, opens
<1>15. ASSUME NEW i \in 1..Len(new), NEW j \in 1..Len(new),
              new[i].type = "VIRTUAL_CLOSE", new[j].type = "VIRTUAL_CLOSE",
              new[i].position = new[j].position
       PROVE  i = j
    <2>1. ASSUME NEW e \in opens PROVE e.type = "VIRTUAL_OPEN"
        BY DEF opens, OpenEvent
    <2>2. /\ i \in 1..Len(x) /\ new[i] = x[i] /\ x[i] \in closes
          /\ j \in 1..Len(x) /\ new[j] = x[j] /\ x[j] \in closes
        BY <1>11, <1>15, <2>1
    <2>3. x[i] = x[j]
        BY <1>15, <2>2 DEF closes, CloseEvent
    <2> QED
        BY <1>7, <2>2, <2>3
<1> QED
    BY <1>9, <1>13, <1>14, <1>15 DEF new, C, O

-----------------------------------------------------------------------------
(***************************************************************************)
(* 3. Type correctness.                                                    *)
(***************************************************************************)
\* A failure is counted, and remembered if it may mislead the publisher.
LEMMA FaultType ==
    ASSUME TypeOK, (\E k : Fault(k)) \/ NoFault
    PROVE  faults' \in 0..MaxFaults /\ misled' \in BOOLEAN
<1>1. MaxFaults \in Nat
    BY VirtualLedgerAssumption
<1>2. CASE NoFault
    BY <1>2 DEF NoFault, failures, TypeOK
<1>3. CASE \E k : Fault(k)
    BY <1>1, <1>3 DEF Fault, TypeOK
<1> QED
    BY <1>2, <1>3

\* An executed rebalance appends its events and replaces the state.
LEMMA ExecutedType ==
    ASSUME TypeOK, NEW held \in SUBSET Position, NEW s \in Selection,
           Executed(held, s)
    PROVE  /\ stream' \in Seq(Event) /\ Len(stream) <= Len(stream')
           /\ state' \subseteq Position
<1> DEFINE new == RebalanceEvents(held, s)
<1>1. stream \in Seq(Event) /\ new \in Seq(Event)
    BY RebalanceEventsProperties DEF TypeOK
<1>2. stream' = stream \o new /\ state' = NextPositions(held, s)
    BY DEF Executed
<1> HIDE DEF new
<1>3. /\ stream' \in Seq(Event) /\ Len(stream') = Len(stream) + Len(new)
      /\ Len(stream) \in Nat /\ Len(new) \in Nat
    BY <1>1, <1>2, ConcatElements
<1>4. Len(stream) <= Len(stream')
    BY <1>3
<1>5. state' \subseteq Position
    BY <1>2, OpenedPositions
<1> QED
    BY <1>3, <1>4, <1>5

\* Whatever becomes of the MULTI/EXEC, memory and state stay sets of positions.
LEMMA PublishType ==
    ASSUME TypeOK, NEW held \in SUBSET Position, NEW s \in Selection,
           Publish(held, s)
    PROVE  /\ stream' \in Seq(Event) /\ Len(stream) <= Len(stream')
           /\ state' = None \/ state' \subseteq Position
           /\ memory' \subseteq Position
           /\ faults' \in 0..MaxFaults /\ misled' \in BOOLEAN
<1>1. faults' \in 0..MaxFaults /\ misled' \in BOOLEAN
    BY FaultType DEF Publish
<1>2. CASE Executed(held, s)
    BY <1>1, <1>2, ExecutedType, OpenedPositions DEF Publish
<1>3. CASE Fault("exec") /\ memory' = held /\ UNCHANGED <<stream, state>>
    <2>1. Len(stream) \in Nat
        BY LenProperties DEF TypeOK
    <2> QED
        BY <1>1, <1>3, <2>1 DEF TypeOK
<1> QED
    BY <1>2, <1>3 DEF Publish

\* The runner only appends to the stream: the consumer's half of TypeOK holds on.
LEMMA ConsumerType ==
    ASSUME TypeOK, UNCHANGED consumerVars, stream' \in Seq(Event),
           Len(stream) <= Len(stream')
    PROVE  /\ delivered' \in 0..Len(stream')
           /\ pel' \subseteq 1..delivered'
           /\ consumer' \in {"down", "up", "ack"}
           /\ recover' \in BOOLEAN
           /\ batch' \subseteq pel'
           /\ consumer' = "ack" => batch' # {}
           /\ positions' \subseteq Position
           /\ trades' \subseteq Position
           /\ events' \subseteq Event
<1>1. Len(stream) \in Nat /\ Len(stream') \in Nat
    BY LenProperties DEF TypeOK
<1> QED
    BY <1>1 DEF TypeOK, consumerVars, tables

\* The message at hand is one of the batch, and in the stream.
LEMMA AtHand ==
    ASSUME TypeOK, batch # {}
    PROVE  /\ Min(batch) \in batch /\ Min(batch) \in 1..Len(stream)
           /\ Min(batch) \in pel
           /\ stream[Min(batch)] \in Event
<1>1. batch \subseteq 1..Len(stream) /\ Len(stream) \in Nat
    BY LenProperties DEF TypeOK
<1>2. batch \in SUBSET Nat
    BY <1>1
<1>3. Min(batch) \in batch
    BY <1>2, MinProperties
<1> QED
    BY <1>1, <1>3, ElementOfSeq DEF TypeOK

LEMMA InitType == Init => TypeOK
<1> SUFFICES ASSUME Init PROVE TypeOK
    OBVIOUS
<1>1. /\ MaxCandle \in Nat \ {0} /\ MaxFaults \in Nat
    BY VirtualLedgerAssumption
<1>2. now \in Candle /\ last \in 0..MaxCandle
    BY <1>1 DEF Init, Candle
<1>3. book \in Selection \cup {None}
    BY <1>2 DEF Init, Selection
<1>4. stream \in Seq(Event) /\ delivered \in 0..Len(stream)
    BY DEF Init
<1>5. /\ memory \subseteq Position /\ pel \subseteq 1..delivered
      /\ batch \subseteq pel /\ faults \in 0..MaxFaults
    BY <1>1 DEF Init
<1> QED
    BY <1>2, <1>3, <1>4, <1>5 DEF Init, TypeOK

LEMMA NextType ==
    ASSUME TypeOK, [Next]_vars
    PROVE  TypeOK'
<1> USE DEF runnerVars
<1>1. /\ MaxCandle \in Nat \ {0} /\ now \in Candle /\ None \notin Selection
      /\ now + 1 <= MaxCandle => now + 1 \in Candle
      /\ \A c \in Candle : c \in 0..MaxCandle
      /\ Len(stream) \in Nat /\ Len(stream) <= Len(stream)
    BY VirtualLedgerAssumption, LenProperties DEF TypeOK, Candle
<1>2. \A s \in Selection : BookOf(s) \in Selection /\ s # None
    BY <1>1 DEF BookOf, Selection
<1>3. CASE CandleCloses
    <2>1. now' \in Candle
        BY <1>1, <1>3 DEF CandleCloses, Candle
    <2> QED
        BY <1>3, <2>1 DEF CandleCloses, TypeOK, consumerVars, tables, failures
<1>4. ASSUME NEW s \in Selection, PublishTargetBook(s)
      PROVE  TypeOK'
    BY <1>2, <1>4 DEF PublishTargetBook, TypeOK, consumerVars, tables, failures
<1>5. ASSUME NEW s \in Selection, TargetBookFails(s)
      PROVE  TypeOK'
    <2>1. faults' \in 0..MaxFaults /\ misled' \in BOOLEAN
        BY <1>5, FaultType DEF TargetBookFails
    <2> QED
        BY <1>2, <1>5, <2>1 DEF TargetBookFails, TypeOK, consumerVars, tables
<1>6. CASE Rebalance
    <2>1. selection \in Selection /\ memory \subseteq Position
        BY <1>6 DEF Rebalance, TypeOK
    <2>2. last' \in 0..MaxCandle
        BY <1>1, <1>6, <2>1, OpenedPositions DEF Rebalance
    <2>3. /\ stream' \in Seq(Event) /\ Len(stream) <= Len(stream')
          /\ state' = None \/ state' \subseteq Position
          /\ memory' \subseteq Position
          /\ faults' \in 0..MaxFaults /\ misled' \in BOOLEAN
        BY <1>6, <2>1, PublishType DEF Rebalance
    <2>4. UNCHANGED <<now, book, consumerVars>> /\ runner' = "idle" /\ selection' = None
        BY <1>6 DEF Rebalance
    <2> QED
        BY <2>2, <2>3, <2>4, ConsumerType DEF TypeOK
<1>7. CASE RunnerStops
    <2>1. faults' \in 0..MaxFaults /\ misled' \in BOOLEAN
        BY <1>7, FaultType DEF RunnerStops
    <2> QED
        BY <1>1, <1>7, <2>1 DEF RunnerStops, TypeOK, consumerVars, tables
<1>8. CASE Resumes /\ (Restore \/ Bootstrap \/ RestoreFails)
    <2>1. UNCHANGED <<now, last, selection, book, consumerVars>>
          /\ runner = "down" /\ runner' = "warmup"
        BY <1>8 DEF Resumes
    <2>2. /\ stream' \in Seq(Event) /\ Len(stream) <= Len(stream')
          /\ state' = None \/ state' \subseteq Position
          /\ memory' \subseteq Position
          /\ faults' \in 0..MaxFaults /\ misled' \in BOOLEAN
        <3>1. CASE Restore
            BY <1>1, <3>1 DEF Restore, TypeOK, failures
        <3>2. CASE Bootstrap
            <4>1. CASE book = None
                BY <1>1, <3>2, <4>1 DEF Bootstrap, TypeOK, failures
            <4>2. CASE book # None
                BY <3>2, <4>2, PublishType DEF Bootstrap, TypeOK
            <4> QED
                BY <4>1, <4>2
        <3>3. CASE RestoreFails
            <4>1. faults' \in 0..MaxFaults /\ misled' \in BOOLEAN
                BY <3>3, FaultType DEF RestoreFails
            <4>2. CASE memory' = {} /\ UNCHANGED <<state, stream>>
                BY <1>1, <4>1, <4>2 DEF TypeOK
            <4>3. CASE book # None /\ Executed({}, book)
                       /\ memory' = NextPositions({}, book)
                BY <4>1, <4>3, ExecutedType, OpenedPositions DEF TypeOK
            <4> QED
                BY <3>3, <4>2, <4>3 DEF RestoreFails
        <3> QED
            BY <1>8, <3>1, <3>2, <3>3
    <2> QED
        BY <2>1, <2>2, ConsumerType DEF TypeOK
<1>9. CASE WarmupComplete
    <2>1. /\ last' \in 0..MaxCandle /\ faults' \in 0..MaxFaults
          /\ misled' \in BOOLEAN
        <3>1. 0 \in 0..MaxCandle /\ now \in 0..MaxCandle
            BY <1>1
        <3>2. CASE last' = now /\ NoFault
            BY <3>1, <3>2 DEF NoFault, failures, TypeOK
        <3>3. CASE last' = 0 /\ misled' = TRUE /\ UNCHANGED faults
            BY <3>1, <3>3 DEF TypeOK
        <3> QED
            BY <1>9, <3>2, <3>3 DEF WarmupComplete
    <2> QED
        BY <1>9, <2>1 DEF WarmupComplete, TypeOK, consumerVars, tables
<1>10. CASE Connect
    BY <1>10 DEF Connect, TypeOK, tables, failures
<1>16. CASE ReadPending
    <2>1. batch' \subseteq pel /\ consumer = "up"
        BY <1>16 DEF ReadPending, Reading, FirstOf, TypeOK
    <2>2. recover' \in BOOLEAN
        BY <1>16 DEF ReadPending, TypeOK
    <2> QED
        BY <1>16, <2>1, <2>2 DEF ReadPending, TypeOK, tables, failures
<1>11. CASE ReadNew
    <2>1. /\ delivered \in Nat /\ delivered < Len(stream)
          /\ pel \subseteq 1..delivered
          /\ batch' = FirstOf(delivered + 1 .. Len(stream))
          /\ delivered' = delivered + Cardinality(batch')
          /\ pel' = pel \cup batch'
        BY <1>11 DEF ReadNew, TypeOK
    <2>2. PICK m \in (delivered + 1)..Len(stream) :
              batch' = (delivered + 1)..m /\ delivered' = m
        BY <1>1, <2>1, FirstOfRange
    <2>3. /\ delivered' \in 0..Len(stream)
          /\ pel' \subseteq 1..delivered' /\ batch' \subseteq pel'
        <3>1. m \in 0..Len(stream) /\ (delivered + 1)..m \subseteq 1..m
              /\ 1..delivered \subseteq 1..m
            BY <1>1, <2>1, <2>2
        <3> QED
            BY <2>1, <2>2, <3>1
    <2> QED
        BY <1>11, <2>3 DEF ReadNew, Reading, TypeOK, tables, failures
<1>12. CASE batch # {} /\ \E e \in {stream[Min(batch)]} : Apply(e) \/ RejectEvent(e)
    <2> PICK e \in {stream[Min(batch)]} : Apply(e) \/ RejectEvent(e)
        BY <1>12
    <2>1. e \in Event /\ e.position \in Position
        BY <1>12, AtHand DEF Event
    <2>2. CASE Apply(e)
        BY <1>12, <2>1, <2>2 DEF Apply, AlreadyApplied, ApplyOpen, ApplyClose,
                                 TypeOK, tables, failures
    <2>3. CASE RejectEvent(e)
        BY <2>3 DEF RejectEvent, LeavePending, NoFault, TypeOK, tables, failures
    <2> QED
        BY <2>2, <2>3
<1>13. CASE Ack
    BY <1>13 DEF Ack, TypeOK, tables, failures
<1>14. CASE TransactionFails \/ ConnectionLost
    <2>1. faults' \in 0..MaxFaults /\ misled' \in BOOLEAN
        BY <1>14, FaultType DEF TransactionFails, ConnectionLost
    <2> QED
        BY <1>14, <2>1 DEF TransactionFails, ConnectionLost, LeavePending, TypeOK, tables
<1>15. CASE UNCHANGED vars
    BY <1>15 DEF vars, TypeOK, consumerVars, tables, failures
<1> QED
    BY <1>3, <1>4, <1>5, <1>6, <1>7, <1>8, <1>9, <1>10, <1>11, <1>12, <1>13, <1>14, <1>15,
       <1>16
    DEF Next, Consume, Handle, Restore, Bootstrap, RestoreFails

\* Every variable keeps its type: the batch is pending, what is pending was
\* delivered, what was delivered is in the stream (run_virtual_trade_consumer), and
\* a selection is at hand exactly while _apply_selection is between its two halves.
THEOREM TypeCorrect == Spec => []TypeOK
<1>1. Init => TypeOK
    BY InitType
<1>2. TypeOK /\ [Next]_vars => TypeOK'
    BY NextType
<1> QED
    BY <1>1, <1>2, PTL DEF Spec

-----------------------------------------------------------------------------
(***************************************************************************)
(* 4. The consumer.                                                        *)
(*                                                                         *)
(* What the group no longer holds is applied, and so is the message whose  *)
(* XACK is due.  The three tables say the same: a position with a close    *)
(* event is a trade, one with an open event only is held.                  *)
(***************************************************************************)
AckInv ==
    /\ AckedIsApplied
    /\ consumer = "ack" => stream[Min(batch)] \in events

TableInv ==
    /\ \A i \in 1..Len(stream) :
          stream[i].type = "VIRTUAL_OPEN" => stream[i] = OpenEvent(stream[i].position)
    /\ \A e \in events : \E i \in 1..Len(stream) : stream[i] = e
    /\ \A p \in Position :
          /\ p \in trades <=> \E c \in Candle : CloseEvent(p, c) \in events
          /\ p \in trades => OpenEvent(p) \in events
          /\ p \in positions <=> OpenEvent(p) \in events /\ p \notin trades

\* Whatever moves the stream appends the events of one rebalance to it, and is
\* not a step of the consumer.
Appends ==
    /\ UNCHANGED consumerVars
    /\ \E held \in SUBSET Position, s \in Selection : Executed(held, s)

LEMMA StreamOnlyGrows ==
    ASSUME TypeOK, [Next]_vars
    PROVE  stream' = stream \/ Appends
<1>1. CASE Rebalance
    <2>1. selection \in Selection /\ memory \in SUBSET Position
        BY <1>1 DEF Rebalance, TypeOK
    <2> QED
        BY <1>1, <2>1 DEF Rebalance, Publish, Appends
<1>2. CASE Bootstrap
    <2>1. book = None \/ book \in Selection
        BY DEF TypeOK
    <2>2. {} \in SUBSET Position
        OBVIOUS
    <2> QED
        BY <1>2, <2>1, <2>2 DEF Bootstrap, Resumes, Publish, Appends
<1>3. CASE RestoreFails
    <2>1. book = None \/ book \in Selection
        BY DEF TypeOK
    <2>2. {} \in SUBSET Position
        OBVIOUS
    <2> QED
        BY <1>3, <2>1, <2>2 DEF RestoreFails, Resumes, Appends
<1>4. CASE UNCHANGED stream
    BY <1>4
<1> QED
    BY <1>1, <1>2, <1>3, <1>4
    DEF Next, vars, CandleCloses, PublishTargetBook, TargetBookFails, RunnerStops,
        Restore, WarmupComplete, Consume, Connect, ReadPending, ReadNew, Handle,
        Apply, RejectEvent, LeavePending, Ack, TransactionFails, ConnectionLost

\* What is in the stream stays where it is, and what is added is well formed.
LEMMA ExecutedEvents ==
    ASSUME TypeOK, NEW held \in SUBSET Position, NEW s \in Selection,
           Executed(held, s)
    PROVE  /\ \A i \in 1..Len(stream) : i \in 1..Len(stream') /\ stream'[i] = stream[i]
           /\ \A p \in Closed(held, s) : \E i \in 1..Len(stream') :
                 stream'[i] = CloseEvent(p, s.candle)
           /\ \A p \in Opened(held, s) : \E i \in 1..Len(stream') :
                 stream'[i] = OpenEvent(p)
           /\ \A i \in 1..Len(stream') :
                 \/ i \in 1..Len(stream)
                 \/ /\ i > Len(stream)
                    /\ \/ \E p \in Closed(held, s) : stream'[i] = CloseEvent(p, s.candle)
                       \/ \E p \in Opened(held, s) : stream'[i] = OpenEvent(p)
           /\ \A i, j \in 1..Len(stream') :
                 /\ i > Len(stream) /\ j > Len(stream)
                 /\ stream'[i].type = "VIRTUAL_CLOSE"
                 /\ stream'[j].type = "VIRTUAL_CLOSE"
                 /\ stream'[i].position = stream'[j].position
                 => i = j
<1> DEFINE new == RebalanceEvents(held, s)
           n == Len(stream)
<1>1. stream \in Seq(Event) /\ new \in Seq(Event) /\ stream' = stream \o new
    BY RebalanceEventsProperties DEF TypeOK, Executed
<1> HIDE DEF new
<1>2. /\ n \in Nat
      /\ \A i \in 1..n : i \in 1..Len(stream') /\ stream'[i] = stream[i]
      /\ \A i \in 1..Len(new) : /\ n + i \in 1..Len(stream')
                                /\ stream'[n + i] = new[i]
      /\ \A i \in 1..Len(stream') :
            \/ i \in 1..n
            \/ i - n \in 1..Len(new) /\ stream'[i] = new[i - n]
    BY <1>1, ConcatElements
<1>3. /\ \A p \in Closed(held, s) :
            \E i \in 1..Len(new) : new[i] = CloseEvent(p, s.candle)
      /\ \A p \in Opened(held, s) : \E i \in 1..Len(new) : new[i] = OpenEvent(p)
      /\ \A i \in 1..Len(new) :
            \/ \E p \in Closed(held, s) : new[i] = CloseEvent(p, s.candle)
            \/ \E p \in Opened(held, s) : new[i] = OpenEvent(p)
      /\ \A i, j \in 1..Len(new) :
            /\ new[i].type = "VIRTUAL_CLOSE" /\ new[j].type = "VIRTUAL_CLOSE"
            /\ new[i].position = new[j].position
            => i = j
    BY RebalanceEventsProperties DEF new
<1> HIDE DEF n
<1>4. \A i \in 1..Len(stream') : i \in 1..n \/ (i > n /\ i - n \in 1..Len(new))
    BY <1>2
<1>5. \A p \in Closed(held, s) :
          \E i \in 1..Len(stream') : stream'[i] = CloseEvent(p, s.candle)
    <2> TAKE p \in Closed(held, s)
    <2>1. PICK i \in 1..Len(new) : new[i] = CloseEvent(p, s.candle)
        BY <1>3
    <2> QED
        BY <1>2, <2>1
<1>6. \A p \in Opened(held, s) : \E i \in 1..Len(stream') : stream'[i] = OpenEvent(p)
    <2> TAKE p \in Opened(held, s)
    <2>1. PICK i \in 1..Len(new) : new[i] = OpenEvent(p)
        BY <1>3
    <2> QED
        BY <1>2, <2>1
<1>7. ASSUME NEW i \in 1..Len(stream'), i \notin 1..n
      PROVE  /\ i > n
             /\ \/ \E p \in Closed(held, s) : stream'[i] = CloseEvent(p, s.candle)
                \/ \E p \in Opened(held, s) : stream'[i] = OpenEvent(p)
    <2>1. i > n /\ i - n \in 1..Len(new) /\ stream'[i] = new[i - n]
        BY <1>2, <1>4, <1>7
    <2> QED
        BY <1>3, <2>1
<1>8. ASSUME NEW i \in 1..Len(stream'), NEW j \in 1..Len(stream'), i > n, j > n,
             stream'[i].type = "VIRTUAL_CLOSE", stream'[j].type = "VIRTUAL_CLOSE",
             stream'[i].position = stream'[j].position
      PROVE  i = j
    <2>1. /\ i - n \in 1..Len(new) /\ stream'[i] = new[i - n]
          /\ j - n \in 1..Len(new) /\ stream'[j] = new[j - n]
        <3>1. i \notin 1..n /\ j \notin 1..n
            BY <1>2, <1>8
        <3> QED
            BY <1>2, <3>1
    <2>2. i - n = j - n
        BY <1>3, <1>8, <2>1
    <2> QED
        BY <1>2, <2>2
<1> QED
    BY <1>2, <1>5, <1>6, <1>7, <1>8 DEF n

LEMMA NextAck ==
    ASSUME TypeOK, AckInv, [Next]_vars
    PROVE  AckInv'
<1>1. CASE Appends
    <2>1. PICK held \in SUBSET Position, s \in Selection : Executed(held, s)
        BY <1>1 DEF Appends
    <2>2. \A i \in 1..Len(stream) : stream'[i] = stream[i]
        BY <2>1, ExecutedEvents
    <2>3. UNCHANGED <<delivered, pel, consumer, batch, events>>
        BY <1>1 DEF Appends, consumerVars, tables
    <2>4. Len(stream) \in Nat /\ 1..delivered \subseteq 1..Len(stream)
        BY LenProperties DEF TypeOK
    <2>5. consumer = "ack" => Min(batch) \in 1..Len(stream)
        BY AtHand DEF TypeOK
    <2> QED
        BY <2>2, <2>3, <2>4, <2>5 DEF AckInv, AckedIsApplied
<1>2. CASE ReadNew
    <2>1. /\ delivered \in Nat /\ delivered < Len(stream) /\ Len(stream) \in Nat
          /\ batch' = FirstOf(delivered + 1 .. Len(stream))
          /\ delivered' = delivered + Cardinality(batch')
          /\ pel' = pel \cup batch'
        BY <1>2, LenProperties DEF ReadNew, TypeOK
    <2>2. PICK m \in (delivered + 1)..Len(stream) :
              batch' = (delivered + 1)..m /\ delivered' = m
        BY <2>1, FirstOfRange
    <2>3. (1..delivered') \ pel' \subseteq (1..delivered) \ pel
        BY <2>1, <2>2
    <2> QED
        BY <1>2, <2>3 DEF ReadNew, Reading, AckInv, AckedIsApplied, tables
<1>3. ASSUME batch # {}, NEW e, e = stream[Min(batch)], Apply(e) \/ RejectEvent(e)
      PROVE  AckInv'
    <2>1. UNCHANGED <<stream, delivered, pel>> /\ events \subseteq events'
        BY <1>3 DEF Apply, AlreadyApplied, ApplyOpen, ApplyClose, RejectEvent,
                    LeavePending, tables
    <2>2. AckedIsApplied'
        BY <2>1 DEF AckInv, AckedIsApplied
    <2>3. CASE Apply(e)
        <3>1. e \in events' /\ batch' = batch
            BY <2>3 DEF Apply, AlreadyApplied, ApplyOpen, ApplyClose, tables
        <3> QED
            BY <1>3, <2>1, <2>2, <3>1 DEF AckInv
    <2>4. CASE RejectEvent(e)
        BY <2>2, <2>4 DEF RejectEvent, LeavePending, AckInv
    <2> QED
        BY <1>3, <2>3, <2>4
<1>4. CASE Ack
    <2>1. batch # {} /\ stream[Min(batch)] \in events
        BY <1>4 DEF Ack, TypeOK, AckInv
    <2> QED
        BY <1>4, <2>1 DEF Ack, AckInv, AckedIsApplied, tables
<1>5. CASE Connect \/ ReadPending \/ TransactionFails \/ ConnectionLost
    BY <1>5 DEF Connect, ReadPending, Reading, TransactionFails, LeavePending,
                ConnectionLost, AckInv, AckedIsApplied, tables
<1>6. CASE UNCHANGED <<stream, consumerVars>>
    BY <1>6 DEF AckInv, AckedIsApplied, consumerVars, tables
<1> QED
    BY <1>1, <1>2, <1>3, <1>4, <1>5, <1>6, StreamOnlyGrows
    DEF Next, vars, CandleCloses, PublishTargetBook, TargetBookFails, Rebalance,
        RunnerStops, Restore, Bootstrap, RestoreFails, Resumes, WarmupComplete,
        Consume, Handle

\* Whatever the group no longer holds has been applied: neither a lost
\* connection nor a failed transaction loses an event (XACK after COMMIT, and
\* the "continue" of run_virtual_trade_consumer).
THEOREM AcknowledgedIsApplied == Spec => []AckedIsApplied
<1>1. Init => AckInv
    BY DEF Init, AckInv, AckedIsApplied
<1>2. TypeOK /\ AckInv /\ [Next]_vars => AckInv'
    BY NextAck
<1>3. AckInv => AckedIsApplied
    BY DEF AckInv
<1> QED
    BY <1>1, <1>2, <1>3, TypeCorrect, PTL DEF Spec

\* One event of the stream, applied: the rows of other positions stay.
LEMMA ApplyKeepsTables ==
    ASSUME TypeOK, TableInv, NEW i \in 1..Len(stream), NEW e, e = stream[i],
           ApplyOpen(e) \/ ApplyClose(e), stream' = stream
    PROVE  TableInv'
<1>1. e \in Event /\ e.position \in Position /\ e.candle \in Candle
    <2>1. e \in Event
        BY ElementOfSeq DEF TypeOK
    <2> QED
        BY <2>1 DEF Event
<1>2. \A f \in events' : \E j \in 1..Len(stream) : stream[j] = f
    BY DEF TableInv, ApplyOpen, ApplyClose
<1>3. \A p \in Position, q \in Position, c \in Candle : OpenEvent(p) # CloseEvent(q, c)
    BY DEF OpenEvent, CloseEvent
<1>4. CASE ApplyOpen(e)
    <2>1. e = OpenEvent(e.position)
        BY <1>4 DEF TableInv, ApplyOpen
    <2>2. /\ positions' = positions \cup {e.position}
          /\ events' = events \cup {e} /\ trades' = trades /\ e \notin events
        BY <1>4 DEF ApplyOpen
    <2>3. \A p \in Position : OpenEvent(p) = e <=> p = e.position
        BY <2>1 DEF OpenEvent
    <2>4. \A p \in Position, c \in Candle : CloseEvent(p, c) # e
        BY <1>1, <1>3, <2>1
    <2>5. e.position \notin trades
        BY <1>1, <2>1, <2>2 DEF TableInv
    <2> QED
        BY <1>2, <2>1, <2>2, <2>3, <2>4, <2>5 DEF TableInv
<1>5. CASE ApplyClose(e)
    <2>1. e = CloseEvent(e.position, e.candle)
        BY <1>1, <1>5 DEF ApplyClose, CloseEvent, Event
    <2>2. /\ positions' = positions \ {e.position}
          /\ trades' = trades \cup {e.position}
          /\ events' = events \cup {e}
          /\ e.position \in positions
        BY <1>5 DEF ApplyClose, CanClose
    <2>3. \A p \in Position : OpenEvent(p) # e
        BY <1>1, <1>3, <2>1
    <2>4. \A p \in Position, c \in Candle : CloseEvent(p, c) = e => p = e.position
        BY <2>1 DEF CloseEvent
    <2>5. OpenEvent(e.position) \in events
        BY <1>1, <2>2 DEF TableInv
    <2>6. \A p \in Position : p \in trades' <=> \E c \in Candle : CloseEvent(p, c) \in events'
        BY <1>1, <2>1, <2>2, <2>4 DEF TableInv
    <2>7. \A p \in Position : OpenEvent(p) \in events' <=> OpenEvent(p) \in events
        BY <2>2, <2>3
    <2>8. \A p \in Position : p \in trades' => OpenEvent(p) \in events'
        BY <2>2, <2>5, <2>7 DEF TableInv
    <2>9. \A p \in Position : p \in positions' <=> OpenEvent(p) \in events' /\ p \notin trades'
        BY <2>2, <2>7 DEF TableInv
    <2> QED
        BY <1>2, <2>6, <2>8, <2>9 DEF TableInv
<1> QED
    BY <1>4, <1>5

LEMMA NextTables ==
    ASSUME TypeOK, TableInv, [Next]_vars
    PROVE  TableInv'
<1>1. CASE Appends
    <2>1. PICK held \in SUBSET Position, s \in Selection : Executed(held, s)
        BY <1>1 DEF Appends
    <2>2. UNCHANGED tables
        BY <1>1 DEF Appends, consumerVars
    <2>3. \A i \in 1..Len(stream) : i \in 1..Len(stream') /\ stream'[i] = stream[i]
        BY <2>1, ExecutedEvents
    <2>4. ASSUME NEW i \in 1..Len(stream'), stream'[i].type = "VIRTUAL_OPEN"
          PROVE  stream'[i] = OpenEvent(stream'[i].position)
        <3>1. CASE i \in 1..Len(stream)
            BY <2>3, <2>4, <3>1 DEF TableInv
        <3>2. CASE \E p \in Closed(held, s) : stream'[i] = CloseEvent(p, s.candle)
            BY <2>4, <3>2 DEF CloseEvent
        <3>3. CASE \E p \in Opened(held, s) : stream'[i] = OpenEvent(p)
            BY <3>3 DEF OpenEvent
        <3> QED
            BY <2>1, <3>1, <3>2, <3>3, ExecutedEvents
    <2>5. \A e \in events : \E i \in 1..Len(stream') : stream'[i] = e
        <3> TAKE e \in events
        <3>1. PICK i \in 1..Len(stream) : stream[i] = e
            BY DEF TableInv
        <3> QED
            BY <2>3, <3>1
    <2> QED
        BY <2>2, <2>4, <2>5 DEF TableInv, tables
<1>2. ASSUME batch # {}, NEW e, e = stream[Min(batch)], Apply(e) \/ RejectEvent(e)
      PROVE  TableInv'
    <2>1. Min(batch) \in 1..Len(stream) /\ stream' = stream
        BY <1>2, AtHand DEF Apply, RejectEvent, LeavePending
    <2>2. CASE ApplyOpen(e) \/ ApplyClose(e)
        BY <1>2, <2>1, <2>2, ApplyKeepsTables
    <2>3. CASE UNCHANGED tables
        BY <2>1, <2>3 DEF TableInv, tables
    <2> QED
        BY <1>2, <2>2, <2>3 DEF Apply, AlreadyApplied, RejectEvent, LeavePending
<1>3. CASE UNCHANGED <<stream, tables>>
    BY <1>3 DEF TableInv, tables
<1> QED
    BY <1>1, <1>2, <1>3, StreamOnlyGrows
    DEF Next, vars, consumerVars, CandleCloses, PublishTargetBook, TargetBookFails,
        Rebalance, RunnerStops, Restore, Bootstrap, RestoreFails, Resumes,
        WarmupComplete, Consume, Connect, ReadPending, ReadNew, Handle, Ack,
        TransactionFails, LeavePending, ConnectionLost

LEMMA InitTables == Init => TableInv
BY DEF Init, TableInv

\* A position that was closed is never open again, whatever is published twice,
\* redelivered or failed (the event_id check of apply_virtual_trade_event).
THEOREM TablesStayConsistent == Spec => []TablesConsistent
<1>1. TypeOK /\ TableInv /\ [Next]_vars => TableInv'
    BY NextTables
<1>2. TypeOK /\ TableInv => TablesConsistent
    BY DEF TypeOK, TableInv, TablesConsistent, NeverReopened
<1> QED
    BY <1>1, <1>2, InitTables, TypeCorrect, PTL DEF Spec

-----------------------------------------------------------------------------
(***************************************************************************)
(* 5. The publisher.                                                       *)
(*                                                                         *)
(* A runner that was not misled holds what its Redis state says, and every *)
(* event in the stream is older than the candle it will rebalance on next: *)
(* that is why the ids of a rebalance are new.                             *)
(***************************************************************************)
LedgerState == IF state = None THEN {} ELSE state

Dated ==
    /\ book # None => book.candle <= now
    /\ last <= now
    /\ state = None => Len(stream) = 0
    /\ \A i \in 1..Len(stream) : stream[i].candle <= now
    /\ runner = "rebalance" => selection.candle <= now

InStep ==
    /\ runner # "down" => memory = LedgerState
    /\ StateMatchesStream
    /\ EveryCloseFindsItsPosition

NextIsNewer ==
    /\ runner = "idle" => \A i \in 1..Len(stream) : stream[i].candle <= last
    /\ runner = "rebalance" =>
          \A i \in 1..Len(stream) : stream[i].candle < selection.candle

PublisherInv == Dated /\ (misled \/ (InStep /\ NextIsNewer))

LEMMA PublishedIndex ==
    ASSUME TypeOK
    PROVE  \A e : Published(e) <=> \E i \in 1..Len(stream) : stream[i] = e
<1>1. DOMAIN stream = 1..Len(stream)
    BY LenProperties DEF TypeOK
<1> QED
    BY <1>1 DEF Published, Range

\* An executed rebalance on a newer candle keeps stream and state in step.
LEMMA ExecutedKeepsBooks ==
    ASSUME TypeOK, TypeOK', NEW s \in Selection, Executed(LedgerState, s),
           StateMatchesStream, EveryCloseFindsItsPosition,
           \A i \in 1..Len(stream) : stream[i].candle < s.candle
    PROVE  /\ StateMatchesStream' /\ EveryCloseFindsItsPosition'
           /\ LedgerState' = NextPositions(LedgerState, s)
<1> DEFINE held == LedgerState
           C == Closed(held, s)
           O == Opened(held, s)
<1>1. held \in SUBSET Position /\ held = OpenInStream
    BY DEF TypeOK, LedgerState, StateMatchesStream
<1>2. /\ s.candle \in Candle /\ O \subseteq Position /\ C \subseteq held
      /\ \A p \in O : p.candle = s.candle
      /\ NextPositions(held, s) = (held \ C) \cup O
      /\ NextPositions(held, s) \subseteq Position
    BY <1>1, OpenedPositions
<1>3. /\ \A i \in 1..Len(stream) : i \in 1..Len(stream') /\ stream'[i] = stream[i]
      /\ \A p \in C : \E i \in 1..Len(stream') : stream'[i] = CloseEvent(p, s.candle)
      /\ \A p \in O : \E i \in 1..Len(stream') : stream'[i] = OpenEvent(p)
      /\ \A i \in 1..Len(stream') :
            \/ i \in 1..Len(stream)
            \/ /\ i > Len(stream)
               /\ \/ \E p \in C : stream'[i] = CloseEvent(p, s.candle)
                  \/ \E p \in O : stream'[i] = OpenEvent(p)
      /\ \A i, j \in 1..Len(stream') :
            /\ i > Len(stream) /\ j > Len(stream)
            /\ stream'[i].type = "VIRTUAL_CLOSE" /\ stream'[j].type = "VIRTUAL_CLOSE"
            /\ stream'[i].position = stream'[j].position
            => i = j
    BY <1>1, ExecutedEvents
<1>4. state' = NextPositions(held, s) /\ state' # None
    BY <1>2, VirtualLedgerAssumption DEF Executed
<1> HIDE DEF held, C, O
<1>5. /\ \A e : Published(e) <=> \E i \in 1..Len(stream) : stream[i] = e
      /\ \A e : Published(e)' <=> \E i \in 1..Len(stream') : stream'[i] = e
    <2>1. DOMAIN stream = 1..Len(stream) /\ DOMAIN stream' = 1..Len(stream')
        BY LenProperties DEF TypeOK
    <2> QED
        BY <2>1 DEF Published, Range
<1>6. /\ \A p, q, c : OpenEvent(p) # CloseEvent(q, c)
      /\ \A p, q : OpenEvent(p) = OpenEvent(q) => p = q
      /\ \A p, q, c, d : CloseEvent(p, c) = CloseEvent(q, d) => p = q /\ c = d
      /\ \A p, c : /\ CloseEvent(p, c).type = "VIRTUAL_CLOSE"
                   /\ CloseEvent(p, c).position = p
      /\ \A p : OpenEvent(p).type = "VIRTUAL_OPEN" /\ OpenEvent(p).candle = p.candle
    BY DEF OpenEvent, CloseEvent
<1>7. \A p \in Position : Published(OpenEvent(p))' <=> Published(OpenEvent(p)) \/ p \in O
    <2> TAKE p \in Position
    <2>1. Published(OpenEvent(p)) \/ p \in O => Published(OpenEvent(p))'
        BY <1>3, <1>5
    <2>2. ASSUME NEW i \in 1..Len(stream'), stream'[i] = OpenEvent(p)
          PROVE  Published(OpenEvent(p)) \/ p \in O
        BY <1>3, <1>5, <1>6, <2>2
    <2> QED
        BY <1>5, <2>1, <2>2
<1>8. \A p \in Position, c \in Candle :
         Published(CloseEvent(p, c))' <=>
             Published(CloseEvent(p, c)) \/ (p \in C /\ c = s.candle)
    <2> TAKE p \in Position, c \in Candle
    <2>1. Published(CloseEvent(p, c)) \/ (p \in C /\ c = s.candle)
              => Published(CloseEvent(p, c))'
        BY <1>3, <1>5
    <2>2. ASSUME NEW i \in 1..Len(stream'), stream'[i] = CloseEvent(p, c)
          PROVE  Published(CloseEvent(p, c)) \/ (p \in C /\ c = s.candle)
        BY <1>3, <1>5, <1>6, <2>2
    <2> QED
        BY <1>5, <2>1, <2>2
<1>9. \A p \in O : ~Published(OpenEvent(p))
    <2>1. \A i \in 1..Len(stream) : stream[i].candle # s.candle
        <3>1. \A i \in 1..Len(stream) : stream[i] \in Event
            BY ElementOfSeq DEF TypeOK
        <3>2. \A i \in 1..Len(stream) : stream[i].candle \in Int
            BY <3>1 DEF Event, Candle
        <3> QED
            BY <1>2, <3>2 DEF Candle
    <2> QED
        BY <1>2, <1>5, <1>6, <2>1
<1>10. \A p \in Position, c \in Candle : Published(CloseEvent(p, c)) => Published(OpenEvent(p))
    <2> TAKE p \in Position, c \in Candle
    <2> HAVE Published(CloseEvent(p, c))
    <2>1. PICK i \in 1..Len(stream) : stream[i] = CloseEvent(p, c)
        BY <1>5
    <2>2. PICK j \in 1..i-1 : stream[j] = OpenEvent(p)
        BY <1>6, <2>1 DEF EveryCloseFindsItsPosition
    <2>3. j \in 1..Len(stream)
        BY LenProperties DEF TypeOK
    <2> QED
        BY <1>5, <2>2, <2>3
<1>11. StateMatchesStream'
    <2>1. \A p : p \in held <=> /\ p \in Position /\ Published(OpenEvent(p))
                                /\ \A c \in Candle : ~Published(CloseEvent(p, c))
        BY <1>1 DEF OpenInStream
    <2>2. \A p : p \in OpenInStream' <=>
                    /\ p \in Position /\ Published(OpenEvent(p))'
                    /\ \A c \in Candle : ~Published(CloseEvent(p, c))'
        BY DEF OpenInStream
    <2>3. \A p : p \in OpenInStream' <=> (p \in held /\ p \notin C) \/ p \in O
        BY <1>2, <1>7, <1>8, <1>9, <1>10, <2>1, <2>2
    <2>4. OpenInStream' = NextPositions(held, s)
        BY <1>2, <2>3
    <2> QED
        BY <1>4, <2>4 DEF StateMatchesStream
<1>12. EveryCloseFindsItsPosition'
    <2>1. SUFFICES ASSUME NEW i \in 1..Len(stream'), stream'[i].type = "VIRTUAL_CLOSE"
                   PROVE  /\ \E j \in 1..i-1 : stream'[j] = OpenEvent(stream'[i].position)
                          /\ \A j \in 1..i-1 : stream'[j].type = "VIRTUAL_CLOSE" =>
                                 stream'[j].position # stream'[i].position
        BY DEF EveryCloseFindsItsPosition
    <2>2. Len(stream) \in Nat /\ Len(stream') \in Nat
        BY LenProperties DEF TypeOK
    <2>3. CASE i \in 1..Len(stream)
        <3>1. \A j \in 1..i-1 : j \in 1..Len(stream) /\ stream'[j] = stream[j]
            BY <1>3, <2>2, <2>3
        <3>2. stream'[i] = stream[i]
            BY <1>3, <2>3
        <3> QED
            BY <2>1, <2>3, <3>1, <3>2 DEF EveryCloseFindsItsPosition
    <2>4. CASE i \notin 1..Len(stream)
        <3>1. i > Len(stream)
            BY <1>3, <2>4
        <3>2. PICK p \in C : stream'[i] = CloseEvent(p, s.candle)
            BY <1>3, <1>6, <2>1, <2>4
        <3>3. p \in Position /\ Published(OpenEvent(p))
              /\ \A c \in Candle : ~Published(CloseEvent(p, c))
            BY <1>1, <1>2 DEF OpenInStream
        <3>4. PICK j \in 1..Len(stream) : stream[j] = OpenEvent(p)
            BY <1>5, <3>3
        <3>5. j \in 1..i-1 /\ stream'[j] = OpenEvent(p)
            BY <1>3, <2>2, <3>1, <3>4
        <3>6. ASSUME NEW k \in 1..i-1, stream'[k].type = "VIRTUAL_CLOSE",
                     stream'[k].position = p
              PROVE  FALSE
            <4>1. k \in 1..Len(stream') /\ k # i
                BY <2>2
            <4>2. CASE k \in 1..Len(stream)
                <5>1. stream[k] \in Event /\ stream[k] = stream'[k]
                    BY <1>3, <4>2, ElementOfSeq DEF TypeOK
                <5>2. stream[k] = CloseEvent(p, stream[k].candle)
                      /\ stream[k].candle \in Candle
                    BY <3>6, <5>1 DEF Event, CloseEvent
                <5> QED
                    BY <1>5, <3>3, <4>2, <5>2
            <4>3. CASE k \notin 1..Len(stream)
                BY <1>3, <1>6, <2>1, <3>1, <3>2, <3>6, <4>1, <4>3
            <4> QED
                BY <4>2, <4>3
        <3> QED
            BY <1>6, <3>2, <3>5, <3>6
    <2> QED
        BY <2>3, <2>4
<1> QED
    BY <1>4, <1>11, <1>12 DEF LedgerState, held

\* The candles of the events after a rebalance at s.
LEMMA ExecutedCandles ==
    ASSUME TypeOK, NEW held \in SUBSET Position, NEW s \in Selection,
           Executed(held, s), NEW c \in Candle, s.candle <= c,
           \A i \in 1..Len(stream) : stream[i].candle <= c
    PROVE  \A i \in 1..Len(stream') : stream'[i].candle <= c
<1>1. \A p \in Opened(held, s) : OpenEvent(p).candle = s.candle
    BY OpenedPositions DEF OpenEvent
<1>2. \A p : CloseEvent(p, s.candle).candle = s.candle
    BY DEF CloseEvent
<1>3. ASSUME NEW i \in 1..Len(stream')
      PROVE  stream'[i].candle <= c
    <2>1. \/ i \in 1..Len(stream) /\ stream'[i] = stream[i]
          \/ \E p \in Closed(held, s) : stream'[i] = CloseEvent(p, s.candle)
          \/ \E p \in Opened(held, s) : stream'[i] = OpenEvent(p)
        BY ExecutedEvents
    <2>2. CASE i \in 1..Len(stream) /\ stream'[i] = stream[i]
        BY <2>2
    <2>3. CASE \E p \in Closed(held, s) : stream'[i] = CloseEvent(p, s.candle)
        <3>1. stream'[i].candle = s.candle
            BY <1>2, <2>3
        <3> QED
            BY <3>1
    <2>4. CASE \E p \in Opened(held, s) : stream'[i] = OpenEvent(p)
        <3>1. stream'[i].candle = s.candle
            BY <1>1, <2>4
        <3> QED
            BY <3>1
    <2> QED
        BY <2>1, <2>2, <2>3, <2>4
<1> QED
    BY <1>3

\* A runner that was misled stays so.
LEMMA MisledStays ==
    ASSUME TypeOK, [Next]_vars
    PROVE  misled => misled'
BY DEF TypeOK, Next, vars, failures, CandleCloses, PublishTargetBook, TargetBookFails,
       Rebalance, Publish, RunnerStops, Restore, Bootstrap, RestoreFails, Resumes,
       WarmupComplete, Consume, Connect, ReadPending, ReadNew, Handle, Apply,
       RejectEvent, LeavePending, Ack, TransactionFails, ConnectionLost, NoFault, Fault

\* The state of a ledger that does not exist is empty, and so is the stream.
LEMMA EmptyLedger ==
    ASSUME TypeOK, Dated, state = None
    PROVE  /\ LedgerState = {} /\ 1..Len(stream) = {}
           /\ StateMatchesStream /\ EveryCloseFindsItsPosition
<1>1. 1..Len(stream) = {} /\ \A e : ~Published(e)
    BY PublishedIndex DEF Dated
<1> QED
    BY <1>1 DEF LedgerState, StateMatchesStream, OpenInStream, EveryCloseFindsItsPosition

\* Steps that leave stream and state alone.
LEMMA QuietStep ==
    ASSUME UNCHANGED <<stream, state>>
    PROVE  /\ LedgerState' = LedgerState
           /\ StateMatchesStream => StateMatchesStream'
           /\ EveryCloseFindsItsPosition => EveryCloseFindsItsPosition'
BY DEF LedgerState, StateMatchesStream, OpenInStream, Published,
       EveryCloseFindsItsPosition

\* The candles are numbers.
LEMMA CandleNumbers ==
    ASSUME TypeOK
    PROVE  /\ now \in Candle /\ now \in Int /\ 0 <= now /\ last \in Int
           /\ \A i \in 1..Len(stream) : stream[i].candle \in Int
           /\ \A s \in Selection : s.candle \in Candle /\ s.candle \in Int /\ s # None
           /\ book # None => book.candle \in Int
           /\ runner = "rebalance" => selection \in Selection
<1>1. \A i \in 1..Len(stream) : stream[i] \in Event
    BY ElementOfSeq DEF TypeOK
<1>2. \A i \in 1..Len(stream) : stream[i].candle \in Int
    BY <1>1 DEF Candle, Event
<1>3. \A s \in Selection : s.candle \in Candle /\ s.candle \in Int /\ s # None
    BY VirtualLedgerAssumption DEF Selection, Candle
<1> QED
    BY <1>2, <1>3 DEF TypeOK, Candle

LEMMA NextDated ==
    ASSUME TypeOK, Dated, [Next]_vars
    PROVE  Dated'
<1>1. TypeOK'
    BY NextType
<1>2. \A s \in Selection : BookOf(s).candle = s.candle
    BY DEF BookOf, Selection
<1>3. CASE Appends /\ UNCHANGED <<now, book>> /\ last' <= now /\ runner' # "rebalance"
           /\ \E held \in SUBSET Position, s \in Selection :
                 Executed(held, s) /\ s.candle <= now
    <2>1. PICK held \in SUBSET Position, s \in Selection :
              Executed(held, s) /\ s.candle <= now
        BY <1>3
    <2>2. \A i \in 1..Len(stream') : stream'[i].candle <= now
        BY <2>1, CandleNumbers, ExecutedCandles DEF Dated
    <2>3. state' # None
        BY <2>1, OpenedPositions, VirtualLedgerAssumption DEF Executed
    <2> QED
        BY <1>3, <2>2, <2>3 DEF Dated
<1>4. CASE UNCHANGED <<stream, state, now, book, last>> /\ runner' # "rebalance"
    BY <1>4 DEF Dated
<1>5. CASE CandleCloses
    <2>1. now' = now + 1 /\ UNCHANGED <<last, selection, runner, book, stream, state>>
        BY <1>5 DEF CandleCloses, runnerVars
    <2> QED
        BY <2>1, CandleNumbers DEF Dated
<1>6. ASSUME NEW s \in Selection, PublishTargetBook(s)
      PROVE  Dated'
    <2>1. s.candle = now /\ book' = BookOf(s) /\ selection' = s
          /\ UNCHANGED <<now, last, stream, state>>
        BY <1>6 DEF PublishTargetBook
    <2> QED
        BY <1>2, <2>1, CandleNumbers DEF Dated
<1>7. ASSUME NEW s \in Selection, TargetBookFails(s)
      PROVE  Dated'
    <2>1. s.candle = now /\ book' \in {book, BookOf(s)}
          /\ UNCHANGED <<now, last, runner, selection, stream, state>>
        BY <1>7 DEF TargetBookFails, runnerVars
    <2>2. book' # None => book'.candle <= now
        BY <1>2, <2>1, CandleNumbers DEF Dated
    <2> QED
        BY <2>1, <2>2 DEF Dated
<1>8. CASE Rebalance
    <2>1. /\ selection \in Selection /\ memory \in SUBSET Position
          /\ last' = selection.candle /\ runner' = "idle" /\ UNCHANGED <<now, book>>
          /\ Publish(memory, selection) /\ selection.candle <= now
          /\ UNCHANGED consumerVars
        BY <1>8 DEF Rebalance, TypeOK, Dated
    <2>2. CASE Executed(memory, selection)
        BY <1>3, <2>1, <2>2 DEF Appends
    <2>3. CASE UNCHANGED <<stream, state>>
        BY <2>1, <2>3 DEF Dated
    <2> QED
        BY <2>1, <2>2, <2>3 DEF Publish
<1>9. CASE RunnerStops
    <2>1. runner' = "down" /\ last' = 0 /\ UNCHANGED <<now, book, stream, state>>
        BY <1>9 DEF RunnerStops
    <2> QED
        BY <2>1, CandleNumbers DEF Dated
<1>10. CASE Restore \/ Bootstrap \/ RestoreFails
    <2>1. runner' = "warmup" /\ UNCHANGED <<now, last, book, consumerVars>>
        BY <1>10 DEF Restore, Bootstrap, RestoreFails, Resumes
    <2>2. CASE book # None /\ Executed({}, book)
        <3>1. book \in Selection /\ book.candle <= now /\ {} \in SUBSET Position
            BY <2>2 DEF TypeOK, Dated
        <3> QED
            BY <1>3, <2>1, <2>2, <3>1 DEF Appends, Dated
    <2>3. CASE UNCHANGED <<stream, state>>
        BY <1>4, <2>1, <2>3
    <2> QED
        BY <1>10, <2>2, <2>3 DEF Restore, Bootstrap, RestoreFails, Publish
<1>11. CASE WarmupComplete
    <2>1. /\ runner' = "idle" /\ UNCHANGED <<now, book, stream, state>>
          /\ (last' = now) \/ (last' = 0)
        BY <1>11 DEF WarmupComplete
    <2> QED
        BY <2>1, CandleNumbers DEF Dated
<1>12. CASE UNCHANGED <<now, runnerVars, state, book, stream>>
    BY <1>12 DEF Dated, runnerVars
<1> QED
    BY <1>5, <1>6, <1>7, <1>8, <1>9, <1>10, <1>11, <1>12
    DEF Next, vars, Consume, Connect, ReadPending, ReadNew, Handle, Apply,
        RejectEvent, LeavePending, Ack, TransactionFails, ConnectionLost

LEMMA NextInStep ==
    ASSUME TypeOK, Dated, InStep, NextIsNewer, [Next]_vars, ~misled'
    PROVE  InStep' /\ NextIsNewer'
<1>1. TypeOK'
    BY NextType
<1>2. CASE CandleCloses
    <2>1. UNCHANGED <<last, selection, runner, memory, stream, state>>
        BY <1>2 DEF CandleCloses, runnerVars
    <2> QED
        BY <2>1, QuietStep DEF InStep, NextIsNewer
<1>3. ASSUME NEW s \in Selection, PublishTargetBook(s)
      PROVE  InStep' /\ NextIsNewer'
    <2>1. /\ runner = "idle" /\ s.candle = now /\ now > last
          /\ runner' = "rebalance" /\ selection' = s
          /\ UNCHANGED <<memory, last, stream, state>>
        BY <1>3 DEF PublishTargetBook
    <2>2. \A i \in 1..Len(stream) : stream[i].candle < s.candle
        BY <2>1, CandleNumbers DEF NextIsNewer
    <2> QED
        BY <2>1, <2>2, QuietStep DEF InStep, NextIsNewer
<1>4. ASSUME NEW s \in Selection, TargetBookFails(s)
      PROVE  InStep' /\ NextIsNewer'
    <2>1. UNCHANGED <<last, selection, runner, memory, stream, state>>
        BY <1>4 DEF TargetBookFails, runnerVars
    <2> QED
        BY <2>1, QuietStep DEF InStep, NextIsNewer
<1>5. CASE Rebalance
    <2>1. runner = "rebalance" /\ selection \in Selection
        BY <1>5 DEF Rebalance, TypeOK
    <2>2. PICK s \in Selection : s = selection
        BY <2>1
    <2>3. /\ last' = s.candle /\ runner' = "idle" /\ Publish(memory, s)
          /\ memory = LedgerState
          /\ \A i \in 1..Len(stream) : stream[i].candle < s.candle
        BY <1>5, <2>1, <2>2 DEF Rebalance, InStep, NextIsNewer
    <2>4. /\ s.candle \in Candle
          /\ \A i \in 1..Len(stream) : stream[i].candle <= s.candle
        BY <2>3, CandleNumbers
    <2>5. CASE Executed(memory, s) /\ memory' = NextPositions(memory, s)
        <3>1. /\ StateMatchesStream' /\ EveryCloseFindsItsPosition'
              /\ LedgerState' = NextPositions(memory, s)
            BY <1>1, <2>3, <2>5, ExecutedKeepsBooks DEF InStep
        <3>2. memory \in SUBSET Position /\ s.candle <= s.candle
            BY <2>4, CandleNumbers DEF TypeOK
        <3>3. \A i \in 1..Len(stream') : stream'[i].candle <= s.candle
            BY <2>4, <2>5, <3>2, ExecutedCandles
        <3> QED
            BY <2>3, <2>5, <3>1, <3>3 DEF InStep, NextIsNewer
    <2>6. CASE memory' = memory /\ UNCHANGED <<stream, state>>
        BY <2>3, <2>4, <2>6, QuietStep DEF InStep, NextIsNewer
    <2> QED
        BY <2>3, <2>5, <2>6 DEF Publish, Fault
<1>6. CASE RunnerStops
    <2>1. runner' = "down" /\ UNCHANGED <<stream, state>>
        BY <1>6 DEF RunnerStops
    <2> QED
        BY <2>1, QuietStep DEF InStep, NextIsNewer
<1>7. CASE Restore
    <2>1. runner' = "warmup" /\ memory' = LedgerState /\ UNCHANGED <<stream, state>>
        BY <1>7 DEF Restore, Resumes, LedgerState
    <2> QED
        BY <2>1, QuietStep DEF InStep, NextIsNewer
<1>8. CASE Bootstrap
    <2>1. runner' = "warmup" /\ LedgerState = {} /\ 1..Len(stream) = {}
        BY <1>8, EmptyLedger DEF Bootstrap, Resumes
    <2>2. CASE memory' = {} /\ UNCHANGED <<stream, state>>
        BY <2>1, <2>2, QuietStep DEF InStep, NextIsNewer
    <2>3. CASE /\ book # None /\ Executed({}, book)
               /\ memory' = NextPositions({}, book)
        <3>1. book \in Selection
            BY <2>3 DEF TypeOK
        <3>2. PICK s \in Selection : s = book
            BY <3>1
        <3>3. /\ StateMatchesStream' /\ EveryCloseFindsItsPosition'
              /\ LedgerState' = NextPositions({}, s)
            BY <1>1, <2>1, <2>3, <3>2, ExecutedKeepsBooks DEF InStep
        <3> QED
            BY <2>1, <2>3, <3>2, <3>3 DEF InStep, NextIsNewer
    <2> QED
        BY <1>8, <2>2, <2>3 DEF Bootstrap, Publish, Fault
<1>9. CASE RestoreFails
    BY <1>9 DEF RestoreFails, Fault
<1>10. CASE WarmupComplete
    <2>1. /\ runner' = "idle" /\ runner = "warmup" /\ last' = now
          /\ UNCHANGED <<memory, stream, state>>
        BY <1>10 DEF WarmupComplete
    <2> QED
        BY <2>1, QuietStep DEF InStep, NextIsNewer, Dated
<1>11. CASE UNCHANGED <<now, runnerVars, state, book, stream>>
    BY <1>11, QuietStep DEF InStep, NextIsNewer, runnerVars
<1> QED
    BY <1>2, <1>3, <1>4, <1>5, <1>6, <1>7, <1>8, <1>9, <1>10, <1>11
    DEF Next, vars, Consume, Connect, ReadPending, ReadNew, Handle, Apply,
        RejectEvent, LeavePending, Ack, TransactionFails, ConnectionLost

LEMMA NextPublisher ==
    ASSUME TypeOK, PublisherInv, [Next]_vars
    PROVE  PublisherInv'
BY NextDated, NextInStep, MisledStays DEF PublisherInv

LEMMA InitPublisher == Init => PublisherInv
<1> SUFFICES ASSUME Init PROVE PublisherInv
    OBVIOUS
<1>1. stream = <<>> /\ 1..Len(stream) = {} /\ DOMAIN stream = {}
    BY DEF Init
<1>2. StateMatchesStream /\ EveryCloseFindsItsPosition
    BY <1>1 DEF Init, StateMatchesStream, OpenInStream, Published, Range,
                EveryCloseFindsItsPosition
<1>3. Dated
    BY <1>1 DEF Init, Dated
<1> QED
    BY <1>1, <1>2, <1>3 DEF Init, PublisherInv, InStep, NextIsNewer

\* Unless a reply or the state was lost or a candle is rescanned, the Redis state
\* is what the stream leaves open and no close is refused for ever, whatever
\* else fails or stops (the one MULTI/EXEC of VirtualTradeLedgerPublisher).
THEOREM StateFollowsStream == Spec => []StateIsStream
<1>1. TypeOK /\ PublisherInv /\ [Next]_vars => PublisherInv'
    BY NextPublisher
<1>2. PublisherInv => StateIsStream
    BY DEF PublisherInv, InStep, StateIsStream
<1> QED
    BY <1>1, <1>2, InitPublisher, TypeCorrect, PTL DEF Spec

-----------------------------------------------------------------------------
(***************************************************************************)
(* 6. End to end.                                                          *)
(***************************************************************************)

\* A worker that has caught up holds the positions the runner will close at its
\* next rebalance, whatever failed or stopped on either side without misleading
\* the runner (apply_virtual_trade_event on what rebalance published).
THEOREM CaughtUpBooksAgree == Spec => []BooksConverge
<1>1. TypeOK /\ AckInv /\ [Next]_vars => AckInv'
    BY NextAck
<1>2. TypeOK /\ TableInv /\ [Next]_vars => TableInv'
    BY NextTables
<1>3. TypeOK /\ PublisherInv /\ [Next]_vars => PublisherInv'
    BY NextPublisher
<1>4. Init => AckInv
    BY DEF Init, AckInv, AckedIsApplied
<1>5. TypeOK /\ AckInv /\ TableInv /\ PublisherInv => BooksConverge
    <2> SUFFICES ASSUME TypeOK, AckInv, TableInv, PublisherInv, ~misled,
                        delivered = Len(stream), pel = {}
                 PROVE  positions = LedgerState
        BY DEF BooksConverge, Converged, LedgerState
    <2>1. \A e : Published(e) <=> e \in events
        BY PublishedIndex DEF AckInv, AckedIsApplied, TableInv
    <2>2. \A p \in Position : p \in positions <=>
              Published(OpenEvent(p)) /\ \A c \in Candle : ~Published(CloseEvent(p, c))
        BY <2>1 DEF TableInv
    <2>3. positions = OpenInStream
        BY <2>2 DEF OpenInStream, TypeOK
    <2> QED
        BY <2>3 DEF PublisherInv, InStep, StateMatchesStream, LedgerState
<1> QED
    BY <1>1, <1>2, <1>3, <1>4, <1>5, InitTables, InitPublisher, TypeCorrect, PTL
    DEF Spec

=============================================================================
