------------------------- MODULE Strategies_proofs -------------------------
(***************************************************************************)
(* The strategies that hold one position at most, over the facts about     *)
(* plans of StrategyBook_proofs: while nothing failed, the worker ends up  *)
(* with exactly the position of the strategy; a strategy that trades flips *)
(* never faces away from the trend it believes in, and orders one entry    *)
(* per turn of the trend whatever fails; vn30 ends its session flat.       *)
(***************************************************************************)
EXTENDS StrategyBook_proofs

CONSTANTS Prices, Atrs, Peaks, SlDist, ChanDist, BeDist, BarOf,
          LongOnly, Reversed, Alpha, Lows, Highs, XAU, PAXG, F1, None
-----------------------------------------------------------------------------
(* suplo-xau: the book of the instance is the book of the lemmas. *)
Xau == INSTANCE SuploXau

LEMMA XauSteps ==
    /\ \A k, p : Xau!Send(k, p) = Send(k, p)
    /\ \A p : Xau!Keep(p) = Keep(p)
    /\ \A p : Xau!Drop(p) = Drop(p)
    /\ \A d : Xau!Turn(d) = Turn(d)
    /\ \A t : Xau!Seen(t) = Seen(t)
    /\ \A t : Xau!Done(t) = Done(t)
    /\ Xau!Save = Save
    /\ \A d : Xau!SideOf(d) = SideOf(d)
    /\ \A d : Xau!Toward(d) = Toward(d)
    /\ \A P : Xau!Existing(P) = Existing(P)
    /\ \A d : Xau!Adopted(d) = Adopted(d)
    /\ \A t : Xau!Asked(t) <=> Asked(t)
    /\ Xau!Up = Up
    /\ Xau!Down = Down
<1>1. \A k, p : Xau!Send(k, p) = Send(k, p)
    BY Zenon DEF Xau!Send, Send
<1>2. \A p : Xau!Keep(p) = Keep(p)
    BY Zenon DEF Xau!Keep, Keep
<1>3. \A p : Xau!Drop(p) = Drop(p)
    BY Zenon DEF Xau!Drop, Drop
<1>4. \A d : Xau!Turn(d) = Turn(d)
    BY Zenon DEF Xau!Turn, Turn
<1>5. \A t : Xau!Seen(t) = Seen(t)
    BY Zenon DEF Xau!Seen, Seen
<1>6. \A t : Xau!Done(t) = Done(t)
    BY Zenon DEF Xau!Done, Done
<1>7. Xau!Save = Save
    BY Zenon DEF Xau!Save, Save
<1>8. \A d : Xau!SideOf(d) = SideOf(d)
    BY Zenon DEF Xau!SideOf, SideOf, Xau!Up, Up, Xau!Down, Down
<1>9. \A d : Xau!Toward(d) = Toward(d)
    BY Zenon DEF Xau!Toward, Toward, Xau!Up, Up, Xau!Down, Down
<1>10. \A P : Xau!Existing(P) = Existing(P)
    BY Zenon DEF Xau!Existing, Existing
<1>11. \A d : Xau!Adopted(d) = Adopted(d)
    BY Zenon DEF Xau!Adopted, Adopted, Xau!Existing, Existing, Xau!Toward, Toward, Xau!Up, Up, Xau!Down, Down
<1>12. \A t : Xau!Asked(t) <=> Asked(t)
    BY Zenon DEF Xau!Asked, Asked
<1>13. Xau!Up = Up
    BY Zenon DEF Xau!Up, Up
<1>14. Xau!Down = Down
    BY Zenon DEF Xau!Down, Down
<1> QED
    BY <1>1, <1>2, <1>3, <1>4, <1>5, <1>6, <1>7, <1>8, <1>9, <1>10, <1>11, <1>12, <1>13, <1>14

LEMMA XauAfter ==
    ASSUME NEW plan PROVE Xau!AfterPlan(plan) = AfterPlan(plan)
<1>1. \A s : Xau!AfterFrom(s, plan) = AfterFrom(s, plan)
    BY Zenon DEF Xau!AfterFrom, AfterFrom, Xau!Performed, Performed, Xau!Others, Others,
        Xau!Dispatched, Dispatched, Xau!Remembering, Remembering, Xau!Repeated, Repeated
<1> QED
    BY <1>1 DEF Xau!AfterPlan, AfterPlan, Xau!Mind, Mind

LEMMA XauPerform ==
    ASSUME NEW plan, Xau!Perform(plan) PROVE Perform(plan)
<1>1. \A S : Xau!NewIn(S) = NewIn(S)
    BY DEF Xau!NewIn, NewIn
<1>2. \A s : Xau!Becomes(s) => Becomes(s)
    BY <1>1 DEF Xau!Becomes, Becomes
<1>3. \A p : Xau!AfterPlan(p) = AfterPlan(p)
    BY XauAfter
<1>4. \A s, e : Xau!Raises(s, e) => Raises(s, e)
    BY <1>2, Zenon DEF Xau!Raises, Raises, Xau!Repeated, Repeated,
        Xau!Remembering, Remembering
<1> QED
    BY <1>2, <1>3, <1>4, Zenon DEF Xau!Perform, Perform, Xau!RemoveAt, RemoveAt

LEMMA XauAround ==
    /\ \A C : Xau!StartBook(C) => StartBook(C)
    /\ Xau!Around(Xau!Reloaded) => Around({p \in LoadPositions : p.symbol = XAU})
    /\ \A t, C : Xau!CandleCloses(t, C) => CandleCloses(t, C)
    /\ \A t : Xau!ShouldScanAfterEvent(t) => ShouldScanAfterEvent(t)
    /\ UNCHANGED Xau!book => UNCHANGED book
<1>1. \A C : Xau!StartBook(C) => StartBook(C)
    BY DEF Xau!StartBook, StartBook
<1>2. Xau!WorkerTakes => WorkerTakes
    BY DEF Xau!WorkerTakes, WorkerTakes, Xau!Taken, Taken, Xau!Others, Others
<1>3. Xau!WorkerCloses => WorkerCloses
    BY DEF Xau!WorkerCloses, WorkerCloses
<1>4. \A P : Xau!Restart(P) => Restart(P)
    BY DEF Xau!Restart, Restart
<1>5. Xau!Reloaded = {p \in LoadPositions : p.symbol = XAU}
    BY DEF Xau!Reloaded, Xau!LoadPositions, LoadPositions
<1>6. Xau!Around(Xau!Reloaded) => Around({p \in LoadPositions : p.symbol = XAU})
    BY <1>2, <1>3, <1>4, <1>5, Zenon DEF Xau!Around, Around
<1>7. \A t, C : Xau!CandleCloses(t, C) => CandleCloses(t, C)
    BY DEF Xau!CandleCloses, CandleCloses
<1>8. \A t : Xau!ShouldScanAfterEvent(t) => ShouldScanAfterEvent(t)
    BY DEF Xau!ShouldScanAfterEvent, ShouldScanAfterEvent
<1>9. UNCHANGED Xau!book => UNCHANGED book
    BY DEF Xau!book, book
<1> QED
    BY <1>1, <1>6, <1>7, <1>8, <1>9

\* Managing the position on a candle: it keeps its side, or is closed.
LEMMA XauManage ==
    ASSUME NEW s, Agreed(worker, s, XAU), NEW p \in s.held
    PROVE  \E t : /\ Moved(s, Xau!ManageOnBar(p), t, XAU)
                  /\ t.trend = s.trend /\ \A q \in t.held : q.side = p.side
<1> DEFINE peak == Xau!Larger(p.peak_gain, Xau!Gain(p, Xau!Bar))
<1>1. PICK low : low = [p EXCEPT !.peak_gain = 0]
    OBVIOUS
<1>2. PICK moved : moved = [p EXCEPT !.peak_gain = peak, !.tp = Xau!Target(p, peak)]
    OBVIOUS
<1>3. PICK sent : sent = [moved EXCEPT !.tp_emitted = moved.tp]
    OBVIOUS
<1>4. \/ Xau!ManageOnBar(p) = <<Keep(low)>>
      \/ Xau!ManageOnBar(p) = <<Send("CLOSE", p), Drop(p)>>
      \/ Xau!ManageOnBar(p) = <<Keep(moved)>>
      \/ Xau!ManageOnBar(p) = <<Keep(moved), Send("MODIFY", moved), Keep(sent)>>
    BY <1>1, <1>2, <1>3 DEF Xau!ManageOnBar, Xau!ClosePosition, Xau!Keep, Keep,
                            Xau!Send, Send, Xau!Drop, Drop
<1>5. Named(p, XAU)
    BY DEF Agreed
<1>6. /\ Named(low, XAU) /\ low.id = p.id /\ low.side = p.side
      /\ Named(moved, XAU) /\ moved.id = p.id /\ moved.side = p.side
    BY <1>1, <1>2, <1>5 DEF Named
<1>7. Named(sent, XAU) /\ sent.id = moved.id /\ sent.side = moved.side
    BY <1>3, <1>6 DEF Named
<1>8. CASE Xau!ManageOnBar(p) = <<Keep(low)>>
    BY <1>6, <1>8, KeepMoved
<1>9. CASE Xau!ManageOnBar(p) = <<Send("CLOSE", p), Drop(p)>>
    BY <1>9, CloseMoved
<1>10. CASE Xau!ManageOnBar(p) = <<Keep(moved)>>
    BY <1>6, <1>10, KeepMoved
<1>11. CASE Xau!ManageOnBar(p) = <<Keep(moved), Send("MODIFY", moved), Keep(sent)>>
    <2>1. PICK u : /\ Moved(s, <<Keep(moved)>>, u, XAU)
                   /\ u.held = {moved} /\ u.trend = s.trend
        BY <1>6, KeepMoved
    <2>2. Agreed(worker, u, XAU) /\ moved \in u.held
        BY <2>1 DEF Moved
    <2>3. PICK v : /\ Moved(u, <<Send("MODIFY", moved)>>, v, XAU)
                   /\ v.held = u.held /\ v.trend = u.trend
        BY <2>2, ModifyMoved
    <2>4. Agreed(worker, v, XAU) /\ moved \in v.held
        BY <2>2, <2>3 DEF Moved
    <2>5. PICK w : Moved(v, <<Keep(sent)>>, w, XAU) /\ w.held = {sent} /\ w.trend = v.trend
        BY <1>7, <2>4, KeepMoved
    <2>6. PICK a, b, c : a = Keep(moved) /\ b = Send("MODIFY", moved) /\ c = Keep(sent)
        OBVIOUS
    <2>7. Moved(s, <<a, b>>, v, XAU)
        BY <2>1, <2>3, <2>6, TwoMoved
    <2>8. Moved(s, <<a, b, c>>, w, XAU)
        BY <2>5, <2>6, <2>7, ThreeMoved
    <2> QED
        BY <1>6, <1>7, <1>11, <2>1, <2>3, <2>5, <2>6, <2>8
<1> QED
    BY <1>4, <1>8, <1>9, <1>10, <1>11

\* The entries of a candle: what they leave follows the direction of the candle.
LEMMA XauEntries ==
    ASSUME NEW s, Agreed(worker, s, XAU), s.trend = trend, NEW n
    PROVE  \E t : /\ Moved(s, Xau!EvaluateEntries(s.held, n), t, XAU)
                  /\ t.trend = Xau!Bar.dir
                  /\ Xau!Bar.dir \in {Up, Down} /\ Facing(s)
                        => \A p \in t.held : Toward(p.side) = Xau!Bar.dir
<1> DEFINE step == Xau!StepStateMachine(s.held)
           closed == step.trailing \cup step.flipped
           dir == Xau!Bar.dir
<1>1. PICK a : /\ Moved(s, <<Turn(dir)>>, a, XAU)
               /\ a.held = s.held /\ a.trend = dir
    BY MarksMoved
<1>2. /\ closed \in SUBSET a.held
      /\ step.opens <=> dir # trend
      /\ dir # trend => closed = a.held
    BY <1>1 DEF Xau!StepStateMachine
<1>3. PICK b : /\ Moved(a, CloseEach(closed), b, XAU)
               /\ b.held = a.held \ closed /\ b.trend = a.trend
    <2>1. Agreed(worker, a, XAU)
        BY <1>1 DEF Moved
    <2> QED
        BY <1>2, <2>1, CloseEachMoved
<1>4. Moved(s, <<Turn(dir)>> \o CloseEach(closed), b, XAU)
    BY <1>1, <1>3, MovedOn
<1>5. Xau!ForEach(closed, Xau!ClosePosition) = CloseEach(closed)
    <2>1. Xau!SetToSeq(closed) = SetToSeq(closed)
        BY Zenon DEF Xau!SetToSeq, SetToSeq, Xau!IsInjective, IsInjective,
                    Xau!Cardinality, Cardinality
    <2>2. \A seqs : Xau!FlattenSeq(seqs) = FlattenSeq(seqs)
        BY Zenon DEF Xau!FlattenSeq, FlattenSeq
    <2>3. \A p : Xau!ClosePosition(p) = <<Send("CLOSE", p), Drop(p)>>
        BY DEF Xau!ClosePosition, Xau!Send, Send, Xau!Drop, Drop
    <2> QED
        BY <2>1, <2>2, <2>3 DEF Xau!ForEach, ForEach, CloseEach
<1>6. CASE dir = trend
    <2>1. Xau!EvaluateEntries(s.held, n) = (<<Turn(dir)>> \o CloseEach(closed)) \o <<>>
        BY <1>2, <1>5, <1>6, XauSteps, Zenon DEF Xau!EvaluateEntries
    <2>2. Moved(s, Xau!EvaluateEntries(s.held, n), b, XAU)
        <3>1. Moved(b, <<>>, b, XAU)
            BY <1>4, StayMoved DEF Moved
        <3> QED
            BY <1>4, <2>1, <3>1, MovedOn
    <2> QED
        BY <1>1, <1>3, <1>6, <2>2 DEF Facing, Up, Down
<1>7. CASE dir # trend
    <2>1. PICK p : p = Xau!NewPosition(SideOf(dir), n, Xau!Bar.close)
        OBVIOUS
    <2>2. Named(p, XAU) /\ p.side = SideOf(dir) /\ (dir \in {Up, Down} => Toward(p.side) = dir)
        BY <2>1 DEF Xau!NewPosition, Named, SideOf, Toward, Up, Down
    <2>3. b.held = {} /\ s.held \ closed = {}
        BY <1>1, <1>2, <1>3, <1>7
    <2>4. PICK c : /\ Moved(b, <<Send("OPEN", p), Keep(p)>>, c, XAU)
                   /\ c.held = {p} /\ c.trend = b.trend
        <3>1. Agreed(worker, b, XAU)
            BY <1>4 DEF Moved
        <3> QED
            BY <2>2, <2>3, <3>1, OpenMoved
    <2>5. Xau!OpenIfAllowed(s.held \ closed, SideOf(dir), n) = <<Send("OPEN", p), Keep(p)>>
        BY <2>1, <2>3 DEF Xau!OpenIfAllowed, Xau!Send, Send, Xau!Keep, Keep
    <2>6. Xau!EvaluateEntries(s.held, n)
            = (<<Turn(dir)>> \o CloseEach(closed)) \o <<Send("OPEN", p), Keep(p)>>
        BY <1>2, <1>5, <1>7, <2>5, XauSteps, Zenon DEF Xau!EvaluateEntries
    <2>7. Moved(s, Xau!EvaluateEntries(s.held, n), c, XAU)
        BY <1>4, <2>4, <2>6, MovedOn
    <2> QED
        BY <1>1, <1>3, <2>2, <2>4, <2>7
<1> QED
    BY <1>6, <1>7

\* The newest candle of a timeframe has a direction.
XauKnown == "15m" \in Tf /\ candle \in [Tf -> Xau!Candles]

\* Without a fault a scan ends in concord, facing the trend.
LEMMA XauScan ==
    ASSUME Mirrored(XAU), Xau!Scan
    PROVE  \E plan : Perform(plan) /\ Well(plan, XAU, XauKnown /\ SideFollowsTrend)
<1> DEFINE J == XauKnown /\ SideFollowsTrend
<1>1. CASE /\ last["15m"] = 0
           /\ Xau!Perform(<<Xau!Seen("15m"), Xau!Turn(Xau!Adopted(Xau!Bar.dir)),
                            Xau!Done("15m"), Xau!Save>>)
    <2>1. PICK e, f, g, h : /\ e = Seen("15m") /\ f = Turn(Adopted(Xau!Bar.dir))
                            /\ g = Done("15m") /\ h = Save
        OBVIOUS
    <2>2. Perform(<<e, f, g, h>>)
        BY <1>1, <2>1, XauSteps, XauPerform
    <2>3. ASSUME faults = 0 PROVE \E t : Moved(Mind, <<e, f>>, t, XAU) /\ (J => Facing(t))
        BY <2>1, <2>3, FirstMoved
    <2>4. Well(<<e, f>> \o <<g, h>>, XAU, J)
        BY <2>1, <2>3, WellEnded DEF Well
    <2>5. Well(<<e, f, g, h>>, XAU, J)
        <3>1. <<e, f, g, h>> = <<e, f>> \o <<g, h>>
            BY FourInTurn
        <3> HIDE DEF J
        <3> QED
            BY <2>4, <3>1, Zenon
    <2> QED
        BY <2>2, <2>5
<1>2. ASSUME NEW gate \in BOOLEAN, NEW managed,
             managed = <<Seen("15m"), Done("15m")>>
                       \o (IF held = {} THEN <<>> ELSE Xau!ManageOnBar(Existing(held))),
             Perform((managed
                         \o (IF gate THEN Xau!EvaluateEntries(AfterPlan(managed).held, now["15m"])
                             ELSE <<>>))
                         \o <<Save>>)
      PROVE  \E plan : Perform(plan) /\ Well(plan, XAU, J)
    <2> DEFINE plan == managed
                         \o (IF gate THEN Xau!EvaluateEntries(AfterPlan(managed).held, now["15m"])
                             ELSE <<>>)
    <2>1. ASSUME faults = 0
          PROVE  \E t : Moved(Mind, plan, t, XAU) /\ (J => Facing(t))
        <3>0. Agreed(worker, Mind, XAU) /\ Mind.held = held /\ Mind.trend = trend
            BY <2>1, MirroredMind
        <3>1. PICK a : /\ Moved(Mind, <<Seen("15m")>>, a, XAU)
                       /\ a.held = held /\ a.trend = trend
            BY <3>0, MarksMoved
        <3>2. PICK b : /\ Moved(a, <<Done("15m")>>, b, XAU)
                       /\ b.held = held /\ b.trend = trend
            BY <3>1, MarksMoved DEF Moved
        <3>3. Moved(Mind, <<Seen("15m"), Done("15m")>>, b, XAU)
            BY <3>1, <3>2, TwoMoved
        <3>4. PICK c : /\ Moved(Mind, managed, c, XAU) /\ c.trend = trend
                       /\ \A q \in c.held : \E p \in held : q.side = p.side
            <4>1. CASE held = {}
                <5>1. Moved(b, <<>>, b, XAU)
                    BY <3>3, StayMoved DEF Moved
                <5> QED
                    BY <1>2, <3>2, <3>3, <4>1, <5>1, MovedOn
            <4>2. CASE held # {}
                <5>1. PICK p \in held : Existing(held) = p
                    BY <4>2 DEF Existing
                <5>2. PICK c : /\ Moved(b, Xau!ManageOnBar(p), c, XAU)
                               /\ c.trend = b.trend /\ \A q \in c.held : q.side = p.side
                    BY <3>2, <5>1, XauManage DEF Moved
                <5>3. Moved(Mind, managed, c, XAU)
                    BY <1>2, <3>3, <4>2, <5>1, <5>2, MovedOn
                <5> QED
                    BY <3>2, <5>1, <5>2, <5>3
            <4> QED
                BY <4>1, <4>2
        <3>5. AfterPlan(managed).held = c.held /\ Agreed(worker, c, XAU)
            BY <3>4 DEF Moved, AfterPlan
        <3>6. J => Xau!Bar.dir \in {Up, Down} /\ Facing(c)
            <4>1. Up \in Int /\ Down \in Int
                BY DEF Up, Down
            <4> QED
                BY <2>1, <3>4 DEF XauKnown, SideFollowsTrend, Facing, Xau!Bar, Xau!Candles,
                                  Xau!Directions, Xau!Up, Xau!Down, Up, Down
        <3>7. CASE ~ gate
            <4>1. Moved(c, <<>>, c, XAU)
                BY <3>5, StayMoved
            <4> QED
                BY <3>4, <3>6, <3>7, <4>1, MovedOn
        <3>8. CASE gate
            <4>1. PICK d : /\ Moved(c, Xau!EvaluateEntries(c.held, now["15m"]), d, XAU)
                           /\ d.trend = Xau!Bar.dir
                           /\ Xau!Bar.dir \in {Up, Down} /\ Facing(c)
                                => \A p \in d.held : Toward(p.side) = Xau!Bar.dir
                BY <3>4, <3>5, XauEntries
            <4> QED
                BY <3>4, <3>5, <3>6, <3>8, <4>1, MovedOn DEF Facing
        <3> QED
            BY <3>7, <3>8
    <2>2. Well(plan \o <<Save>>, XAU, J)
        BY <2>1, WellEnded DEF Well
    <2> QED
        BY <1>2, <2>2
<1> QED
    BY <1>1, <1>2, XauSteps, XauPerform, XauAfter DEF Xau!Scan

\* Every step keeps the invariant.
LEMMA XauNext ==
    ASSUME Mirrored(XAU), [Xau!Next]_Xau!book
    PROVE  /\ Mirrored(XAU)'
           /\ XauKnown => XauKnown'
           /\ XauKnown /\ SideFollowsTrend => SideFollowsTrend'
<1>1. CASE Xau!CandleCloses("15m", Xau!Candles)
    <2>1. CandleCloses("15m", Xau!Candles)
        BY <1>1, XauAround
    <2>2. XauKnown => XauKnown'
        BY <2>1 DEF CandleCloses, XauKnown
    <2> QED
        BY <2>1, <2>2, AroundMirrored
<1>2. CASE Xau!ShouldScan
    <2>1. ShouldScanAfterEvent("15m")
        BY <1>2, XauAround DEF Xau!ShouldScan
    <2>2. XauKnown => XauKnown'
        BY <2>1 DEF ShouldScanAfterEvent, XauKnown
    <2> QED
        BY <2>1, <2>2, AroundMirrored
<1>3. CASE Xau!Scan
    <2>1. PICK plan : Perform(plan) /\ Well(plan, XAU, XauKnown /\ SideFollowsTrend)
        BY <1>3, XauScan
    <2>2. XauKnown => XauKnown'
        BY <2>1 DEF Perform, XauKnown
    <2>3. Mirrored(XAU)' /\ (XauKnown /\ SideFollowsTrend => SideFollowsTrend')
        BY <2>1, WellDone
    <2> QED
        BY <2>2, <2>3
<1>4. CASE Xau!Around(Xau!Reloaded)
    <2>1. Around({p \in LoadPositions : p.symbol = XAU})
        BY <1>4, XauAround
    <2>2. XauKnown => XauKnown'
        BY <2>1 DEF Around, WorkerTakes, WorkerCloses, Restart, XauKnown
    <2> QED
        BY <2>1, <2>2, AroundMirrored
<1>5. CASE UNCHANGED Xau!book
    <2>1. UNCHANGED book
        BY <1>5, XauAround
    <2>2. XauKnown => XauKnown'
        BY <2>1 DEF book, XauKnown
    <2> QED
        BY <2>1, <2>2, AroundMirrored
<1> QED
    BY <1>1, <1>2, <1>3, <1>4, <1>5 DEF Xau!Next

LEMMA XauInit ==
    ASSUME Xau!Init
    PROVE  Mirrored(XAU) /\ SideFollowsTrend /\ ("15m" \in Tf => XauKnown)
<1>1. PICK c \in Xau!Candles : StartBook({[t \in Tf |-> c]})
    BY XauAround DEF Xau!Init
<1>2. "15m" \in Tf => XauKnown
    BY <1>1 DEF StartBook, XauKnown
<1> QED
    BY <1>1, <1>2, StartMirrored

\* Unless a send failed, a restart overtook a signal or the worker closed a position
\* itself, the worker holds exactly the position of the strategy once it has taken
\* every signal, whatever the candles and however many restarts there were.
THEOREM XauConverges == Xau!Spec => []Converged
<1>1. Mirrored(XAU) /\ [Xau!Next]_Xau!book => Mirrored(XAU)'
    BY XauNext
<1>2. Mirrored(XAU) => Converged
    BY MirroredConverges
<1> QED
    BY <1>1, <1>2, XauInit, PTL DEF Xau!Spec

\* While nothing failed, the position the strategy holds is never against the direction
\* it believes in: a flip closes it before it opens the next one, and a restart adopts
\* the side of the position it found.
THEOREM XauFacesTrend ==
    ASSUME "15m" \in Tf PROVE Xau!Spec => []SideFollowsTrend
<1> DEFINE Inv == Mirrored(XAU) /\ XauKnown /\ SideFollowsTrend
<1>1. Xau!Init => Inv
    BY XauInit
<1>2. Inv /\ [Xau!Next]_Xau!book => Inv'
    BY XauNext
<1> QED
    BY <1>1, <1>2, PTL DEF Xau!Spec

\* suplo-xau: a scan enters on a flip only.
LEMMA XauManageOrderly ==
    ASSUME NEW d, NEW p \in held, Named(p, XAU)
    PROVE  Orderly(Xau!ManageOnBar(p), d, XAU, FALSE)
<1> DEFINE peak == Xau!Larger(p.peak_gain, Xau!Gain(p, Xau!Bar))
<1>1. PICK low : low = [p EXCEPT !.peak_gain = 0]
    OBVIOUS
<1>2. PICK moved : moved = [p EXCEPT !.peak_gain = peak, !.tp = Xau!Target(p, peak)]
    OBVIOUS
<1>3. PICK sent : sent = [moved EXCEPT !.tp_emitted = moved.tp]
    OBVIOUS
<1>4. \/ Xau!ManageOnBar(p) = <<Keep(low)>>
      \/ Xau!ManageOnBar(p) = <<Send("CLOSE", p), Drop(p)>>
      \/ Xau!ManageOnBar(p) = <<Keep(moved)>>
      \/ Xau!ManageOnBar(p) = <<Keep(moved), Send("MODIFY", moved), Keep(sent)>>
    BY <1>1, <1>2, <1>3 DEF Xau!ManageOnBar, Xau!ClosePosition, Xau!Keep, Keep,
                            Xau!Send, Send, Xau!Drop, Drop
<1>5. /\ Named(low, XAU) /\ low.id = p.id /\ Named(moved, XAU) /\ moved.id = p.id
    BY <1>1, <1>2 DEF Named
<1>6. Named(sent, XAU) /\ sent.id = p.id
    BY <1>3, <1>5 DEF Named
<1>7. /\ Fits(Keep(low), d, XAU, FALSE) /\ Fits(Keep(moved), d, XAU, FALSE)
      /\ Fits(Keep(sent), d, XAU, FALSE)
    BY <1>5, <1>6 DEF Fits, Ids
<1>8. CASE Xau!ManageOnBar(p) = <<Keep(low)>> \/ Xau!ManageOnBar(p) = <<Keep(moved)>>
    BY <1>7, <1>8, OrderlyOne
<1>9. CASE Xau!ManageOnBar(p) = <<Send("CLOSE", p), Drop(p)>>
    BY <1>9, QuietFits, OrderlyTwo
<1>10. CASE Xau!ManageOnBar(p) = <<Keep(moved), Send("MODIFY", moved), Keep(sent)>>
    <2>1. PICK a, b, c : a = Keep(moved) /\ b = Send("MODIFY", moved) /\ c = Keep(sent)
        OBVIOUS
    <2>2. Orderly(<<a, b>>, d, XAU, FALSE) /\ Orderly(<<c>>, d, XAU, FALSE)
        BY <1>5, <1>7, <2>1, QuietFits, OrderlyOne, OrderlyTwo
    <2>3. <<a, b, c>> = <<a, b>> \o <<c>>
        BY ThreeInTurn
    <2>4. Orderly(<<a, b>> \o <<c>>, d, XAU, FALSE)
        BY <2>2, OrderlyThen
    <2> QED
        BY <1>10, <2>1, <2>3, <2>4, Zenon
<1> QED
    BY <1>4, <1>8, <1>9, <1>10

LEMMA XauEntriesOrderly ==
    ASSUME NEW P, AllNamed(P, XAU), NEW n
    PROVE  Orderly(Xau!EvaluateEntries(P, n), Xau!Bar.dir, XAU, FALSE)
<1> DEFINE step == Xau!StepStateMachine(P)
           closed == step.trailing \cup step.flipped
           dir == Xau!Bar.dir
           open == IF step.opens THEN Xau!OpenIfAllowed(P \ closed, SideOf(dir), n) ELSE <<>>
<1>1. closed \in SUBSET P /\ (step.opens <=> dir # trend)
    BY DEF Xau!StepStateMachine
<1>2. AllNamed(closed, XAU)
    BY <1>1, FS_Subset DEF AllNamed
<1>3. Xau!ForEach(closed, Xau!ClosePosition) = CloseEach(closed)
    <2>1. Xau!SetToSeq(closed) = SetToSeq(closed)
        BY Zenon DEF Xau!SetToSeq, SetToSeq, Xau!IsInjective, IsInjective,
                    Xau!Cardinality, Cardinality
    <2>2. \A seqs : Xau!FlattenSeq(seqs) = FlattenSeq(seqs)
        BY Zenon DEF Xau!FlattenSeq, FlattenSeq
    <2>3. \A p : Xau!ClosePosition(p) = <<Send("CLOSE", p), Drop(p)>>
        BY DEF Xau!ClosePosition, Xau!Send, Send, Xau!Drop, Drop
    <2> QED
        BY <2>1, <2>2, <2>3 DEF Xau!ForEach, ForEach, CloseEach
<1>4. Xau!EvaluateEntries(P, n) = (<<Turn(dir)>> \o CloseEach(closed)) \o open
    BY <1>3, XauSteps, Zenon DEF Xau!EvaluateEntries
<1>5. PICK new : new = Xau!NewPosition(SideOf(dir), n, Xau!Bar.close)
    OBVIOUS
<1>6. Named(new, XAU) /\ new.side = SideOf(dir)
    BY <1>5 DEF Xau!NewPosition, Named
<1>7. Entering(open, P \ closed, new)
    BY <1>5 DEF Entering, Xau!OpenIfAllowed, Xau!Send, Send, Xau!Keep, Keep
<1>8. Orderly(open, dir, XAU, TRUE)
    <2>1. CASE dir # trend
        BY <1>6, <1>7, <2>1, EnteringOrderly
    <2>2. CASE dir = trend
        <3>1. open = <<>>
            BY <1>1, <2>2
        <3> QED
            BY <3>1, OrderlyNothing
    <2> QED
        BY <2>1, <2>2
<1> HIDE DEF step, closed, open, dir
<1>9. PICK a : a = <<Turn(dir)>> \o CloseEach(closed)
    OBVIOUS
<1>10. Orderly(a, dir, XAU, FALSE) /\ Turns(a, dir)
    <2>1. Orderly(CloseEach(closed), dir, XAU, TRUE)
        BY <1>2, CloseEachOrderly
    <2> QED
        BY <1>9, <2>1, TurnsNow, OrderlyOn
<1>11. Orderly(a \o open, dir, XAU, FALSE)
    BY <1>8, <1>10, OrderlyOn
<1> QED
    BY <1>4, <1>9, <1>11 DEF dir

LEMMA XauEnters ==
    ASSUME EntryInv(XAU), XauKnown, Xau!Scan
    PROVE  \E plan : Perform(plan) /\ Enters(plan, XAU)
<1> DEFINE dir == Xau!Bar.dir
<1>1. dir \in {Up, Down}
    BY DEF XauKnown, Xau!Bar, Xau!Candles, Xau!Directions, Xau!Up, Xau!Down, Up, Down
<1>2. AllNamed(held, XAU) /\ NamedMind(Mind, XAU)
    BY MindHas DEF EntryInv
<1>3. CASE /\ last["15m"] = 0
           /\ Xau!Perform(<<Xau!Seen("15m"), Xau!Turn(Xau!Adopted(Xau!Bar.dir)),
                            Xau!Done("15m"), Xau!Save>>)
    <2>1. PICK e, f, g, h : /\ e = Seen("15m") /\ f = Turn(Adopted(dir))
                            /\ g = Done("15m") /\ h = Save
        OBVIOUS
    <2>2. Perform(<<e, f, g, h>>)
        BY <1>3, <2>1, XauSteps, XauPerform
    <2>3. <<e, f, g, h>> = <<e, f>> \o <<g, h>>
        BY FourInTurn
    <2>4. Adopted(dir) \in {Up, Down} /\ Orderly(<<e, f>>, Adopted(dir), XAU, FALSE)
        BY <1>1, <2>1, FirstEnters
    <2>5. Orderly(<<e, f>> \o <<g, h>>, Adopted(dir), XAU, FALSE)
        BY <2>1, <2>4, EndOrderly
    <2>6. Enters(<<e, f, g, h>>, XAU)
        BY <2>3, <2>4, <2>5, Zenon DEF Enters
    <2> QED
        BY <2>2, <2>6
<1>4. ASSUME NEW gate \in BOOLEAN, NEW managed,
             managed = <<Seen("15m"), Done("15m")>>
                       \o (IF held = {} THEN <<>> ELSE Xau!ManageOnBar(Existing(held))),
             Perform((managed
                         \o (IF gate THEN Xau!EvaluateEntries(AfterPlan(managed).held, now["15m"])
                             ELSE <<>>))
                         \o <<Save>>)
      PROVE  \E plan : Perform(plan) /\ Enters(plan, XAU)
    <2> DEFINE entries == IF gate THEN Xau!EvaluateEntries(AfterPlan(managed).held, now["15m"])
                          ELSE <<>>
    <2>1. Orderly(managed, dir, XAU, FALSE)
        <3>1. Orderly(<<Seen("15m"), Done("15m")>>, dir, XAU, FALSE)
            BY QuietFits, OrderlyTwo
        <3>2. CASE held = {}
            <4>1. Orderly(<<>>, dir, XAU, FALSE)
                BY OrderlyNothing
            <4> QED
                BY <1>4, <3>1, <3>2, <4>1, OrderlyThen
        <3>3. CASE held # {}
            <4>1. PICK p \in held : Existing(held) = p
                BY <3>3 DEF Existing
            <4>2. Named(p, XAU)
                BY <1>2 DEF AllNamed
            <4>3. Orderly(Xau!ManageOnBar(p), dir, XAU, FALSE)
                BY <4>2, XauManageOrderly
            <4> QED
                BY <1>4, <3>1, <3>3, <4>1, <4>3, OrderlyThen
        <3> QED
            BY <3>2, <3>3
    <2>2. AllNamed(AfterPlan(managed).held, XAU)
        BY <1>2, <2>1, OrderlyRun DEF NamedMind
    <2>3. Orderly(entries, dir, XAU, FALSE)
        BY <2>2, XauEntriesOrderly, OrderlyNothing
    <2> HIDE DEF entries
    <2>4. Orderly(managed \o entries, dir, XAU, FALSE)
        BY <2>1, <2>3, OrderlyThen
    <2>5. Orderly((managed \o entries) \o <<Save>>, dir, XAU, FALSE)
        BY <2>4, EndOrderly
    <2> QED
        BY <1>1, <1>4, <2>5 DEF Enters, entries
<1> QED
    BY <1>3, <1>4, XauSteps, XauPerform, XauAfter DEF Xau!Scan

LEMMA XauEntryNext ==
    ASSUME EntryInv(XAU), XauKnown, [Xau!Next]_Xau!book
    PROVE  EntryInv(XAU)' /\ OneEntryPerTurn
<1>1. CASE Xau!Scan
    BY <1>1, XauEnters, EntryOnce DEF Enters
<1>2. CASE ~ Xau!Scan
    BY <1>2, XauAround, AroundEntry DEF Xau!Next, Xau!ShouldScan
<1> QED
    BY <1>1, <1>2

\* Within one life suplo-xau takes one position per turn of the trend at most,
\* even if sends fail, restarts overtake signals or the worker closes a position itself:
\* after an exit it stays flat until the trend turns again.
THEOREM XauEntersOncePerTurn ==
    ASSUME "15m" \in Tf PROVE Xau!Spec => [][OneEntryPerTurn]_book
<1> DEFINE Inv == Mirrored(XAU) /\ XauKnown /\ EntryInv(XAU)
<1>1. Xau!Init => Inv
    <2>1. Xau!Init => EntryInv(XAU)
        BY XauAround, StartEntry DEF Xau!Init
    <2> QED
        BY <2>1, XauInit
<1>2. Inv /\ [Xau!Next]_Xau!book => Inv' /\ OneEntryPerTurn
    BY XauNext, XauEntryNext
<1> QED
    BY <1>1, <1>2, PTL DEF Xau!Spec

-----------------------------------------------------------------------------
(* supertrend-adx-tp *)
Adx == INSTANCE SupertrendAdx

LEMMA AdxSteps ==
    /\ \A k, p : Adx!Send(k, p) = Send(k, p)
    /\ \A p : Adx!Keep(p) = Keep(p)
    /\ \A p : Adx!Drop(p) = Drop(p)
    /\ \A d : Adx!Turn(d) = Turn(d)
    /\ \A t : Adx!Seen(t) = Seen(t)
    /\ \A t : Adx!Done(t) = Done(t)
    /\ Adx!Save = Save
    /\ \A d : Adx!SideOf(d) = SideOf(d)
    /\ \A d : Adx!Toward(d) = Toward(d)
    /\ \A P : Adx!Existing(P) = Existing(P)
    /\ \A d : Adx!Adopted(d) = Adopted(d)
    /\ \A t : Adx!Asked(t) <=> Asked(t)
    /\ Adx!Up = Up
    /\ Adx!Down = Down
<1>1. \A k, p : Adx!Send(k, p) = Send(k, p)
    BY Zenon DEF Adx!Send, Send
<1>2. \A p : Adx!Keep(p) = Keep(p)
    BY Zenon DEF Adx!Keep, Keep
<1>3. \A p : Adx!Drop(p) = Drop(p)
    BY Zenon DEF Adx!Drop, Drop
<1>4. \A d : Adx!Turn(d) = Turn(d)
    BY Zenon DEF Adx!Turn, Turn
<1>5. \A t : Adx!Seen(t) = Seen(t)
    BY Zenon DEF Adx!Seen, Seen
<1>6. \A t : Adx!Done(t) = Done(t)
    BY Zenon DEF Adx!Done, Done
<1>7. Adx!Save = Save
    BY Zenon DEF Adx!Save, Save
<1>8. \A d : Adx!SideOf(d) = SideOf(d)
    BY Zenon DEF Adx!SideOf, SideOf, Adx!Up, Up, Adx!Down, Down
<1>9. \A d : Adx!Toward(d) = Toward(d)
    BY Zenon DEF Adx!Toward, Toward, Adx!Up, Up, Adx!Down, Down
<1>10. \A P : Adx!Existing(P) = Existing(P)
    BY Zenon DEF Adx!Existing, Existing
<1>11. \A d : Adx!Adopted(d) = Adopted(d)
    BY Zenon DEF Adx!Adopted, Adopted, Adx!Existing, Existing, Adx!Toward, Toward, Adx!Up, Up, Adx!Down, Down
<1>12. \A t : Adx!Asked(t) <=> Asked(t)
    BY Zenon DEF Adx!Asked, Asked
<1>13. Adx!Up = Up
    BY Zenon DEF Adx!Up, Up
<1>14. Adx!Down = Down
    BY Zenon DEF Adx!Down, Down
<1> QED
    BY <1>1, <1>2, <1>3, <1>4, <1>5, <1>6, <1>7, <1>8, <1>9, <1>10, <1>11, <1>12, <1>13, <1>14

LEMMA AdxAfter ==
    ASSUME NEW plan PROVE Adx!AfterPlan(plan) = AfterPlan(plan)
<1>1. \A s : Adx!AfterFrom(s, plan) = AfterFrom(s, plan)
    BY Zenon DEF Adx!AfterFrom, AfterFrom, Adx!Performed, Performed, Adx!Others, Others,
        Adx!Dispatched, Dispatched, Adx!Remembering, Remembering, Adx!Repeated, Repeated
<1> QED
    BY <1>1 DEF Adx!AfterPlan, AfterPlan, Adx!Mind, Mind

LEMMA AdxPerform ==
    ASSUME NEW plan, Adx!Perform(plan) PROVE Perform(plan)
<1>1. \A S : Adx!NewIn(S) = NewIn(S)
    BY DEF Adx!NewIn, NewIn
<1>2. \A s : Adx!Becomes(s) => Becomes(s)
    BY <1>1 DEF Adx!Becomes, Becomes
<1>3. \A p : Adx!AfterPlan(p) = AfterPlan(p)
    BY AdxAfter
<1>4. \A s, e : Adx!Raises(s, e) => Raises(s, e)
    BY <1>2, Zenon DEF Adx!Raises, Raises, Adx!Repeated, Repeated,
        Adx!Remembering, Remembering
<1> QED
    BY <1>2, <1>3, <1>4, Zenon DEF Adx!Perform, Perform, Adx!RemoveAt, RemoveAt

LEMMA AdxAround ==
    /\ \A C : Adx!StartBook(C) => StartBook(C)
    /\ Adx!Around(Adx!Reloaded) => Around({p \in LoadPositions : p.symbol = XAU})
    /\ \A t, C : Adx!CandleCloses(t, C) => CandleCloses(t, C)
    /\ \A t : Adx!ShouldScanAfterEvent(t) => ShouldScanAfterEvent(t)
    /\ UNCHANGED Adx!book => UNCHANGED book
<1>1. \A C : Adx!StartBook(C) => StartBook(C)
    BY DEF Adx!StartBook, StartBook
<1>2. Adx!WorkerTakes => WorkerTakes
    BY DEF Adx!WorkerTakes, WorkerTakes, Adx!Taken, Taken, Adx!Others, Others
<1>3. Adx!WorkerCloses => WorkerCloses
    BY DEF Adx!WorkerCloses, WorkerCloses
<1>4. \A P : Adx!Restart(P) => Restart(P)
    BY DEF Adx!Restart, Restart
<1>5. Adx!Reloaded = {p \in LoadPositions : p.symbol = XAU}
    BY DEF Adx!Reloaded, Adx!LoadPositions, LoadPositions
<1>6. Adx!Around(Adx!Reloaded) => Around({p \in LoadPositions : p.symbol = XAU})
    BY <1>2, <1>3, <1>4, <1>5, Zenon DEF Adx!Around, Around
<1>7. \A t, C : Adx!CandleCloses(t, C) => CandleCloses(t, C)
    BY DEF Adx!CandleCloses, CandleCloses
<1>8. \A t : Adx!ShouldScanAfterEvent(t) => ShouldScanAfterEvent(t)
    BY DEF Adx!ShouldScanAfterEvent, ShouldScanAfterEvent
<1>9. UNCHANGED Adx!book => UNCHANGED book
    BY DEF Adx!book, book
<1> QED
    BY <1>1, <1>6, <1>7, <1>8, <1>9

AdxKnown == "15m" \in Tf /\ candle \in [Tf -> Adx!Candles]

LEMMA AdxScan ==
    ASSUME Mirrored(XAU), Adx!Scan
    PROVE  \E plan : Perform(plan) /\ Well(plan, XAU, AdxKnown /\ SideFollowsTrend)
<1> DEFINE J == AdxKnown /\ SideFollowsTrend
           dir == Adx!Bar.dir
<1>1. J => dir \in {Up, Down}
    BY DEF AdxKnown, Adx!Bar, Adx!Candles, Adx!Directions, Adx!Up, Adx!Down, Up, Down
<1>2. ASSUME faults = 0
      PROVE  \E t : Moved(Mind, Adx!Scan15m, t, XAU) /\ (J => Facing(t))
    <2>1. PICK a : /\ Moved(Mind, <<Seen("15m")>>, a, XAU)
                   /\ a.held = held /\ a.trend = trend
        BY <1>2, SeenMoved
    <2>2. Agreed(worker, a, XAU) /\ Agreed(worker, Mind, XAU) /\ Mind.held = held
        BY <1>2, <2>1, MirroredMind DEF Moved
    <2>3. J => Facing(a) /\ Facing(Mind)
        BY <1>2, <2>1, MirroredMind DEF SideFollowsTrend, Facing
    <2>4. CASE Adx!Scan15m = <<>>
        BY <2>2, <2>3, <2>4, StayMoved
    <2>5. CASE Adx!Scan15m = <<Seen("15m"), Turn(Adopted(dir))>>
        BY <1>2, <2>5, FirstMoved
    <2>6. CASE Adx!Scan15m = <<Seen("15m")>> \o Adx!Flip
        <3>1. PICK b : Moved(a, <<Turn(dir)>>, b, XAU) /\ b.held = held /\ b.trend = dir
            BY <2>1, <2>2, MarksMoved
        <3> DEFINE Cleared(p) == [p EXCEPT !.previous_adx_peak = None, !.tp_triggered = FALSE]
                   reset == {Cleared(p) : p \in held}
                   keep == IF held = {} THEN <<>> ELSE <<Keep(Existing(reset))>>
        <3>2. PICK c : /\ Moved(a, <<Turn(dir)>> \o keep, c, XAU)
                       /\ c.held = reset /\ c.trend = dir
            <4>1. Agreed(worker, b, XAU)
                BY <3>1 DEF Moved
            <4>2. CASE held = {}
                <5>1. Moved(b, <<>>, b, XAU)
                    BY <4>1, StayMoved
                <5> QED
                    BY <3>1, <4>2, <5>1, MovedOn
            <4>3. CASE held # {}
                <5>1. PICK p \in held : held = {p}
                    BY <2>2, <4>3 DEF Agreed, Single
                <5>2. PICK q : q = Cleared(p)
                    OBVIOUS
                <5>3. reset = {q} /\ Existing(reset) = q
                    BY <5>1, <5>2 DEF Existing
                <5>4. Named(q, XAU) /\ q.id = p.id
                    BY <2>2, <5>1, <5>2 DEF Agreed, Named
                <5>5. PICK c : /\ Moved(b, <<Keep(q)>>, c, XAU)
                               /\ c.held = {q} /\ c.trend = b.trend
                    BY <3>1, <4>1, <5>1, <5>4, KeepMoved
                <5> QED
                    BY <3>1, <4>3, <5>3, <5>5, MovedOn
            <4> QED
                BY <4>2, <4>3
        <3>3. PICK new : new = [id |-> <<now["15m"], SideOf(dir)>>, symbol |-> XAU,
                                side |-> SideOf(dir), previous_adx_peak |-> None,
                                tp_triggered |-> FALSE]
            OBVIOUS
        <3>4. Named(new, XAU) /\ new.side = SideOf(dir)
            BY <3>3 DEF Named
        <3> DEFINE open == Adx!OpenIfAllowed(reset \ Opposed(reset, dir), SideOf(dir), now["15m"])
        <3>5. Entering(open, c.held \ Opposed(c.held, dir), new)
            BY <3>2, <3>3 DEF Entering, Adx!OpenIfAllowed, Adx!Send, Send, Adx!Keep, Keep
        <3>6. Adx!Flip = ((<<Turn(dir)>> \o keep) \o Leaving(Opposed(c.held, dir))) \o open
            BY <3>2, AdxSteps, Zenon DEF Adx!Flip, Leaving, Opposed, Adx!ClosePosition
        <3> HIDE DEF open, keep, reset
        <3>7. PICK u : /\ Moved(a, Adx!Flip, u, XAU) /\ u.trend = dir
                       /\ dir \in {Up, Down} => \A q \in u.held : Toward(q.side) = dir
            BY <3>2, <3>4, <3>5, <3>6, FlipMoved
        <3> QED
            BY <1>1, <2>1, <2>6, <3>7, MovedOn DEF Facing
    <2>7. CASE held = {} /\ Adx!Scan15m = <<Seen("15m")>> \o <<>>
        <3>1. Moved(a, <<>>, a, XAU)
            BY <2>2, StayMoved
        <3> QED
            BY <2>1, <2>3, <2>7, <3>1, MovedOn
    <2>8. CASE held # {} /\ Adx!Scan15m = <<Seen("15m")>> \o Adx!LowerPeak(Existing(held))
        <3>1. PICK p \in a.held : Existing(held) = p
            BY <2>1, <2>8 DEF Existing
        <3>2. Named(p, XAU)
            BY <2>2 DEF Agreed
        <3>3. PICK q : /\ q \in {[p EXCEPT !.tp_triggered = TRUE],
                                 [p EXCEPT !.previous_adx_peak = Adx!Bar.pivot]}
                       /\ Managed(Adx!LowerPeak(p), q, p)
            BY DEF Managed, Adx!LowerPeak, Adx!ClosePosition,
                   Adx!Send, Send, Adx!Keep, Keep, Adx!Drop, Drop
        <3>4. Named(q, XAU) /\ q.id = p.id /\ q.side = p.side
            BY <3>2, <3>3 DEF Named
        <3>5. PICK t : /\ Moved(a, Adx!LowerPeak(p), t, XAU)
                       /\ t.trend = a.trend /\ \A r \in t.held : r.side = p.side
            BY <2>2, <3>3, <3>4, ManagedMoved
        <3> QED
            BY <2>1, <2>3, <2>8, <3>1, <3>5, MovedOn DEF Facing
    <2> QED
        BY <2>4, <2>5, <2>6, <2>7, <2>8, AdxSteps, Zenon DEF Adx!Scan15m
<1>3. Perform(Adx!Scan15m \o <<Done("15m"), Save>>)
    BY AdxSteps, AdxPerform DEF Adx!Scan
<1>4. Well(Adx!Scan15m \o <<Done("15m"), Save>>, XAU, J)
    BY <1>2, WellEnded DEF Well
<1> QED
    BY <1>3, <1>4

\* Every step keeps the invariant.
LEMMA AdxNext ==
    ASSUME Mirrored(XAU), [Adx!Next]_Adx!book
    PROVE  /\ Mirrored(XAU)'
           /\ AdxKnown => AdxKnown'
           /\ AdxKnown /\ SideFollowsTrend => SideFollowsTrend'
<1>1. CASE Adx!CandleCloses("15m", Adx!Candles)
    <2>1. CandleCloses("15m", Adx!Candles)
        BY <1>1, AdxAround
    <2>2. AdxKnown => AdxKnown'
        BY <2>1 DEF CandleCloses, AdxKnown
    <2> QED
        BY <2>1, <2>2, AroundMirrored
<1>2. CASE Adx!ShouldScan
    <2>1. ShouldScanAfterEvent("15m")
        BY <1>2, AdxAround DEF Adx!ShouldScan
    <2>2. AdxKnown => AdxKnown'
        BY <2>1 DEF ShouldScanAfterEvent, AdxKnown
    <2> QED
        BY <2>1, <2>2, AroundMirrored
<1>3. CASE Adx!Scan
    <2>1. PICK plan : Perform(plan) /\ Well(plan, XAU, AdxKnown /\ SideFollowsTrend)
        BY <1>3, AdxScan
    <2>2. AdxKnown => AdxKnown'
        BY <2>1 DEF Perform, AdxKnown
    <2>3. Mirrored(XAU)' /\ (AdxKnown /\ SideFollowsTrend => SideFollowsTrend')
        BY <2>1, WellDone
    <2> QED
        BY <2>2, <2>3
<1>4. CASE Adx!Around(Adx!Reloaded)
    <2>1. Around({p \in LoadPositions : p.symbol = XAU})
        BY <1>4, AdxAround
    <2>2. AdxKnown => AdxKnown'
        BY <2>1 DEF Around, WorkerTakes, WorkerCloses, Restart, AdxKnown
    <2> QED
        BY <2>1, <2>2, AroundMirrored
<1>5. CASE UNCHANGED Adx!book
    <2>1. UNCHANGED book
        BY <1>5, AdxAround
    <2>2. AdxKnown => AdxKnown'
        BY <2>1 DEF book, AdxKnown
    <2> QED
        BY <2>1, <2>2, AroundMirrored
<1> QED
    BY <1>1, <1>2, <1>3, <1>4, <1>5 DEF Adx!Next

LEMMA AdxInit ==
    ASSUME Adx!Init
    PROVE  Mirrored(XAU) /\ SideFollowsTrend /\ ("15m" \in Tf => AdxKnown)
<1>1. PICK c \in Adx!Candles : StartBook({[t \in Tf |-> c]})
    BY AdxAround DEF Adx!Init
<1>2. "15m" \in Tf => AdxKnown
    BY <1>1 DEF StartBook, AdxKnown
<1> QED
    BY <1>1, <1>2, StartMirrored

\* Unless a send failed, a restart overtook a signal or the worker closed a position
\* itself, the worker holds exactly the position of the strategy once it has taken
\* every signal, whatever the candles and however many restarts there were.
THEOREM AdxConverges == Adx!Spec => []Converged
<1>1. Mirrored(XAU) /\ [Adx!Next]_Adx!book => Mirrored(XAU)'
    BY AdxNext
<1>2. Mirrored(XAU) => Converged
    BY MirroredConverges
<1> QED
    BY <1>1, <1>2, AdxInit, PTL DEF Adx!Spec

\* While nothing failed, the position the strategy holds is never against the direction
\* it believes in: a flip closes it before it opens the next one, and a restart adopts
\* the side of the position it found.
THEOREM AdxFacesTrend ==
    ASSUME "15m" \in Tf PROVE Adx!Spec => []SideFollowsTrend
<1> DEFINE Inv == Mirrored(XAU) /\ AdxKnown /\ SideFollowsTrend
<1>1. Adx!Init => Inv
    BY AdxInit
<1>2. Inv /\ [Adx!Next]_Adx!book => Inv'
    BY AdxNext
<1> QED
    BY <1>1, <1>2, PTL DEF Adx!Spec

\* supertrend-adx-tp: a scan enters on a flip only.
LEMMA AdxEnters ==
    ASSUME EntryInv(XAU), AdxKnown, Adx!Scan
    PROVE  \E plan : Perform(plan) /\ Enters(plan, XAU)
<1> DEFINE dir == Adx!Bar.dir
<1>1. dir \in {Up, Down}
    BY DEF AdxKnown, Adx!Bar, Adx!Candles, Adx!Directions, Adx!Up, Adx!Down, Up, Down
<1>2. AllNamed(held, XAU)
    BY MindHas DEF EntryInv
<1> HIDE DEF dir
<1>3. Enters(Adx!Scan15m, XAU)
    <2>1. Orderly(<<Seen("15m")>>, dir, XAU, FALSE)
        BY QuietFits, OrderlyOne
    <2>2. CASE Adx!Scan15m = <<>>
        BY <1>1, <2>2, OrderlyNothing DEF Enters
    <2>3. CASE Adx!Scan15m = <<Seen("15m"), Turn(Adopted(dir))>>
        BY <1>1, <2>3, FirstEnters DEF Enters
    <2>4. CASE dir # trend /\ Adx!Scan15m = <<Seen("15m")>> \o Adx!Flip
        <3> DEFINE Cleared(p) == [p EXCEPT !.previous_adx_peak = None, !.tp_triggered = FALSE]
                   reset == {Cleared(p) : p \in held}
                   keep == IF held = {} THEN <<>> ELSE <<Keep(Existing(reset))>>
                   open == Adx!OpenIfAllowed(reset \ Opposed(reset, dir), SideOf(dir), now["15m"])
        <3>1. \A q \in reset : Named(q, XAU) /\ q.id \in Ids(held)
            BY <1>2 DEF AllNamed, Named, Ids
        <3>2. Orderly(keep, dir, XAU, TRUE)
            <4>1. CASE held = {}
                BY <4>1, OrderlyNothing
            <4>2. CASE held # {}
                <5>1. PICK q \in reset : Existing(reset) = q
                    BY <4>2 DEF Existing
                <5>2. Fits(Keep(q), dir, XAU, TRUE)
                    BY <3>1, <5>1 DEF Fits
                <5> QED
                    BY <4>2, <5>1, <5>2, OrderlyOne
            <4> QED
                BY <4>1, <4>2
        <3>3. PICK new : new = [id |-> <<now["15m"], SideOf(dir)>>, symbol |-> XAU,
                                side |-> SideOf(dir), previous_adx_peak |-> None,
                                tp_triggered |-> FALSE]
            OBVIOUS
        <3>4. Named(new, XAU) /\ new.side = SideOf(dir)
            BY <3>3 DEF Named
        <3>5. Entering(open, reset \ Opposed(reset, dir), new)
            BY <3>3 DEF Entering, Adx!OpenIfAllowed, Adx!Send, Send, Adx!Keep, Keep
        <3>6. Adx!Flip = ((<<Turn(dir)>> \o keep) \o Leaving(Opposed(reset, dir))) \o open
            BY AdxSteps, Zenon DEF Adx!Flip, Leaving, Opposed, Adx!ClosePosition, dir
        <3>7. \A q \in Opposed(reset, dir) : Named(q, XAU)
            BY <3>1 DEF Opposed
        <3> HIDE DEF open, keep, reset
        <3>8. PICK a : a = <<Turn(dir)>> \o keep
            OBVIOUS
        <3>9. Orderly(a, dir, XAU, FALSE) /\ Turns(a, dir)
            BY <3>2, <3>8, TurnsNow, OrderlyOn
        <3>10. Orderly((a \o Leaving(Opposed(reset, dir))) \o open, dir, XAU, FALSE)
            BY <2>4, <3>4, <3>5, <3>7, <3>9, FlipOrderly
        <3> QED
            BY <1>1, <2>1, <2>4, <3>6, <3>8, <3>10, OrderlyThen DEF Enters
    <2>5. CASE Adx!Scan15m = <<Seen("15m")>> \o <<>>
        <3>1. Orderly(<<>>, dir, XAU, FALSE)
            BY OrderlyNothing
        <3> QED
            BY <1>1, <2>1, <2>5, <3>1, OrderlyThen DEF Enters
    <2>6. CASE held # {} /\ Adx!Scan15m = <<Seen("15m")>> \o Adx!LowerPeak(Existing(held))
        <3>1. PICK p \in held : Existing(held) = p
            BY <2>6 DEF Existing
        <3>2. Named(p, XAU)
            BY <1>2 DEF AllNamed
        <3>3. PICK q : /\ q \in {[p EXCEPT !.tp_triggered = TRUE],
                                 [p EXCEPT !.previous_adx_peak = Adx!Bar.pivot]}
                       /\ Managed(Adx!LowerPeak(p), q, p)
            BY DEF Managed, Adx!LowerPeak, Adx!ClosePosition,
                   Adx!Send, Send, Adx!Keep, Keep, Adx!Drop, Drop
        <3>4. Named(q, XAU) /\ q.id = p.id
            BY <3>2, <3>3 DEF Named
        <3>5. Fits(Keep(q), dir, XAU, FALSE)
            BY <3>1, <3>4 DEF Fits, Ids
        <3>6. Orderly(Adx!LowerPeak(p), dir, XAU, FALSE)
            BY <3>2, <3>3, <3>5, ManagedOrderly
        <3> QED
            BY <1>1, <2>1, <2>6, <3>1, <3>6, OrderlyThen DEF Enters
    <2> QED
        BY <2>2, <2>3, <2>4, <2>5, <2>6, AdxSteps, Zenon DEF Adx!Scan15m, dir
<1>4. Perform(Adx!Scan15m \o <<Done("15m"), Save>>)
    BY AdxSteps, AdxPerform DEF Adx!Scan
<1>5. Enters(Adx!Scan15m \o <<Done("15m"), Save>>, XAU)
    BY <1>3, EndOrderly DEF Enters
<1> QED
    BY <1>4, <1>5

LEMMA AdxEntryNext ==
    ASSUME EntryInv(XAU), AdxKnown, [Adx!Next]_Adx!book
    PROVE  EntryInv(XAU)' /\ OneEntryPerTurn
<1>1. CASE Adx!Scan
    BY <1>1, AdxEnters, EntryOnce DEF Enters
<1>2. CASE ~ Adx!Scan
    BY <1>2, AdxAround, AroundEntry DEF Adx!Next, Adx!ShouldScan
<1> QED
    BY <1>1, <1>2

\* Within one life supertrend-adx-tp takes one position per turn of the trend at most,
\* even if sends fail, restarts overtake signals or the worker closes a position itself:
\* after an exit it stays flat until the trend turns again.
THEOREM AdxEntersOncePerTurn ==
    ASSUME "15m" \in Tf PROVE Adx!Spec => [][OneEntryPerTurn]_book
<1> DEFINE Inv == Mirrored(XAU) /\ AdxKnown /\ EntryInv(XAU)
<1>1. Adx!Init => Inv
    <2>1. Adx!Init => EntryInv(XAU)
        BY AdxAround, StartEntry DEF Adx!Init
    <2> QED
        BY <2>1, AdxInit
<1>2. Inv /\ [Adx!Next]_Adx!book => Inv' /\ OneEntryPerTurn
    BY AdxNext, AdxEntryNext
<1> QED
    BY <1>1, <1>2, PTL DEF Adx!Spec

-----------------------------------------------------------------------------
(* supertrend-adx-4-2-ema13-tp *)
Ema == INSTANCE SupertrendAdxEma13

LEMMA EmaSteps ==
    /\ \A k, p : Ema!Send(k, p) = Send(k, p)
    /\ \A p : Ema!Keep(p) = Keep(p)
    /\ \A p : Ema!Drop(p) = Drop(p)
    /\ \A d : Ema!Turn(d) = Turn(d)
    /\ \A t : Ema!Seen(t) = Seen(t)
    /\ \A t : Ema!Done(t) = Done(t)
    /\ Ema!Save = Save
    /\ \A d : Ema!SideOf(d) = SideOf(d)
    /\ \A d : Ema!Toward(d) = Toward(d)
    /\ \A P : Ema!Existing(P) = Existing(P)
    /\ \A d : Ema!Adopted(d) = Adopted(d)
    /\ \A t : Ema!Asked(t) <=> Asked(t)
    /\ Ema!Up = Up
    /\ Ema!Down = Down
<1>1. \A k, p : Ema!Send(k, p) = Send(k, p)
    BY Zenon DEF Ema!Send, Send
<1>2. \A p : Ema!Keep(p) = Keep(p)
    BY Zenon DEF Ema!Keep, Keep
<1>3. \A p : Ema!Drop(p) = Drop(p)
    BY Zenon DEF Ema!Drop, Drop
<1>4. \A d : Ema!Turn(d) = Turn(d)
    BY Zenon DEF Ema!Turn, Turn
<1>5. \A t : Ema!Seen(t) = Seen(t)
    BY Zenon DEF Ema!Seen, Seen
<1>6. \A t : Ema!Done(t) = Done(t)
    BY Zenon DEF Ema!Done, Done
<1>7. Ema!Save = Save
    BY Zenon DEF Ema!Save, Save
<1>8. \A d : Ema!SideOf(d) = SideOf(d)
    BY Zenon DEF Ema!SideOf, SideOf, Ema!Up, Up, Ema!Down, Down
<1>9. \A d : Ema!Toward(d) = Toward(d)
    BY Zenon DEF Ema!Toward, Toward, Ema!Up, Up, Ema!Down, Down
<1>10. \A P : Ema!Existing(P) = Existing(P)
    BY Zenon DEF Ema!Existing, Existing
<1>11. \A d : Ema!Adopted(d) = Adopted(d)
    BY Zenon DEF Ema!Adopted, Adopted, Ema!Existing, Existing, Ema!Toward, Toward, Ema!Up, Up, Ema!Down, Down
<1>12. \A t : Ema!Asked(t) <=> Asked(t)
    BY Zenon DEF Ema!Asked, Asked
<1>13. Ema!Up = Up
    BY Zenon DEF Ema!Up, Up
<1>14. Ema!Down = Down
    BY Zenon DEF Ema!Down, Down
<1> QED
    BY <1>1, <1>2, <1>3, <1>4, <1>5, <1>6, <1>7, <1>8, <1>9, <1>10, <1>11, <1>12, <1>13, <1>14

LEMMA EmaAfter ==
    ASSUME NEW plan PROVE Ema!AfterPlan(plan) = AfterPlan(plan)
<1>1. \A s : Ema!AfterFrom(s, plan) = AfterFrom(s, plan)
    BY Zenon DEF Ema!AfterFrom, AfterFrom, Ema!Performed, Performed, Ema!Others, Others,
        Ema!Dispatched, Dispatched, Ema!Remembering, Remembering, Ema!Repeated, Repeated
<1> QED
    BY <1>1 DEF Ema!AfterPlan, AfterPlan, Ema!Mind, Mind

LEMMA EmaPerform ==
    ASSUME NEW plan, Ema!Perform(plan) PROVE Perform(plan)
<1>1. \A S : Ema!NewIn(S) = NewIn(S)
    BY DEF Ema!NewIn, NewIn
<1>2. \A s : Ema!Becomes(s) => Becomes(s)
    BY <1>1 DEF Ema!Becomes, Becomes
<1>3. \A p : Ema!AfterPlan(p) = AfterPlan(p)
    BY EmaAfter
<1>4. \A s, e : Ema!Raises(s, e) => Raises(s, e)
    BY <1>2, Zenon DEF Ema!Raises, Raises, Ema!Repeated, Repeated,
        Ema!Remembering, Remembering
<1> QED
    BY <1>2, <1>3, <1>4, Zenon DEF Ema!Perform, Perform, Ema!RemoveAt, RemoveAt

LEMMA EmaAround ==
    /\ \A C : Ema!StartBook(C) => StartBook(C)
    /\ Ema!Around(Ema!Reloaded) => Around({p \in LoadPositions : p.symbol = XAU})
    /\ \A t, C : Ema!CandleCloses(t, C) => CandleCloses(t, C)
    /\ \A t : Ema!ShouldScanAfterEvent(t) => ShouldScanAfterEvent(t)
    /\ UNCHANGED Ema!book => UNCHANGED book
<1>1. \A C : Ema!StartBook(C) => StartBook(C)
    BY DEF Ema!StartBook, StartBook
<1>2. Ema!WorkerTakes => WorkerTakes
    BY DEF Ema!WorkerTakes, WorkerTakes, Ema!Taken, Taken, Ema!Others, Others
<1>3. Ema!WorkerCloses => WorkerCloses
    BY DEF Ema!WorkerCloses, WorkerCloses
<1>4. \A P : Ema!Restart(P) => Restart(P)
    BY DEF Ema!Restart, Restart
<1>5. Ema!Reloaded = {p \in LoadPositions : p.symbol = XAU}
    BY DEF Ema!Reloaded, Ema!LoadPositions, LoadPositions
<1>6. Ema!Around(Ema!Reloaded) => Around({p \in LoadPositions : p.symbol = XAU})
    BY <1>2, <1>3, <1>4, <1>5, Zenon DEF Ema!Around, Around
<1>7. \A t, C : Ema!CandleCloses(t, C) => CandleCloses(t, C)
    BY DEF Ema!CandleCloses, CandleCloses
<1>8. \A t : Ema!ShouldScanAfterEvent(t) => ShouldScanAfterEvent(t)
    BY DEF Ema!ShouldScanAfterEvent, ShouldScanAfterEvent
<1>9. UNCHANGED Ema!book => UNCHANGED book
    BY DEF Ema!book, book
<1> QED
    BY <1>1, <1>6, <1>7, <1>8, <1>9

EmaKnown == "15m" \in Tf /\ candle \in [Tf -> Ema!Candles]

LEMMA EmaScan ==
    ASSUME Mirrored(XAU), Ema!Scan
    PROVE  \E plan : Perform(plan) /\ Well(plan, XAU, EmaKnown /\ SideFollowsTrend)
<1> DEFINE J == EmaKnown /\ SideFollowsTrend
           dir == Ema!Bar.dir
<1>1. J => dir \in {Up, Down}
    BY DEF EmaKnown, Ema!Bar, Ema!Candles, Ema!Directions, Ema!Up, Ema!Down, Up, Down
<1>2. ASSUME faults = 0
      PROVE  \E t : Moved(Mind, Ema!Scan15m, t, XAU) /\ (J => Facing(t))
    <2>1. PICK a : /\ Moved(Mind, <<Seen("15m")>>, a, XAU)
                   /\ a.held = held /\ a.trend = trend
        BY <1>2, SeenMoved
    <2>2. Agreed(worker, a, XAU) /\ Agreed(worker, Mind, XAU)
        BY <1>2, <2>1, MirroredMind DEF Moved
    <2>3. J => Facing(a) /\ Facing(Mind)
        BY <1>2, <2>1, MirroredMind DEF SideFollowsTrend, Facing
    <2>4. CASE Ema!Scan15m = <<>>
        BY <2>2, <2>3, <2>4, StayMoved
    <2>5. CASE Ema!Scan15m = <<Seen("15m"), Turn(Adopted(dir))>>
        BY <1>2, <2>5, FirstMoved
    <2>6. CASE Ema!Scan15m = <<Seen("15m")>> \o Ema!Flip
        <3>1. PICK b : Moved(a, <<Turn(dir)>>, b, XAU) /\ b.held = held /\ b.trend = dir
            BY <2>1, <2>2, MarksMoved
        <3>2. PICK new : new = [id |-> <<now["15m"], SideOf(dir)>>, symbol |-> XAU,
                                side |-> SideOf(dir), previous_adx_peak |-> None,
                                adx_weakness_armed |-> FALSE]
            OBVIOUS
        <3>3. Named(new, XAU) /\ new.side = SideOf(dir)
            BY <3>2 DEF Named
        <3> DEFINE open == Ema!OpenIfAllowed(held \ Opposed(held, dir), SideOf(dir), now["15m"])
        <3>4. Entering(open, b.held \ Opposed(b.held, dir), new)
            BY <3>1, <3>2 DEF Entering, Ema!OpenIfAllowed, Ema!Send, Send, Ema!Keep, Keep
        <3>5. Ema!Flip = (<<Turn(dir)>> \o Leaving(Opposed(b.held, dir))) \o open
            BY <3>1, EmaSteps, Zenon DEF Ema!Flip, Leaving, Opposed, Ema!ClosePosition
        <3> HIDE DEF open
        <3>6. PICK u : /\ Moved(a, Ema!Flip, u, XAU) /\ u.trend = dir
                       /\ dir \in {Up, Down} => \A q \in u.held : Toward(q.side) = dir
            BY <3>1, <3>3, <3>4, <3>5, FlipMoved
        <3> QED
            BY <1>1, <2>1, <2>6, <3>6, MovedOn DEF Facing
    <2>7. CASE held = {} /\ Ema!Scan15m = <<Seen("15m")>> \o <<>>
        <3>1. Moved(a, <<>>, a, XAU)
            BY <2>2, StayMoved
        <3> QED
            BY <2>1, <2>3, <2>7, <3>1, MovedOn
    <2>8. CASE held # {} /\ Ema!Scan15m = <<Seen("15m")>> \o Ema!InCycle(Existing(held))
        <3>1. PICK p \in a.held : Existing(held) = p
            BY <2>1, <2>8 DEF Existing
        <3>2. PICK q : q = Ema!Weakened(p)
            OBVIOUS
        <3>3. Named(q, XAU) /\ q.id = p.id /\ q.side = p.side
            BY <2>2, <3>1, <3>2 DEF Agreed, Named, Ema!Weakened
        <3>4. Managed(Ema!InCycle(p), q, q)
            BY <3>2 DEF Managed, Ema!InCycle, Ema!ClosePosition,
                        Ema!Send, Send, Ema!Keep, Keep, Ema!Drop, Drop
        <3>5. PICK t : /\ Moved(a, Ema!InCycle(p), t, XAU)
                       /\ t.trend = a.trend /\ \A r \in t.held : r.side = p.side
            BY <2>2, <3>3, <3>4, ManagedMoved
        <3> QED
            BY <2>1, <2>3, <2>8, <3>1, <3>5, MovedOn DEF Facing
    <2> QED
        BY <2>4, <2>5, <2>6, <2>7, <2>8, EmaSteps, Zenon DEF Ema!Scan15m
<1>3. Perform(Ema!Scan15m \o <<Done("15m"), Save>>)
    BY EmaSteps, EmaPerform DEF Ema!Scan
<1>4. Well(Ema!Scan15m \o <<Done("15m"), Save>>, XAU, J)
    BY <1>2, WellEnded DEF Well
<1> QED
    BY <1>3, <1>4

\* Every step keeps the invariant.
LEMMA EmaNext ==
    ASSUME Mirrored(XAU), [Ema!Next]_Ema!book
    PROVE  /\ Mirrored(XAU)'
           /\ EmaKnown => EmaKnown'
           /\ EmaKnown /\ SideFollowsTrend => SideFollowsTrend'
<1>1. CASE Ema!CandleCloses("15m", Ema!Candles)
    <2>1. CandleCloses("15m", Ema!Candles)
        BY <1>1, EmaAround
    <2>2. EmaKnown => EmaKnown'
        BY <2>1 DEF CandleCloses, EmaKnown
    <2> QED
        BY <2>1, <2>2, AroundMirrored
<1>2. CASE Ema!ShouldScan
    <2>1. ShouldScanAfterEvent("15m")
        BY <1>2, EmaAround DEF Ema!ShouldScan
    <2>2. EmaKnown => EmaKnown'
        BY <2>1 DEF ShouldScanAfterEvent, EmaKnown
    <2> QED
        BY <2>1, <2>2, AroundMirrored
<1>3. CASE Ema!Scan
    <2>1. PICK plan : Perform(plan) /\ Well(plan, XAU, EmaKnown /\ SideFollowsTrend)
        BY <1>3, EmaScan
    <2>2. EmaKnown => EmaKnown'
        BY <2>1 DEF Perform, EmaKnown
    <2>3. Mirrored(XAU)' /\ (EmaKnown /\ SideFollowsTrend => SideFollowsTrend')
        BY <2>1, WellDone
    <2> QED
        BY <2>2, <2>3
<1>4. CASE Ema!Around(Ema!Reloaded)
    <2>1. Around({p \in LoadPositions : p.symbol = XAU})
        BY <1>4, EmaAround
    <2>2. EmaKnown => EmaKnown'
        BY <2>1 DEF Around, WorkerTakes, WorkerCloses, Restart, EmaKnown
    <2> QED
        BY <2>1, <2>2, AroundMirrored
<1>5. CASE UNCHANGED Ema!book
    <2>1. UNCHANGED book
        BY <1>5, EmaAround
    <2>2. EmaKnown => EmaKnown'
        BY <2>1 DEF book, EmaKnown
    <2> QED
        BY <2>1, <2>2, AroundMirrored
<1> QED
    BY <1>1, <1>2, <1>3, <1>4, <1>5 DEF Ema!Next

LEMMA EmaInit ==
    ASSUME Ema!Init
    PROVE  Mirrored(XAU) /\ SideFollowsTrend /\ ("15m" \in Tf => EmaKnown)
<1>1. PICK c \in Ema!Candles : StartBook({[t \in Tf |-> c]})
    BY EmaAround DEF Ema!Init
<1>2. "15m" \in Tf => EmaKnown
    BY <1>1 DEF StartBook, EmaKnown
<1> QED
    BY <1>1, <1>2, StartMirrored

\* Unless a send failed, a restart overtook a signal or the worker closed a position
\* itself, the worker holds exactly the position of the strategy once it has taken
\* every signal, whatever the candles and however many restarts there were.
THEOREM EmaConverges == Ema!Spec => []Converged
<1>1. Mirrored(XAU) /\ [Ema!Next]_Ema!book => Mirrored(XAU)'
    BY EmaNext
<1>2. Mirrored(XAU) => Converged
    BY MirroredConverges
<1> QED
    BY <1>1, <1>2, EmaInit, PTL DEF Ema!Spec

\* While nothing failed, the position the strategy holds is never against the direction
\* it believes in: a flip closes it before it opens the next one, and a restart adopts
\* the side of the position it found.
THEOREM EmaFacesTrend ==
    ASSUME "15m" \in Tf PROVE Ema!Spec => []SideFollowsTrend
<1> DEFINE Inv == Mirrored(XAU) /\ EmaKnown /\ SideFollowsTrend
<1>1. Ema!Init => Inv
    BY EmaInit
<1>2. Inv /\ [Ema!Next]_Ema!book => Inv'
    BY EmaNext
<1> QED
    BY <1>1, <1>2, PTL DEF Ema!Spec

\* supertrend-adx-4-2-ema13-tp: a scan enters on a flip only.
LEMMA EmaEnters ==
    ASSUME EntryInv(XAU), EmaKnown, Ema!Scan
    PROVE  \E plan : Perform(plan) /\ Enters(plan, XAU)
<1> DEFINE dir == Ema!Bar.dir
<1>1. dir \in {Up, Down}
    BY DEF EmaKnown, Ema!Bar, Ema!Candles, Ema!Directions, Ema!Up, Ema!Down, Up, Down
<1>2. AllNamed(held, XAU)
    BY MindHas DEF EntryInv
<1> HIDE DEF dir
<1>3. Enters(Ema!Scan15m, XAU)
    <2>1. Orderly(<<Seen("15m")>>, dir, XAU, FALSE)
        BY QuietFits, OrderlyOne
    <2>2. CASE Ema!Scan15m = <<>>
        BY <1>1, <2>2, OrderlyNothing DEF Enters
    <2>3. CASE Ema!Scan15m = <<Seen("15m"), Turn(Adopted(dir))>>
        BY <1>1, <2>3, FirstEnters DEF Enters
    <2>4. CASE dir # trend /\ Ema!Scan15m = <<Seen("15m")>> \o Ema!Flip
        <3> DEFINE open == Ema!OpenIfAllowed(held \ Opposed(held, dir), SideOf(dir), now["15m"])
        <3>1. PICK new : new = [id |-> <<now["15m"], SideOf(dir)>>, symbol |-> XAU,
                                side |-> SideOf(dir), previous_adx_peak |-> None,
                                adx_weakness_armed |-> FALSE]
            OBVIOUS
        <3>2. Named(new, XAU) /\ new.side = SideOf(dir)
            BY <3>1 DEF Named
        <3>3. Entering(open, held \ Opposed(held, dir), new)
            BY <3>1 DEF Entering, Ema!OpenIfAllowed, Ema!Send, Send, Ema!Keep, Keep
        <3>4. Ema!Flip = (<<Turn(dir)>> \o Leaving(Opposed(held, dir))) \o open
            BY EmaSteps, Zenon DEF Ema!Flip, Leaving, Opposed, Ema!ClosePosition, dir
        <3>5. \A q \in Opposed(held, dir) : Named(q, XAU)
            BY <1>2 DEF Opposed, AllNamed
        <3> HIDE DEF open
        <3>6. Orderly((<<Turn(dir)>> \o Leaving(Opposed(held, dir))) \o open, dir, XAU, FALSE)
            BY <2>4, <3>2, <3>3, <3>5, TurnsNow, FlipOrderly
        <3> QED
            BY <1>1, <2>1, <2>4, <3>4, <3>6, OrderlyThen DEF Enters
    <2>5. CASE Ema!Scan15m = <<Seen("15m")>> \o <<>>
        <3>1. Orderly(<<>>, dir, XAU, FALSE)
            BY OrderlyNothing
        <3> QED
            BY <1>1, <2>1, <2>5, <3>1, OrderlyThen DEF Enters
    <2>6. CASE held # {} /\ Ema!Scan15m = <<Seen("15m")>> \o Ema!InCycle(Existing(held))
        <3>1. PICK p \in held : Existing(held) = p
            BY <2>6 DEF Existing
        <3>2. Named(p, XAU)
            BY <1>2 DEF AllNamed
        <3>3. PICK q : q = Ema!Weakened(p)
            OBVIOUS
        <3>4. Named(q, XAU) /\ q.id = p.id
            BY <3>2, <3>3 DEF Named, Ema!Weakened
        <3>5. Managed(Ema!InCycle(p), q, q)
            BY <3>3 DEF Managed, Ema!InCycle, Ema!ClosePosition,
                        Ema!Send, Send, Ema!Keep, Keep, Ema!Drop, Drop
        <3>6. Fits(Keep(q), dir, XAU, FALSE)
            BY <3>1, <3>4 DEF Fits, Ids
        <3>7. Orderly(Ema!InCycle(p), dir, XAU, FALSE)
            BY <3>4, <3>5, <3>6, ManagedOrderly
        <3> QED
            BY <1>1, <2>1, <2>6, <3>1, <3>7, OrderlyThen DEF Enters
    <2> QED
        BY <2>2, <2>3, <2>4, <2>5, <2>6, EmaSteps, Zenon DEF Ema!Scan15m, dir
<1>4. Perform(Ema!Scan15m \o <<Done("15m"), Save>>)
    BY EmaSteps, EmaPerform DEF Ema!Scan
<1>5. Enters(Ema!Scan15m \o <<Done("15m"), Save>>, XAU)
    BY <1>3, EndOrderly DEF Enters
<1> QED
    BY <1>4, <1>5

LEMMA EmaEntryNext ==
    ASSUME EntryInv(XAU), EmaKnown, [Ema!Next]_Ema!book
    PROVE  EntryInv(XAU)' /\ OneEntryPerTurn
<1>1. CASE Ema!Scan
    BY <1>1, EmaEnters, EntryOnce DEF Enters
<1>2. CASE ~ Ema!Scan
    BY <1>2, EmaAround, AroundEntry DEF Ema!Next, Ema!ShouldScan
<1> QED
    BY <1>1, <1>2

\* Within one life supertrend-adx-4-2-ema13-tp takes one position per turn of the trend at most,
\* even if sends fail, restarts overtake signals or the worker closes a position itself:
\* after an exit it stays flat until the trend turns again.
THEOREM EmaEntersOncePerTurn ==
    ASSUME "15m" \in Tf PROVE Ema!Spec => [][OneEntryPerTurn]_book
<1> DEFINE Inv == Mirrored(XAU) /\ EmaKnown /\ EntryInv(XAU)
<1>1. Ema!Init => Inv
    <2>1. Ema!Init => EntryInv(XAU)
        BY EmaAround, StartEntry DEF Ema!Init
    <2> QED
        BY <2>1, EmaInit
<1>2. Inv /\ [Ema!Next]_Ema!book => Inv' /\ OneEntryPerTurn
    BY EmaNext, EmaEntryNext
<1> QED
    BY <1>1, <1>2, PTL DEF Ema!Spec

-----------------------------------------------------------------------------
(* smooth-chan *)
Chan == INSTANCE SmoothChan

LEMMA ChanSteps ==
    /\ \A k, p : Chan!Send(k, p) = Send(k, p)
    /\ \A p : Chan!Keep(p) = Keep(p)
    /\ \A p : Chan!Drop(p) = Drop(p)
    /\ \A d : Chan!Turn(d) = Turn(d)
    /\ \A t : Chan!Seen(t) = Seen(t)
    /\ \A t : Chan!Done(t) = Done(t)
    /\ Chan!Save = Save
    /\ \A d : Chan!SideOf(d) = SideOf(d)
    /\ \A d : Chan!Toward(d) = Toward(d)
    /\ \A P : Chan!Existing(P) = Existing(P)
    /\ \A d : Chan!Adopted(d) = Adopted(d)
    /\ \A t : Chan!Asked(t) <=> Asked(t)
    /\ Chan!Up = Up
    /\ Chan!Down = Down
<1>1. \A k, p : Chan!Send(k, p) = Send(k, p)
    BY Zenon DEF Chan!Send, Send
<1>2. \A p : Chan!Keep(p) = Keep(p)
    BY Zenon DEF Chan!Keep, Keep
<1>3. \A p : Chan!Drop(p) = Drop(p)
    BY Zenon DEF Chan!Drop, Drop
<1>4. \A d : Chan!Turn(d) = Turn(d)
    BY Zenon DEF Chan!Turn, Turn
<1>5. \A t : Chan!Seen(t) = Seen(t)
    BY Zenon DEF Chan!Seen, Seen
<1>6. \A t : Chan!Done(t) = Done(t)
    BY Zenon DEF Chan!Done, Done
<1>7. Chan!Save = Save
    BY Zenon DEF Chan!Save, Save
<1>8. \A d : Chan!SideOf(d) = SideOf(d)
    BY Zenon DEF Chan!SideOf, SideOf, Chan!Up, Up, Chan!Down, Down
<1>9. \A d : Chan!Toward(d) = Toward(d)
    BY Zenon DEF Chan!Toward, Toward, Chan!Up, Up, Chan!Down, Down
<1>10. \A P : Chan!Existing(P) = Existing(P)
    BY Zenon DEF Chan!Existing, Existing
<1>11. \A d : Chan!Adopted(d) = Adopted(d)
    BY Zenon DEF Chan!Adopted, Adopted, Chan!Existing, Existing, Chan!Toward, Toward, Chan!Up, Up, Chan!Down, Down
<1>12. \A t : Chan!Asked(t) <=> Asked(t)
    BY Zenon DEF Chan!Asked, Asked
<1>13. Chan!Up = Up
    BY Zenon DEF Chan!Up, Up
<1>14. Chan!Down = Down
    BY Zenon DEF Chan!Down, Down
<1> QED
    BY <1>1, <1>2, <1>3, <1>4, <1>5, <1>6, <1>7, <1>8, <1>9, <1>10, <1>11, <1>12, <1>13, <1>14

LEMMA ChanAfter ==
    ASSUME NEW plan PROVE Chan!AfterPlan(plan) = AfterPlan(plan)
<1>1. \A s : Chan!AfterFrom(s, plan) = AfterFrom(s, plan)
    BY Zenon DEF Chan!AfterFrom, AfterFrom, Chan!Performed, Performed, Chan!Others, Others,
        Chan!Dispatched, Dispatched, Chan!Remembering, Remembering, Chan!Repeated, Repeated
<1> QED
    BY <1>1 DEF Chan!AfterPlan, AfterPlan, Chan!Mind, Mind

LEMMA ChanPerform ==
    ASSUME NEW plan, Chan!Perform(plan) PROVE Perform(plan)
<1>1. \A S : Chan!NewIn(S) = NewIn(S)
    BY DEF Chan!NewIn, NewIn
<1>2. \A s : Chan!Becomes(s) => Becomes(s)
    BY <1>1 DEF Chan!Becomes, Becomes
<1>3. \A p : Chan!AfterPlan(p) = AfterPlan(p)
    BY ChanAfter
<1>4. \A s, e : Chan!Raises(s, e) => Raises(s, e)
    BY <1>2, Zenon DEF Chan!Raises, Raises, Chan!Repeated, Repeated,
        Chan!Remembering, Remembering
<1> QED
    BY <1>2, <1>3, <1>4, Zenon DEF Chan!Perform, Perform, Chan!RemoveAt, RemoveAt

LEMMA ChanAround ==
    /\ \A C : Chan!StartBook(C) => StartBook(C)
    /\ Chan!Around(Chan!Reloaded) => Around({p \in LoadPositions : p.symbol = XAU})
    /\ \A t, C : Chan!CandleCloses(t, C) => CandleCloses(t, C)
    /\ \A t : Chan!ShouldScanAfterEvent(t) => ShouldScanAfterEvent(t)
    /\ UNCHANGED Chan!book => UNCHANGED book
<1>1. \A C : Chan!StartBook(C) => StartBook(C)
    BY DEF Chan!StartBook, StartBook
<1>2. Chan!WorkerTakes => WorkerTakes
    BY DEF Chan!WorkerTakes, WorkerTakes, Chan!Taken, Taken, Chan!Others, Others
<1>3. Chan!WorkerCloses => WorkerCloses
    BY DEF Chan!WorkerCloses, WorkerCloses
<1>4. \A P : Chan!Restart(P) => Restart(P)
    BY DEF Chan!Restart, Restart
<1>5. Chan!Reloaded = {p \in LoadPositions : p.symbol = XAU}
    BY DEF Chan!Reloaded, Chan!LoadPositions, LoadPositions
<1>6. Chan!Around(Chan!Reloaded) => Around({p \in LoadPositions : p.symbol = XAU})
    BY <1>2, <1>3, <1>4, <1>5, Zenon DEF Chan!Around, Around
<1>7. \A t, C : Chan!CandleCloses(t, C) => CandleCloses(t, C)
    BY DEF Chan!CandleCloses, CandleCloses
<1>8. \A t : Chan!ShouldScanAfterEvent(t) => ShouldScanAfterEvent(t)
    BY DEF Chan!ShouldScanAfterEvent, ShouldScanAfterEvent
<1>9. UNCHANGED Chan!book => UNCHANGED book
    BY DEF Chan!book, book
<1> QED
    BY <1>1, <1>6, <1>7, <1>8, <1>9

ChanKnown == "src" \in Tf /\ candle \in [Tf -> Chan!Bars]

LEMMA ChanScan ==
    ASSUME Mirrored(XAU), Chan!Scan
    PROVE  \E plan : Perform(plan) /\ Well(plan, XAU, ChanKnown /\ SideFollowsTrend)
<1> DEFINE J == ChanKnown /\ SideFollowsTrend
           dir == Chan!Bar.dir
           managed == <<Seen("src")>>
                      \o (IF held = {} THEN <<>> ELSE Chan!ManageExits(Existing(held)))
<1>1. J => dir \in {Up, Down}
    BY DEF ChanKnown, Chan!Bar, Chan!Bars, Chan!Directions, Chan!Up, Chan!Down, Up, Down
<1>2. ASSUME faults = 0
      PROVE  \E t : Moved(Mind, Chan!ScanEff, t, XAU) /\ (J => Facing(t))
    <2>1. PICK a : /\ Moved(Mind, <<Seen("src")>>, a, XAU)
                   /\ a.held = held /\ a.trend = trend
        BY <1>2, SeenMoved
    <2>2. Agreed(worker, a, XAU) /\ Agreed(worker, Mind, XAU)
        BY <1>2, <2>1, MirroredMind DEF Moved
    <2>3. J => Facing(a) /\ Facing(Mind)
        BY <1>2, <2>1, MirroredMind DEF SideFollowsTrend, Facing
    <2>4. PICK b : /\ Moved(Mind, managed, b, XAU) /\ b.trend = trend
                   /\ J => Facing(b)
        <3>1. CASE held = {}
            <4>1. Moved(a, <<>>, a, XAU)
                BY <2>2, StayMoved
            <4> QED
                BY <2>1, <2>3, <3>1, <4>1, MovedOn
        <3>2. CASE held # {}
            <4>1. PICK p \in a.held : Existing(held) = p
                BY <2>1, <3>2 DEF Existing
            <4>2. Named(p, XAU)
                BY <2>2 DEF Agreed
            <4>3. PICK armed :
                    armed = [p EXCEPT !.be = @ \/ Chan!Best(p) > Chan!Sign(p) * p.entry + BeDist]
                OBVIOUS
            <4>4. PICK moved :
                    moved = [armed EXCEPT !.wm = Chan!Sign(p)
                                 * Chan!Larger(Chan!Sign(p) * @, Chan!Best(p))]
                OBVIOUS
            <4>5. /\ Named(armed, XAU) /\ armed.id = p.id /\ armed.side = p.side
                  /\ Named(moved, XAU) /\ moved.id = p.id /\ moved.side = p.side
                BY <4>2, <4>3, <4>4 DEF Named
            <4>6. \/ Chan!ManageExits(p) = <<Send("CLOSE", p), Drop(p)>>
                  \/ Chan!ManageExits(p) = <<Keep(armed)>> \o <<Send("CLOSE", armed), Drop(armed)>>
                  \/ Chan!ManageExits(p) = <<Keep(moved)>>
                BY <4>3, <4>4, Zenon DEF Chan!ManageExits, Chan!ClosePosition,
                    Chan!Send, Send, Chan!Keep, Keep, Chan!Drop, Drop
            <4>7. PICK q, c : /\ q \in {armed, moved} /\ c \in {p, armed}
                              /\ Managed(Chan!ManageExits(p), q, c)
                BY <4>6 DEF Managed
            <4>8. Named(q, XAU) /\ q.id = p.id /\ q.side = p.side /\ c.id = p.id
                BY <4>5, <4>7
            <4>9. PICK t : /\ Moved(a, Chan!ManageExits(p), t, XAU)
                           /\ t.trend = a.trend /\ \A r \in t.held : r.side = p.side
                BY <2>2, <4>7, <4>8, ManagedMoved
            <4> QED
                BY <2>1, <2>3, <3>2, <4>1, <4>9, MovedOn DEF Facing
        <3> QED
            BY <3>1, <3>2
    <2>5. AfterPlan(managed).held = b.held /\ Agreed(worker, b, XAU)
        BY <2>4 DEF Moved, AfterPlan
    <2>6. CASE Chan!ScanEff = <<>>
        BY <2>2, <2>3, <2>6, StayMoved
    <2>7. CASE Chan!ScanEff = <<Seen("src"), Turn(Adopted(dir))>>
        BY <1>2, <2>7, FirstMoved
    <2>8. CASE Chan!ScanEff = managed
        BY <2>4, <2>8
    <2> DEFINE left == b.held
               open == Chan!OpenIfAllowed(left \ Opposed(left, dir), SideOf(dir), now["src"])
    <2>9. CASE Chan!ScanEff = ((managed \o <<Turn(dir)>>) \o Leaving(Opposed(left, dir))) \o open
        <3>1. PICK c : Moved(b, <<Turn(dir)>>, c, XAU) /\ c.held = left /\ c.trend = dir
            BY <2>5, MarksMoved
        <3>2. Moved(Mind, managed \o <<Turn(dir)>>, c, XAU)
            BY <2>4, <3>1, MovedOn
        <3>3. PICK new : new = [id |-> <<now["src"], SideOf(dir)>>, symbol |-> XAU,
                                side |-> SideOf(dir), entry |-> Chan!Bar.open,
                                wm |-> Chan!Bar.open, be |-> FALSE]
            OBVIOUS
        <3>4. Named(new, XAU) /\ new.side = SideOf(dir)
            BY <3>3 DEF Named
        <3>5. Entering(open, c.held \ Opposed(c.held, dir), new)
            BY <3>1, <3>3 DEF Entering, Chan!OpenIfAllowed, Chan!Send, Send, Chan!Keep, Keep
        <3> HIDE DEF open, managed
        <3>6. PICK u : /\ Moved(Mind, Chan!ScanEff, u, XAU) /\ u.trend = dir
                       /\ dir \in {Up, Down} => \A q \in u.held : Toward(q.side) = dir
            BY <2>9, <3>1, <3>2, <3>4, <3>5, FlipMoved
        <3> QED
            BY <1>1, <3>6 DEF Facing
    <2>10. \/ Chan!ScanEff = <<>>
           \/ Chan!ScanEff = <<Seen("src"), Turn(Adopted(dir))>>
           \/ Chan!ScanEff = managed
           \/ Chan!ScanEff = ((managed \o <<Turn(dir)>>)
                              \o Leaving(Opposed(AfterPlan(managed).held, dir)))
                             \o Chan!OpenIfAllowed(AfterPlan(managed).held
                                    \ Opposed(AfterPlan(managed).held, dir), SideOf(dir), now["src"])
        BY ChanSteps, ChanAfter, Zenon DEF Chan!ScanEff, Leaving, Opposed, Chan!ClosePosition
    <2> QED
        BY <2>5, <2>6, <2>7, <2>8, <2>9, <2>10, Zenon
<1>3. Perform(Chan!ScanEff \o <<Done("src"), Save>>)
    BY ChanSteps, ChanPerform DEF Chan!Scan
<1>4. Well(Chan!ScanEff \o <<Done("src"), Save>>, XAU, J)
    BY <1>2, WellEnded DEF Well
<1> QED
    BY <1>3, <1>4

\* Every step keeps the invariant.
LEMMA ChanNext ==
    ASSUME Mirrored(XAU), [Chan!Next]_Chan!book
    PROVE  /\ Mirrored(XAU)'
           /\ ChanKnown => ChanKnown'
           /\ ChanKnown /\ SideFollowsTrend => SideFollowsTrend'
<1>1. CASE Chan!CandleCloses("src", Chan!Bars)
    <2>1. CandleCloses("src", Chan!Bars)
        BY <1>1, ChanAround
    <2>2. ChanKnown => ChanKnown'
        BY <2>1 DEF CandleCloses, ChanKnown
    <2> QED
        BY <2>1, <2>2, AroundMirrored
<1>2. CASE Chan!ShouldScanEff
    <2>1. ShouldScanAfterEvent("src")
        BY <1>2, ChanAround DEF Chan!ShouldScanEff
    <2>2. ChanKnown => ChanKnown'
        BY <2>1 DEF ShouldScanAfterEvent, ChanKnown
    <2> QED
        BY <2>1, <2>2, AroundMirrored
<1>3. CASE Chan!Scan
    <2>1. PICK plan : Perform(plan) /\ Well(plan, XAU, ChanKnown /\ SideFollowsTrend)
        BY <1>3, ChanScan
    <2>2. ChanKnown => ChanKnown'
        BY <2>1 DEF Perform, ChanKnown
    <2>3. Mirrored(XAU)' /\ (ChanKnown /\ SideFollowsTrend => SideFollowsTrend')
        BY <2>1, WellDone
    <2> QED
        BY <2>2, <2>3
<1>4. CASE Chan!Around(Chan!Reloaded)
    <2>1. Around({p \in LoadPositions : p.symbol = XAU})
        BY <1>4, ChanAround
    <2>2. ChanKnown => ChanKnown'
        BY <2>1 DEF Around, WorkerTakes, WorkerCloses, Restart, ChanKnown
    <2> QED
        BY <2>1, <2>2, AroundMirrored
<1>5. CASE UNCHANGED Chan!book
    <2>1. UNCHANGED book
        BY <1>5, ChanAround
    <2>2. ChanKnown => ChanKnown'
        BY <2>1 DEF book, ChanKnown
    <2> QED
        BY <2>1, <2>2, AroundMirrored
<1> QED
    BY <1>1, <1>2, <1>3, <1>4, <1>5 DEF Chan!Next

LEMMA ChanInit ==
    ASSUME Chan!Init
    PROVE  Mirrored(XAU) /\ SideFollowsTrend /\ ("src" \in Tf => ChanKnown)
<1>1. PICK c \in Chan!Bars : StartBook({[t \in Tf |-> c]})
    BY ChanAround DEF Chan!Init
<1>2. "src" \in Tf => ChanKnown
    BY <1>1 DEF StartBook, ChanKnown
<1> QED
    BY <1>1, <1>2, StartMirrored

\* Unless a send failed, a restart overtook a signal or the worker closed a position
\* itself, the worker holds exactly the position of the strategy once it has taken
\* every signal, whatever the candles and however many restarts there were.
THEOREM ChanConverges == Chan!Spec => []Converged
<1>1. Mirrored(XAU) /\ [Chan!Next]_Chan!book => Mirrored(XAU)'
    BY ChanNext
<1>2. Mirrored(XAU) => Converged
    BY MirroredConverges
<1> QED
    BY <1>1, <1>2, ChanInit, PTL DEF Chan!Spec

\* While nothing failed, the position the strategy holds is never against the direction
\* it believes in: a flip closes it before it opens the next one, and a restart adopts
\* the side of the position it found.
THEOREM ChanFacesTrend ==
    ASSUME "src" \in Tf PROVE Chan!Spec => []SideFollowsTrend
<1> DEFINE Inv == Mirrored(XAU) /\ ChanKnown /\ SideFollowsTrend
<1>1. Chan!Init => Inv
    BY ChanInit
<1>2. Inv /\ [Chan!Next]_Chan!book => Inv'
    BY ChanNext
<1> QED
    BY <1>1, <1>2, PTL DEF Chan!Spec

\* smooth-chan: a scan enters on a flip only.
LEMMA ChanEnters ==
    ASSUME EntryInv(XAU), ChanKnown, Chan!Scan
    PROVE  \E plan : Perform(plan) /\ Enters(plan, XAU)
<1> DEFINE dir == Chan!Bar.dir
           managed == <<Seen("src")>>
                      \o (IF held = {} THEN <<>> ELSE Chan!ManageExits(Existing(held)))
           left == AfterPlan(managed).held
           open == Chan!OpenIfAllowed(left \ Opposed(left, dir), SideOf(dir), now["src"])
<1>1. dir \in {Up, Down}
    BY DEF ChanKnown, Chan!Bar, Chan!Bars, Chan!Directions, Chan!Up, Chan!Down, Up, Down
<1>2. AllNamed(held, XAU) /\ NamedMind(Mind, XAU)
    BY MindHas DEF EntryInv
<1>3. \/ Chan!ScanEff = <<>>
      \/ Chan!ScanEff = <<Seen("src"), Turn(Adopted(dir))>>
      \/ Chan!ScanEff = managed
      \/ /\ dir # trend
         /\ Chan!ScanEff = ((managed \o <<Turn(dir)>>) \o Leaving(Opposed(left, dir))) \o open
    BY ChanSteps, ChanAfter, Zenon DEF Chan!ScanEff, Leaving, Opposed, Chan!ClosePosition
<1>4. PICK new : new = [id |-> <<now["src"], SideOf(dir)>>, symbol |-> XAU,
                        side |-> SideOf(dir), entry |-> Chan!Bar.open,
                        wm |-> Chan!Bar.open, be |-> FALSE]
    OBVIOUS
<1>5. Named(new, XAU) /\ new.side = SideOf(dir)
    BY <1>4 DEF Named
<1>6. Entering(open, left \ Opposed(left, dir), new)
    BY <1>4 DEF Entering, Chan!OpenIfAllowed, Chan!Send, Send, Chan!Keep, Keep
<1> HIDE DEF dir
<1>7. Orderly(managed, dir, XAU, FALSE)
    <2>1. Orderly(<<Seen("src")>>, dir, XAU, FALSE)
        BY QuietFits, OrderlyOne
    <2>2. CASE held = {}
        <3>1. Orderly(<<>>, dir, XAU, FALSE)
            BY OrderlyNothing
        <3> QED
            BY <2>1, <2>2, <3>1, OrderlyThen
    <2>3. CASE held # {}
        <3>1. PICK p \in held : Existing(held) = p
            BY <2>3 DEF Existing
        <3>2. Named(p, XAU)
            BY <1>2 DEF AllNamed
        <3>3. PICK armed :
                armed = [p EXCEPT !.be = @ \/ Chan!Best(p) > Chan!Sign(p) * p.entry + BeDist]
            OBVIOUS
        <3>4. PICK moved :
                moved = [armed EXCEPT !.wm = Chan!Sign(p)
                             * Chan!Larger(Chan!Sign(p) * @, Chan!Best(p))]
            OBVIOUS
        <3>5. /\ Named(armed, XAU) /\ armed.id = p.id
              /\ Named(moved, XAU) /\ moved.id = p.id
            BY <3>2, <3>3, <3>4 DEF Named
        <3>6. \/ Chan!ManageExits(p) = <<Send("CLOSE", p), Drop(p)>>
              \/ Chan!ManageExits(p) = <<Keep(armed)>> \o <<Send("CLOSE", armed), Drop(armed)>>
              \/ Chan!ManageExits(p) = <<Keep(moved)>>
            BY <3>3, <3>4, Zenon DEF Chan!ManageExits, Chan!ClosePosition,
                Chan!Send, Send, Chan!Keep, Keep, Chan!Drop, Drop
        <3>7. PICK q, c : /\ q \in {armed, moved} /\ c \in {p, armed}
                          /\ Managed(Chan!ManageExits(p), q, c)
            BY <3>6 DEF Managed
        <3>8. Fits(Keep(q), dir, XAU, FALSE) /\ Named(c, XAU)
            BY <3>1, <3>2, <3>5, <3>7 DEF Fits, Ids
        <3>9. Orderly(Chan!ManageExits(p), dir, XAU, FALSE)
            BY <3>7, <3>8, ManagedOrderly
        <3> QED
            BY <2>1, <2>3, <3>1, <3>9, OrderlyThen
    <2> QED
        BY <2>2, <2>3
<1> HIDE DEF managed
<1>8. \A q \in Opposed(left, dir) : Named(q, XAU)
    BY <1>2, <1>7, OrderlyRun DEF NamedMind, AllNamed, Opposed
<1> HIDE DEF left, open
<1>9. Enters(Chan!ScanEff, XAU)
    <2>1. CASE Chan!ScanEff = <<>>
        BY <1>1, <2>1, OrderlyNothing DEF Enters
    <2>2. CASE Chan!ScanEff = <<Seen("src"), Turn(Adopted(dir))>>
        BY <1>1, <2>2, FirstEnters DEF Enters
    <2>3. CASE Chan!ScanEff = managed
        BY <1>1, <1>7, <2>3 DEF Enters
    <2>4. CASE /\ dir # trend
               /\ Chan!ScanEff = ((managed \o <<Turn(dir)>>) \o Leaving(Opposed(left, dir))) \o open
        <3>1. PICK a : a = managed \o <<Turn(dir)>>
            OBVIOUS
        <3>2. Orderly(a, dir, XAU, FALSE) /\ Turns(a, dir)
            BY <1>7, <3>1, TurnsNow, OrderlyBoth
        <3>3. Orderly((a \o Leaving(Opposed(left, dir))) \o open, dir, XAU, FALSE)
            BY <1>5, <1>6, <1>8, <2>4, <3>2, FlipOrderly
        <3> QED
            BY <1>1, <2>4, <3>1, <3>3 DEF Enters
    <2> QED
        BY <1>3, <2>1, <2>2, <2>3, <2>4
<1>10. Perform(Chan!ScanEff \o <<Done("src"), Save>>)
    BY ChanSteps, ChanPerform DEF Chan!Scan
<1>11. Enters(Chan!ScanEff \o <<Done("src"), Save>>, XAU)
    BY <1>9, EndOrderly DEF Enters
<1> QED
    BY <1>10, <1>11

LEMMA ChanEntryNext ==
    ASSUME EntryInv(XAU), ChanKnown, [Chan!Next]_Chan!book
    PROVE  EntryInv(XAU)' /\ OneEntryPerTurn
<1>1. CASE Chan!Scan
    BY <1>1, ChanEnters, EntryOnce DEF Enters
<1>2. CASE ~ Chan!Scan
    BY <1>2, ChanAround, AroundEntry DEF Chan!Next, Chan!ShouldScanEff
<1> QED
    BY <1>1, <1>2

\* Within one life smooth-chan takes one position per turn of the trend at most,
\* even if sends fail, restarts overtake signals or the worker closes a position itself:
\* after an exit it stays flat until the trend turns again.
THEOREM ChanEntersOncePerTurn ==
    ASSUME "src" \in Tf PROVE Chan!Spec => [][OneEntryPerTurn]_book
<1> DEFINE Inv == Mirrored(XAU) /\ ChanKnown /\ EntryInv(XAU)
<1>1. Chan!Init => Inv
    <2>1. Chan!Init => EntryInv(XAU)
        BY ChanAround, StartEntry DEF Chan!Init
    <2> QED
        BY <2>1, ChanInit
<1>2. Inv /\ [Chan!Next]_Chan!book => Inv' /\ OneEntryPerTurn
    BY ChanNext, ChanEntryNext
<1> QED
    BY <1>1, <1>2, PTL DEF Chan!Spec

-----------------------------------------------------------------------------
(* supertrend-xau-v2 *)
V2 == INSTANCE SupertrendXauV2

LEMMA V2Steps ==
    /\ \A k, p : V2!Send(k, p) = Send(k, p)
    /\ \A p : V2!Keep(p) = Keep(p)
    /\ \A p : V2!Drop(p) = Drop(p)
    /\ \A d : V2!Turn(d) = Turn(d)
    /\ \A t : V2!Seen(t) = Seen(t)
    /\ \A t : V2!Done(t) = Done(t)
    /\ V2!Save = Save
    /\ \A d : V2!SideOf(d) = SideOf(d)
    /\ \A d : V2!Toward(d) = Toward(d)
    /\ \A P : V2!Existing(P) = Existing(P)
    /\ \A d : V2!Adopted(d) = Adopted(d)
    /\ \A t : V2!Asked(t) <=> Asked(t)
    /\ V2!Up = Up
    /\ V2!Down = Down
<1>1. \A k, p : V2!Send(k, p) = Send(k, p)
    BY Zenon DEF V2!Send, Send
<1>2. \A p : V2!Keep(p) = Keep(p)
    BY Zenon DEF V2!Keep, Keep
<1>3. \A p : V2!Drop(p) = Drop(p)
    BY Zenon DEF V2!Drop, Drop
<1>4. \A d : V2!Turn(d) = Turn(d)
    BY Zenon DEF V2!Turn, Turn
<1>5. \A t : V2!Seen(t) = Seen(t)
    BY Zenon DEF V2!Seen, Seen
<1>6. \A t : V2!Done(t) = Done(t)
    BY Zenon DEF V2!Done, Done
<1>7. V2!Save = Save
    BY Zenon DEF V2!Save, Save
<1>8. \A d : V2!SideOf(d) = SideOf(d)
    BY Zenon DEF V2!SideOf, SideOf, V2!Up, Up, V2!Down, Down
<1>9. \A d : V2!Toward(d) = Toward(d)
    BY Zenon DEF V2!Toward, Toward, V2!Up, Up, V2!Down, Down
<1>10. \A P : V2!Existing(P) = Existing(P)
    BY Zenon DEF V2!Existing, Existing
<1>11. \A d : V2!Adopted(d) = Adopted(d)
    BY Zenon DEF V2!Adopted, Adopted, V2!Existing, Existing, V2!Toward, Toward, V2!Up, Up, V2!Down, Down
<1>12. \A t : V2!Asked(t) <=> Asked(t)
    BY Zenon DEF V2!Asked, Asked
<1>13. V2!Up = Up
    BY Zenon DEF V2!Up, Up
<1>14. V2!Down = Down
    BY Zenon DEF V2!Down, Down
<1> QED
    BY <1>1, <1>2, <1>3, <1>4, <1>5, <1>6, <1>7, <1>8, <1>9, <1>10, <1>11, <1>12, <1>13, <1>14

LEMMA V2After ==
    ASSUME NEW plan PROVE V2!AfterPlan(plan) = AfterPlan(plan)
<1>1. \A s : V2!AfterFrom(s, plan) = AfterFrom(s, plan)
    BY Zenon DEF V2!AfterFrom, AfterFrom, V2!Performed, Performed, V2!Others, Others,
        V2!Dispatched, Dispatched, V2!Remembering, Remembering, V2!Repeated, Repeated
<1> QED
    BY <1>1 DEF V2!AfterPlan, AfterPlan, V2!Mind, Mind

LEMMA V2Perform ==
    ASSUME NEW plan, V2!Perform(plan) PROVE Perform(plan)
<1>1. \A S : V2!NewIn(S) = NewIn(S)
    BY DEF V2!NewIn, NewIn
<1>2. \A s : V2!Becomes(s) => Becomes(s)
    BY <1>1 DEF V2!Becomes, Becomes
<1>3. \A p : V2!AfterPlan(p) = AfterPlan(p)
    BY V2After
<1>4. \A s, e : V2!Raises(s, e) => Raises(s, e)
    BY <1>2, Zenon DEF V2!Raises, Raises, V2!Repeated, Repeated,
        V2!Remembering, Remembering
<1> QED
    BY <1>2, <1>3, <1>4, Zenon DEF V2!Perform, Perform, V2!RemoveAt, RemoveAt

LEMMA V2Around ==
    /\ \A C : V2!StartBook(C) => StartBook(C)
    /\ V2!Around(V2!Reloaded) => Around({p \in LoadPositions : p.symbol = XAU})
    /\ \A t, C : V2!CandleCloses(t, C) => CandleCloses(t, C)
    /\ \A t : V2!ShouldScanAfterEvent(t) => ShouldScanAfterEvent(t)
    /\ UNCHANGED V2!book => UNCHANGED book
<1>1. \A C : V2!StartBook(C) => StartBook(C)
    BY DEF V2!StartBook, StartBook
<1>2. V2!WorkerTakes => WorkerTakes
    BY DEF V2!WorkerTakes, WorkerTakes, V2!Taken, Taken, V2!Others, Others
<1>3. V2!WorkerCloses => WorkerCloses
    BY DEF V2!WorkerCloses, WorkerCloses
<1>4. \A P : V2!Restart(P) => Restart(P)
    BY DEF V2!Restart, Restart
<1>5. V2!Reloaded = {p \in LoadPositions : p.symbol = XAU}
    BY DEF V2!Reloaded, V2!LoadPositions, LoadPositions
<1>6. V2!Around(V2!Reloaded) => Around({p \in LoadPositions : p.symbol = XAU})
    BY <1>2, <1>3, <1>4, <1>5, Zenon DEF V2!Around, Around
<1>7. \A t, C : V2!CandleCloses(t, C) => CandleCloses(t, C)
    BY DEF V2!CandleCloses, CandleCloses
<1>8. \A t : V2!ShouldScanAfterEvent(t) => ShouldScanAfterEvent(t)
    BY DEF V2!ShouldScanAfterEvent, ShouldScanAfterEvent
<1>9. UNCHANGED V2!book => UNCHANGED book
    BY DEF V2!book, book
<1> QED
    BY <1>1, <1>6, <1>7, <1>8, <1>9

V2Known ==
    /\ "15m" \in Tf /\ candle = [t \in Tf |-> candle[t]] /\ candle["15m"] \in V2!Quarters

\* The 15m half of a scan: a flip, or nothing.
LEMMA V2Quarter ==
    ASSUME Mirrored(XAU), faults = 0
    PROVE  \E t : /\ Moved(Mind, V2!Scan15m, t, XAU)
                  /\ V2Known /\ SideFollowsTrend => Facing(t)
<1> DEFINE J == V2Known /\ SideFollowsTrend
           dir == candle["15m"].dir
<1>1. J => dir \in {Up, Down}
    BY DEF V2Known, V2!Quarters, V2!Directions, V2!Up, V2!Down, Up, Down
<1>2. PICK a : /\ Moved(Mind, <<Seen("15m")>>, a, XAU)
               /\ a.held = held /\ a.trend = trend
    BY SeenMoved
<1>3. Agreed(worker, a, XAU) /\ Agreed(worker, Mind, XAU)
    BY <1>2, MirroredMind DEF Moved
<1>4. J => Facing(a) /\ Facing(Mind)
    BY <1>2, MirroredMind DEF SideFollowsTrend, Facing
<1>5. CASE V2!Scan15m = <<>>
    BY <1>3, <1>4, <1>5, StayMoved
<1>6. CASE V2!Scan15m = <<Seen("15m"), Turn(Adopted(dir))>>
    BY <1>6, FirstMoved
<1>7. CASE V2!Scan15m = <<Seen("15m")>>
    BY <1>2, <1>4, <1>7
<1> DEFINE open == V2!OpenIfAllowed(held \ Opposed(held, dir), SideOf(dir), now["15m"])
<1>8. CASE V2!Scan15m = (<<Seen("15m"), Turn(dir)>> \o Leaving(Opposed(held, dir))) \o open
    <2>1. PICK b : Moved(a, <<Turn(dir)>>, b, XAU) /\ b.held = held /\ b.trend = dir
        BY <1>2, <1>3, MarksMoved
    <2>2. PICK e, f : e = Seen("15m") /\ f = Turn(dir)
        OBVIOUS
    <2>3. Moved(Mind, <<e, f>>, b, XAU)
        BY <1>2, <2>1, <2>2, TwoMoved
    <2>4. PICK new : new = [id |-> <<now["15m"], SideOf(dir)>>, symbol |-> XAU,
                            side |-> SideOf(dir),
                            entry |-> candle["15m"].close, best |-> candle["15m"].close,
                            active_trailing |-> None]
        OBVIOUS
    <2>5. Named(new, XAU) /\ new.side = SideOf(dir)
        BY <2>4 DEF Named
    <2>6. Entering(open, b.held \ Opposed(b.held, dir), new)
        BY <2>1, <2>4 DEF Entering, V2!OpenIfAllowed, V2!Send, Send, V2!Keep, Keep
    <2> HIDE DEF open
    <2>7. PICK u : /\ Moved(Mind, (<<e, f>> \o Leaving(Opposed(held, dir))) \o open, u, XAU)
                   /\ u.trend = dir
                   /\ dir \in {Up, Down} => \A q \in u.held : Toward(q.side) = dir
        BY <2>1, <2>3, <2>5, <2>6, FlipMoved
    <2> QED
        BY <1>1, <1>8, <2>2, <2>7 DEF Facing
<1> QED
    BY <1>5, <1>6, <1>7, <1>8, V2Steps, Zenon
       DEF V2!Scan15m, Leaving, Opposed, V2!ClosePosition

\* The minute: the trailing exit of the position the 15m half left.
LEMMA V2Minute ==
    ASSUME NEW s, Agreed(worker, s, XAU)
    PROVE  \E t : /\ Moved(s, V2!Scan1m(s.held), t, XAU)
                  /\ Facing(s) => Facing(t)
<1>1. PICK a : Moved(s, <<Seen("1m")>>, a, XAU) /\ a.held = s.held /\ a.trend = s.trend
    BY MarksMoved
<1>2. CASE V2!Scan1m(s.held) = <<>>
    BY <1>2, StayMoved
<1>3. CASE V2!Scan1m(s.held) = <<Seen("1m")>>
    BY <1>1, <1>3 DEF Facing
<1>4. PICK p : p = Existing(s.held)
    OBVIOUS
<1>5. PICK step : step = IF p.side = "LONG" THEN V2!ProcessLongMinute(p, candle["1m"])
                         ELSE V2!ProcessShortMinute(p, candle["1m"])
    OBVIOUS
<1>6. PICK q : q = [p EXCEPT !.best = step.best, !.active_trailing = step.next]
    OBVIOUS
<1>7. CASE /\ s.held # {}
           /\ V2!Scan1m(s.held)
                = <<Seen("1m")>> \o (IF step.exited THEN <<Send("CLOSE", p), Drop(p)>> ELSE <<Keep(q)>>)
    <2>1. p \in a.held
        BY <1>1, <1>4, <1>7 DEF Existing
    <2>2. Agreed(worker, a, XAU) /\ Named(p, XAU)
        BY <1>1, <2>1 DEF Moved, Agreed
    <2>3. Named(q, XAU) /\ q.id = p.id /\ q.side = p.side
        BY <1>6, <2>2 DEF Named
    <2>4. PICK plan : plan = IF step.exited THEN <<Send("CLOSE", p), Drop(p)>> ELSE <<Keep(q)>>
        OBVIOUS
    <2>5. Managed(plan, q, p)
        BY <2>4 DEF Managed
    <2>6. PICK t : /\ Moved(a, plan, t, XAU)
                   /\ t.trend = a.trend /\ \A r \in t.held : r.side = p.side
        BY <2>1, <2>2, <2>3, <2>5, ManagedMoved
    <2>7. Moved(s, V2!Scan1m(s.held), t, XAU)
        BY <1>1, <1>7, <2>4, <2>6, MovedOn
    <2> QED
        BY <1>1, <2>1, <2>6, <2>7 DEF Facing
<1>8. \/ V2!Scan1m(s.held) = <<>>
      \/ V2!Scan1m(s.held) = <<Seen("1m")>>
      \/ /\ s.held # {}
         /\ V2!Scan1m(s.held)
              = <<Seen("1m")>> \o (IF step.exited THEN <<Send("CLOSE", p), Drop(p)>> ELSE <<Keep(q)>>)
    BY <1>4, <1>5, <1>6, V2Steps, Zenon DEF V2!Scan1m, V2!ClosePosition
<1> QED
    BY <1>2, <1>3, <1>7, <1>8

LEMMA V2Scan ==
    ASSUME Mirrored(XAU), V2!Scan
    PROVE  \E plan : Perform(plan) /\ Well(plan, XAU, V2Known /\ SideFollowsTrend)
<1> DEFINE J == V2Known /\ SideFollowsTrend
           entries == V2!Scan15m \o <<Done("15m")>>
           first == IF pending["15m"] # 0 THEN entries ELSE <<>>
           second == IF pending["1m"] # 0
                     THEN V2!Scan1m(AfterPlan(entries).held) \o <<Done("1m")>> ELSE <<>>
<1>1. Perform((first \o second) \o <<Save>>)
    BY V2Steps, V2After, V2Perform DEF V2!Scan
<1>2. ASSUME faults = 0
      PROVE  \E t : Moved(Mind, first \o second, t, XAU) /\ (J => Facing(t))
    <2>1. PICK a : Moved(Mind, V2!Scan15m, a, XAU) /\ (J => Facing(a))
        BY <1>2, V2Quarter
    <2>2. PICK b : /\ Moved(a, <<Done("15m")>>, b, XAU)
                   /\ b.held = a.held /\ b.trend = a.trend
        BY <2>1, MarksMoved DEF Moved
    <2>3. Moved(Mind, entries, b, XAU)
        BY <2>1, <2>2, MovedOn
    <2>4. AfterPlan(entries).held = b.held /\ (J => Facing(b))
        BY <2>1, <2>2, <2>3 DEF Moved, AfterPlan, Facing
    <2>5. PICK c : /\ Moved(Mind, first, c, XAU) /\ c.held = b.held
                   /\ J => Facing(c)
        <3>1. CASE pending["15m"] # 0
            BY <2>3, <2>4, <3>1
        <3>2. CASE pending["15m"] = 0
            <4>1. V2!Scan15m = <<>>
                BY <3>2, V2Steps DEF V2!Scan15m, Asked
            <4>2. Agreed(worker, Mind, XAU)
                BY <1>2, MirroredMind
            <4>3. Moved(Mind, <<>>, Mind, XAU)
                BY <4>2, StayMoved
            <4>4. a = Mind
                BY <2>1, <4>1, <4>3 DEF Moved
            <4> QED
                BY <2>1, <2>2, <3>2, <4>3, <4>4
        <3> QED
            BY <3>1, <3>2
    <2>6. Agreed(worker, c, XAU)
        BY <2>5 DEF Moved
    <2>7. PICK d : Moved(c, second, d, XAU) /\ (J => Facing(d))
        <3>1. CASE pending["1m"] = 0
            BY <2>5, <2>6, <3>1, StayMoved
        <3>2. CASE pending["1m"] # 0
            <4>1. PICK d : /\ Moved(c, V2!Scan1m(c.held), d, XAU)
                           /\ Facing(c) => Facing(d)
                BY <2>6, V2Minute
            <4>2. PICK e : /\ Moved(d, <<Done("1m")>>, e, XAU)
                           /\ e.held = d.held /\ e.trend = d.trend
                BY <4>1, MarksMoved DEF Moved
            <4>3. Moved(c, V2!Scan1m(c.held) \o <<Done("1m")>>, e, XAU)
                BY <4>1, <4>2, MovedOn
            <4> QED
                BY <2>4, <2>5, <3>2, <4>1, <4>2, <4>3 DEF Facing
        <3> QED
            BY <3>1, <3>2
    <2> QED
        BY <2>5, <2>7, MovedOn
<1>3. Well((first \o second) \o <<Save>>, XAU, J)
    BY <1>2, WellEnded DEF Well
<1> QED
    BY <1>1, <1>3

\* Every step keeps the invariant.
LEMMA V2Next ==
    ASSUME Mirrored(XAU), [V2!Next]_V2!book
    PROVE  /\ Mirrored(XAU)'
           /\ V2Known => V2Known'
           /\ V2Known /\ SideFollowsTrend => SideFollowsTrend'
<1>1. CASE V2!CandleCloses("15m", V2!Quarters)
    <2>1. CandleCloses("15m", V2!Quarters)
        BY <1>1, V2Around
    <2>2. V2Known => V2Known'
        BY <2>1 DEF CandleCloses, V2Known
    <2> QED
        BY <2>1, <2>2, AroundMirrored
<1>6. CASE V2!CandleCloses("1m", V2!Minutes)
    <2>1. CandleCloses("1m", V2!Minutes)
        BY <1>6, V2Around
    <2>2. V2Known => V2Known'
        BY <2>1 DEF CandleCloses, V2Known
    <2> QED
        BY <2>1, <2>2, AroundMirrored
<1>2. CASE V2!ShouldScan
    <2>1. \E t : ShouldScanAfterEvent(t)
        BY <1>2, V2Around DEF V2!ShouldScan
    <2>2. V2Known => V2Known'
        BY <2>1 DEF ShouldScanAfterEvent, V2Known
    <2> QED
        BY <2>1, <2>2, AroundMirrored
<1>3. CASE V2!Scan
    <2>1. PICK plan : Perform(plan) /\ Well(plan, XAU, V2Known /\ SideFollowsTrend)
        BY <1>3, V2Scan
    <2>2. V2Known => V2Known'
        BY <2>1 DEF Perform, V2Known
    <2>3. Mirrored(XAU)' /\ (V2Known /\ SideFollowsTrend => SideFollowsTrend')
        BY <2>1, WellDone
    <2> QED
        BY <2>2, <2>3
<1>4. CASE V2!Around(V2!Reloaded)
    <2>1. Around({p \in LoadPositions : p.symbol = XAU})
        BY <1>4, V2Around
    <2>2. V2Known => V2Known'
        BY <2>1 DEF Around, WorkerTakes, WorkerCloses, Restart, V2Known
    <2> QED
        BY <2>1, <2>2, AroundMirrored
<1>5. CASE UNCHANGED V2!book
    <2>1. UNCHANGED book
        BY <1>5, V2Around
    <2>2. V2Known => V2Known'
        BY <2>1 DEF book, V2Known
    <2> QED
        BY <2>1, <2>2, AroundMirrored
<1> QED
    BY <1>1, <1>2, <1>3, <1>4, <1>5, <1>6 DEF V2!Next

LEMMA V2Init ==
    ASSUME V2!Init
    PROVE  Mirrored(XAU) /\ SideFollowsTrend /\ ("15m" \in Tf => V2Known)
<1>1. PICK q \in V2!Quarters, m \in V2!Minutes :
           StartBook({[t \in Tf |-> IF t = "15m" THEN q ELSE m]})
    BY V2Around DEF V2!Init
<1>2. "15m" \in Tf => V2Known
    BY <1>1 DEF StartBook, V2Known
<1> QED
    BY <1>1, <1>2, StartMirrored

\* Unless a send failed, a restart overtook a signal or the worker closed a position
\* itself, the worker holds exactly the position of the strategy once it has taken
\* every signal, whatever the candles and however many restarts there were.
THEOREM V2Converges == V2!Spec => []Converged
<1>1. Mirrored(XAU) /\ [V2!Next]_V2!book => Mirrored(XAU)'
    BY V2Next
<1>2. Mirrored(XAU) => Converged
    BY MirroredConverges
<1> QED
    BY <1>1, <1>2, V2Init, PTL DEF V2!Spec

\* While nothing failed, the position the strategy holds is never against the direction
\* it believes in: a flip closes it before it opens the next one, and a restart adopts
\* the side of the position it found.
THEOREM V2FacesTrend ==
    ASSUME "15m" \in Tf PROVE V2!Spec => []SideFollowsTrend
<1> DEFINE Inv == Mirrored(XAU) /\ V2Known /\ SideFollowsTrend
<1>1. V2!Init => Inv
    BY V2Init
<1>2. Inv /\ [V2!Next]_V2!book => Inv'
    BY V2Next
<1> QED
    BY <1>1, <1>2, PTL DEF V2!Spec

\* supertrend-xau-v2: the 15m half of a scan enters on a flip only.
LEMMA V2QuarterOrderly ==
    ASSUME AllNamed(held, XAU), V2Known
    PROVE  \E d \in {Up, Down} : Orderly(V2!Scan15m, d, XAU, FALSE)
<1> DEFINE dir == candle["15m"].dir
           open == V2!OpenIfAllowed(held \ Opposed(held, dir), SideOf(dir), now["15m"])
<1>1. dir \in {Up, Down}
    BY DEF V2Known, V2!Quarters, V2!Directions, V2!Up, V2!Down, Up, Down
<1>2. \/ V2!Scan15m = <<>>
      \/ V2!Scan15m = <<Seen("15m"), Turn(Adopted(dir))>>
      \/ V2!Scan15m = <<Seen("15m")>>
      \/ /\ dir # trend
         /\ V2!Scan15m = (<<Seen("15m"), Turn(dir)>> \o Leaving(Opposed(held, dir))) \o open
    BY V2Steps, Zenon DEF V2!Scan15m, Leaving, Opposed, V2!ClosePosition
<1>3. PICK new : new = [id |-> <<now["15m"], SideOf(dir)>>, symbol |-> XAU,
                        side |-> SideOf(dir), entry |-> candle["15m"].close,
                        best |-> candle["15m"].close, active_trailing |-> None]
    OBVIOUS
<1>4. Named(new, XAU) /\ new.side = SideOf(dir)
    BY <1>3 DEF Named
<1>5. Entering(open, held \ Opposed(held, dir), new)
    BY <1>3 DEF Entering, V2!OpenIfAllowed, V2!Send, Send, V2!Keep, Keep
<1>6. \A q \in Opposed(held, dir) : Named(q, XAU)
    BY DEF Opposed, AllNamed
<1> HIDE DEF dir, open
<1>7. CASE V2!Scan15m = <<>>
    BY <1>1, <1>7, OrderlyNothing
<1>8. CASE V2!Scan15m = <<Seen("15m"), Turn(Adopted(dir))>>
    BY <1>1, <1>8, FirstEnters
<1>9. CASE V2!Scan15m = <<Seen("15m")>>
    <2>1. Orderly(<<Seen("15m")>>, dir, XAU, FALSE)
        BY QuietFits, OrderlyOne
    <2> QED
        BY <1>1, <1>9, <2>1
<1>10. CASE /\ dir # trend
            /\ V2!Scan15m = (<<Seen("15m"), Turn(dir)>> \o Leaving(Opposed(held, dir))) \o open
    <2>1. Orderly((<<Seen("15m"), Turn(dir)>> \o Leaving(Opposed(held, dir))) \o open,
                  dir, XAU, FALSE)
        BY <1>4, <1>5, <1>6, <1>10, TurnsNow, FlipOrderly
    <2> QED
        BY <1>1, <1>10, <2>1
<1> QED
    BY <1>2, <1>7, <1>8, <1>9, <1>10

\* The minute changes or closes what it finds.
LEMMA V2MinuteOrderly ==
    ASSUME NEW d, NEW b, NEW P, \A p \in P : Fits(Keep(p), d, XAU, b)
    PROVE  Orderly(V2!Scan1m(P), d, XAU, b)
<1>1. Orderly(<<>>, d, XAU, b) /\ Orderly(<<Seen("1m")>>, d, XAU, b)
    BY QuietFits, OrderlyNothing, OrderlyOne
<1>2. PICK p : p = Existing(P)
    OBVIOUS
<1>3. PICK step : step = IF p.side = "LONG" THEN V2!ProcessLongMinute(p, candle["1m"])
                         ELSE V2!ProcessShortMinute(p, candle["1m"])
    OBVIOUS
<1>4. PICK q : q = [p EXCEPT !.best = step.best, !.active_trailing = step.next]
    OBVIOUS
<1>5. \/ V2!Scan1m(P) = <<>>
      \/ V2!Scan1m(P) = <<Seen("1m")>>
      \/ /\ P # {}
         /\ V2!Scan1m(P)
              = <<Seen("1m")>> \o (IF step.exited THEN <<Send("CLOSE", p), Drop(p)>> ELSE <<Keep(q)>>)
    BY <1>2, <1>3, <1>4, V2Steps, Zenon DEF V2!Scan1m, V2!ClosePosition
<1>6. CASE /\ P # {}
           /\ V2!Scan1m(P)
                = <<Seen("1m")>> \o (IF step.exited THEN <<Send("CLOSE", p), Drop(p)>> ELSE <<Keep(q)>>)
    <2>1. Fits(Keep(p), d, XAU, b)
        BY <1>2, <1>6 DEF Existing
    <2>2. /\ Named(p, XAU)
          /\ p.id \in Ids(held) \/ (b /\ d # trend /\ p.side = SideOf(d))
        BY <2>1 DEF Fits, Send, Keep, Drop, Turn, Seen, Done, Save
    <2>3. Named(q, XAU) /\ q.id = p.id /\ q.side = p.side
        BY <1>4, <2>2 DEF Named
    <2>4. Fits(Keep(q), d, XAU, b)
        BY <2>2, <2>3 DEF Fits
    <2>5. PICK plan : plan = IF step.exited THEN <<Send("CLOSE", p), Drop(p)>> ELSE <<Keep(q)>>
        OBVIOUS
    <2>6. Managed(plan, q, p)
        BY <2>5 DEF Managed
    <2>7. Orderly(plan, d, XAU, b)
        BY <2>2, <2>4, <2>6, ManagedOrderly
    <2>8. V2!Scan1m(P) = <<Seen("1m")>> \o plan
        BY <1>6, <2>5, Zenon
    <2>9. PICK first : first = <<Seen("1m")>>
        OBVIOUS
    <2>10. Orderly(first \o plan, d, XAU, b)
        BY <1>1, <2>7, <2>9, OrderlyBoth
    <2> QED
        BY <2>8, <2>9, <2>10
<1> QED
    BY <1>1, <1>5, <1>6

LEMMA V2Enters ==
    ASSUME EntryInv(XAU), V2Known, V2!Scan
    PROVE  \E plan : Perform(plan) /\ Enters(plan, XAU)
<1> DEFINE entries == V2!Scan15m \o <<Done("15m")>>
           first == IF pending["15m"] # 0 THEN entries ELSE <<>>
           second == IF pending["1m"] # 0
                     THEN V2!Scan1m(AfterPlan(entries).held) \o <<Done("1m")>> ELSE <<>>
<1>1. Perform((first \o second) \o <<Save>>)
    BY V2Steps, V2After, V2Perform DEF V2!Scan
<1>2. AllNamed(held, XAU) /\ NamedMind(Mind, XAU)
    BY MindHas DEF EntryInv
<1>3. PICK d \in {Up, Down} : Orderly(V2!Scan15m, d, XAU, FALSE)
    BY <1>2, V2QuarterOrderly
<1>4. Orderly(entries, d, XAU, FALSE)
    BY <1>3, EndOrderly
<1>5. Orderly(first, d, XAU, FALSE) /\ (Turns(entries, d) => Turns(first, d))
    <2>1. CASE pending["15m"] # 0
        BY <1>4, <2>1
    <2>2. CASE pending["15m"] = 0
        <3>1. V2!Scan15m = <<>>
            BY <2>2, V2Steps DEF V2!Scan15m, Asked
        <3>2. PICK e : e = Done("15m")
            OBVIOUS
        <3>3. entries = <<e>>
            BY <3>1, <3>2
        <3>4. ~ Turns(<<e>>, d)
            <4>1. PICK c : c = <<e>>
                OBVIOUS
            <4>2. Len(c) = 1 /\ c[1] = e
                BY <4>1
            <4>3. e # Turn(d)
                BY <3>2 DEF Done, Turn
            <4>4. ~ Turns(c, d)
                BY <4>2, <4>3 DEF Turns
            <4> QED
                BY <4>1, <4>4
        <3>5. Orderly(<<>>, d, XAU, FALSE)
            BY OrderlyNothing
        <3> QED
            BY <2>2, <3>3, <3>4, <3>5
    <2> QED
        BY <2>1, <2>2
<1>6. PICK b \in BOOLEAN : b <=> Turns(entries, d)
    OBVIOUS
<1>7. \A p \in AfterPlan(entries).held : Fits(Keep(p), d, XAU, b)
    <2>1. /\ NamedMind(AfterPlan(entries), XAU)
          /\ Along(AfterPlan(entries), d, Turns(entries, d))
        BY <1>2, <1>4, OrderlyRun
    <2> HIDE DEF entries
    <2> QED
        BY <1>6, <2>1 DEF NamedMind, AllNamed, Along, Fits
<1>8. Orderly(second, d, XAU, b)
    <2>1. Orderly(V2!Scan1m(AfterPlan(entries).held), d, XAU, b)
        BY <1>7, V2MinuteOrderly
    <2>2. Orderly(<<Done("1m")>>, d, XAU, b) /\ Orderly(<<>>, d, XAU, b)
        BY QuietFits, OrderlyOne, OrderlyNothing
    <2>3. Orderly(V2!Scan1m(AfterPlan(entries).held) \o <<Done("1m")>>, d, XAU, b)
        BY <2>1, <2>2, OrderlyBoth
    <2> QED
        BY <2>2, <2>3
<1> HIDE DEF first, second, entries
<1>9. Orderly(first \o second, d, XAU, FALSE)
    BY <1>5, <1>6, <1>8, OrderlyBoth
<1>10. Orderly((first \o second) \o <<Save>>, d, XAU, FALSE)
    BY <1>9, EndOrderly
<1> QED
    BY <1>1, <1>10 DEF Enters

LEMMA V2EntryNext ==
    ASSUME EntryInv(XAU), V2Known, [V2!Next]_V2!book
    PROVE  EntryInv(XAU)' /\ OneEntryPerTurn
<1>1. CASE V2!Scan
    BY <1>1, V2Enters, EntryOnce DEF Enters
<1>2. CASE ~ V2!Scan
    BY <1>2, V2Around, AroundEntry DEF V2!Next, V2!ShouldScan
<1> QED
    BY <1>1, <1>2

\* Within one life supertrend-xau-v2 takes one position per turn of the trend at most,
\* even if sends fail, restarts overtake signals or the worker closes a position itself:
\* after an exit it stays flat until the trend turns again.
THEOREM V2EntersOncePerTurn ==
    ASSUME "15m" \in Tf PROVE V2!Spec => [][OneEntryPerTurn]_book
<1> DEFINE Inv == Mirrored(XAU) /\ V2Known /\ EntryInv(XAU)
<1>1. V2!Init => Inv
    <2>1. V2!Init => EntryInv(XAU)
        BY V2Around, StartEntry DEF V2!Init
    <2> QED
        BY <2>1, V2Init
<1>2. Inv /\ [V2!Next]_V2!book => Inv' /\ OneEntryPerTurn
    BY V2Next, V2EntryNext
<1> QED
    BY <1>1, <1>2, PTL DEF V2!Spec

-----------------------------------------------------------------------------
(* suplo_ATR1_5 *)
Atr == INSTANCE SuploAtr1

LEMMA AtrSteps ==
    /\ \A k, p : Atr!Send(k, p) = Send(k, p)
    /\ \A p : Atr!Keep(p) = Keep(p)
    /\ \A p : Atr!Drop(p) = Drop(p)
    /\ \A d : Atr!Turn(d) = Turn(d)
    /\ \A t : Atr!Seen(t) = Seen(t)
    /\ \A t : Atr!Done(t) = Done(t)
    /\ Atr!Save = Save
    /\ \A d : Atr!SideOf(d) = SideOf(d)
    /\ \A d : Atr!Toward(d) = Toward(d)
    /\ \A P : Atr!Existing(P) = Existing(P)
    /\ \A d : Atr!Adopted(d) = Adopted(d)
    /\ \A t : Atr!Asked(t) <=> Asked(t)
    /\ Atr!Up = Up
    /\ Atr!Down = Down
<1>1. \A k, p : Atr!Send(k, p) = Send(k, p)
    BY Zenon DEF Atr!Send, Send
<1>2. \A p : Atr!Keep(p) = Keep(p)
    BY Zenon DEF Atr!Keep, Keep
<1>3. \A p : Atr!Drop(p) = Drop(p)
    BY Zenon DEF Atr!Drop, Drop
<1>4. \A d : Atr!Turn(d) = Turn(d)
    BY Zenon DEF Atr!Turn, Turn
<1>5. \A t : Atr!Seen(t) = Seen(t)
    BY Zenon DEF Atr!Seen, Seen
<1>6. \A t : Atr!Done(t) = Done(t)
    BY Zenon DEF Atr!Done, Done
<1>7. Atr!Save = Save
    BY Zenon DEF Atr!Save, Save
<1>8. \A d : Atr!SideOf(d) = SideOf(d)
    BY Zenon DEF Atr!SideOf, SideOf, Atr!Up, Up, Atr!Down, Down
<1>9. \A d : Atr!Toward(d) = Toward(d)
    BY Zenon DEF Atr!Toward, Toward, Atr!Up, Up, Atr!Down, Down
<1>10. \A P : Atr!Existing(P) = Existing(P)
    BY Zenon DEF Atr!Existing, Existing
<1>11. \A d : Atr!Adopted(d) = Adopted(d)
    BY Zenon DEF Atr!Adopted, Adopted, Atr!Existing, Existing, Atr!Toward, Toward, Atr!Up, Up, Atr!Down, Down
<1>12. \A t : Atr!Asked(t) <=> Asked(t)
    BY Zenon DEF Atr!Asked, Asked
<1>13. Atr!Up = Up
    BY Zenon DEF Atr!Up, Up
<1>14. Atr!Down = Down
    BY Zenon DEF Atr!Down, Down
<1> QED
    BY <1>1, <1>2, <1>3, <1>4, <1>5, <1>6, <1>7, <1>8, <1>9, <1>10, <1>11, <1>12, <1>13, <1>14

LEMMA AtrAfter ==
    ASSUME NEW plan PROVE Atr!AfterPlan(plan) = AfterPlan(plan)
<1>1. \A s : Atr!AfterFrom(s, plan) = AfterFrom(s, plan)
    BY Zenon DEF Atr!AfterFrom, AfterFrom, Atr!Performed, Performed, Atr!Others, Others,
        Atr!Dispatched, Dispatched, Atr!Remembering, Remembering, Atr!Repeated, Repeated
<1> QED
    BY <1>1 DEF Atr!AfterPlan, AfterPlan, Atr!Mind, Mind

LEMMA AtrPerform ==
    ASSUME NEW plan, Atr!Perform(plan) PROVE Perform(plan)
<1>1. \A S : Atr!NewIn(S) = NewIn(S)
    BY DEF Atr!NewIn, NewIn
<1>2. \A s : Atr!Becomes(s) => Becomes(s)
    BY <1>1 DEF Atr!Becomes, Becomes
<1>3. \A p : Atr!AfterPlan(p) = AfterPlan(p)
    BY AtrAfter
<1>4. \A s, e : Atr!Raises(s, e) => Raises(s, e)
    BY <1>2, Zenon DEF Atr!Raises, Raises, Atr!Repeated, Repeated,
        Atr!Remembering, Remembering
<1> QED
    BY <1>2, <1>3, <1>4, Zenon DEF Atr!Perform, Perform, Atr!RemoveAt, RemoveAt

LEMMA AtrAround ==
    /\ \A C : Atr!StartBook(C) => StartBook(C)
    /\ Atr!Around(Atr!Reloaded) => Around({p \in LoadPositions : p.symbol = XAU})
    /\ \A t, C : Atr!CandleCloses(t, C) => CandleCloses(t, C)
    /\ \A t : Atr!ShouldScanAfterEvent(t) => ShouldScanAfterEvent(t)
    /\ UNCHANGED Atr!book => UNCHANGED book
<1>1. \A C : Atr!StartBook(C) => StartBook(C)
    BY DEF Atr!StartBook, StartBook
<1>2. Atr!WorkerTakes => WorkerTakes
    BY DEF Atr!WorkerTakes, WorkerTakes, Atr!Taken, Taken, Atr!Others, Others
<1>3. Atr!WorkerCloses => WorkerCloses
    BY DEF Atr!WorkerCloses, WorkerCloses
<1>4. \A P : Atr!Restart(P) => Restart(P)
    BY DEF Atr!Restart, Restart
<1>5. Atr!Reloaded = {p \in LoadPositions : p.symbol = XAU}
    BY DEF Atr!Reloaded, Atr!LoadPositions, LoadPositions
<1>6. Atr!Around(Atr!Reloaded) => Around({p \in LoadPositions : p.symbol = XAU})
    BY <1>2, <1>3, <1>4, <1>5, Zenon DEF Atr!Around, Around
<1>7. \A t, C : Atr!CandleCloses(t, C) => CandleCloses(t, C)
    BY DEF Atr!CandleCloses, CandleCloses
<1>8. \A t : Atr!ShouldScanAfterEvent(t) => ShouldScanAfterEvent(t)
    BY DEF Atr!ShouldScanAfterEvent, ShouldScanAfterEvent
<1>9. UNCHANGED Atr!book => UNCHANGED book
    BY DEF Atr!book, book
<1> QED
    BY <1>1, <1>6, <1>7, <1>8, <1>9

AtrKnown ==
    /\ "15m" \in Tf /\ candle = [t \in Tf |-> candle[t]] /\ candle["15m"] \in Atr!Quarters

\* The 15m half of a scan: a flip, or nothing.
LEMMA AtrQuarter ==
    ASSUME Mirrored(XAU), faults = 0
    PROVE  \E t : /\ Moved(Mind, Atr!Scan15m, t, XAU)
                  /\ AtrKnown /\ SideFollowsTrend => Facing(t)
<1> DEFINE J == AtrKnown /\ SideFollowsTrend
           dir == candle["15m"].dir
<1>1. J => dir \in {Up, Down}
    BY DEF AtrKnown, Atr!Quarters, Atr!Directions, Atr!Up, Atr!Down, Up, Down
<1>2. PICK a : /\ Moved(Mind, <<Seen("15m")>>, a, XAU)
               /\ a.held = held /\ a.trend = trend
    BY SeenMoved
<1>3. Agreed(worker, a, XAU) /\ Agreed(worker, Mind, XAU)
    BY <1>2, MirroredMind DEF Moved
<1>4. J => Facing(a) /\ Facing(Mind)
    BY <1>2, MirroredMind DEF SideFollowsTrend, Facing
<1>5. CASE Atr!Scan15m = <<>>
    BY <1>3, <1>4, <1>5, StayMoved
<1>6. CASE Atr!Scan15m = <<Seen("15m"), Turn(Adopted(dir))>>
    BY <1>6, FirstMoved
<1>7. CASE Atr!Scan15m = <<Seen("15m")>>
    BY <1>2, <1>4, <1>7
<1> DEFINE open == Atr!OpenIfAllowed(held \ Opposed(held, dir), SideOf(dir), now["15m"])
<1>8. CASE Atr!Scan15m = (<<Seen("15m"), Turn(dir)>> \o Leaving(Opposed(held, dir))) \o open
    <2>1. PICK b : Moved(a, <<Turn(dir)>>, b, XAU) /\ b.held = held /\ b.trend = dir
        BY <1>2, <1>3, MarksMoved
    <2>2. PICK e, f : e = Seen("15m") /\ f = Turn(dir)
        OBVIOUS
    <2>3. Moved(Mind, <<e, f>>, b, XAU)
        BY <1>2, <2>1, <2>2, TwoMoved
    <2>4. PICK new : new = [id |-> <<now["15m"], SideOf(dir)>>, symbol |-> XAU,
                            side |-> SideOf(dir),
                            entry |-> candle["15m"].close, best |-> candle["15m"].close,
                            active_trailing |-> None, min_atr_profit |-> candle["15m"].atr]
        OBVIOUS
    <2>5. Named(new, XAU) /\ new.side = SideOf(dir)
        BY <2>4 DEF Named
    <2>6. Entering(open, b.held \ Opposed(b.held, dir), new)
        BY <2>1, <2>4 DEF Entering, Atr!OpenIfAllowed, Atr!Send, Send, Atr!Keep, Keep
    <2> HIDE DEF open
    <2>7. PICK u : /\ Moved(Mind, (<<e, f>> \o Leaving(Opposed(held, dir))) \o open, u, XAU)
                   /\ u.trend = dir
                   /\ dir \in {Up, Down} => \A q \in u.held : Toward(q.side) = dir
        BY <2>1, <2>3, <2>5, <2>6, FlipMoved
    <2> QED
        BY <1>1, <1>8, <2>2, <2>7 DEF Facing
<1> QED
    BY <1>5, <1>6, <1>7, <1>8, AtrSteps, Zenon
       DEF Atr!Scan15m, Leaving, Opposed, Atr!ClosePosition

\* The minute: the trailing exit of the position the 15m half left.
LEMMA AtrMinute ==
    ASSUME NEW s, Agreed(worker, s, XAU)
    PROVE  \E t : /\ Moved(s, Atr!Scan1m(s.held), t, XAU)
                  /\ Facing(s) => Facing(t)
<1>1. PICK a : Moved(s, <<Seen("1m")>>, a, XAU) /\ a.held = s.held /\ a.trend = s.trend
    BY MarksMoved
<1>2. CASE Atr!Scan1m(s.held) = <<>>
    BY <1>2, StayMoved
<1>3. CASE Atr!Scan1m(s.held) = <<Seen("1m")>>
    BY <1>1, <1>3 DEF Facing
<1>4. PICK p : p = Existing(s.held)
    OBVIOUS
<1>5. PICK step : step = IF p.side = "LONG" THEN Atr!ProcessLongMinuteAtr1(p, candle["1m"])
                         ELSE Atr!ProcessShortMinuteAtr1(p, candle["1m"])
    OBVIOUS
<1>6. PICK q : q = [p EXCEPT !.best = step.best, !.active_trailing = step.next]
    OBVIOUS
<1>7. CASE /\ s.held # {}
           /\ Atr!Scan1m(s.held)
                = <<Seen("1m")>> \o (IF step.exited THEN <<Send("CLOSE", p), Drop(p)>> ELSE <<Keep(q)>>)
    <2>1. p \in a.held
        BY <1>1, <1>4, <1>7 DEF Existing
    <2>2. Agreed(worker, a, XAU) /\ Named(p, XAU)
        BY <1>1, <2>1 DEF Moved, Agreed
    <2>3. Named(q, XAU) /\ q.id = p.id /\ q.side = p.side
        BY <1>6, <2>2 DEF Named
    <2>4. PICK plan : plan = IF step.exited THEN <<Send("CLOSE", p), Drop(p)>> ELSE <<Keep(q)>>
        OBVIOUS
    <2>5. Managed(plan, q, p)
        BY <2>4 DEF Managed
    <2>6. PICK t : /\ Moved(a, plan, t, XAU)
                   /\ t.trend = a.trend /\ \A r \in t.held : r.side = p.side
        BY <2>1, <2>2, <2>3, <2>5, ManagedMoved
    <2>7. Moved(s, Atr!Scan1m(s.held), t, XAU)
        BY <1>1, <1>7, <2>4, <2>6, MovedOn
    <2> QED
        BY <1>1, <2>1, <2>6, <2>7 DEF Facing
<1>8. \/ Atr!Scan1m(s.held) = <<>>
      \/ Atr!Scan1m(s.held) = <<Seen("1m")>>
      \/ /\ s.held # {}
         /\ Atr!Scan1m(s.held)
              = <<Seen("1m")>> \o (IF step.exited THEN <<Send("CLOSE", p), Drop(p)>> ELSE <<Keep(q)>>)
    BY <1>4, <1>5, <1>6, AtrSteps, Zenon DEF Atr!Scan1m, Atr!ClosePosition
<1> QED
    BY <1>2, <1>3, <1>7, <1>8

LEMMA AtrScan ==
    ASSUME Mirrored(XAU), Atr!Scan
    PROVE  \E plan : Perform(plan) /\ Well(plan, XAU, AtrKnown /\ SideFollowsTrend)
<1> DEFINE J == AtrKnown /\ SideFollowsTrend
           entries == Atr!Scan15m \o <<Done("15m")>>
           first == IF pending["15m"] # 0 THEN entries ELSE <<>>
           second == IF pending["1m"] # 0
                     THEN Atr!Scan1m(AfterPlan(entries).held) \o <<Done("1m")>> ELSE <<>>
<1>1. Perform((first \o second) \o <<Save>>)
    BY AtrSteps, AtrAfter, AtrPerform DEF Atr!Scan
<1>2. ASSUME faults = 0
      PROVE  \E t : Moved(Mind, first \o second, t, XAU) /\ (J => Facing(t))
    <2>1. PICK a : Moved(Mind, Atr!Scan15m, a, XAU) /\ (J => Facing(a))
        BY <1>2, AtrQuarter
    <2>2. PICK b : /\ Moved(a, <<Done("15m")>>, b, XAU)
                   /\ b.held = a.held /\ b.trend = a.trend
        BY <2>1, MarksMoved DEF Moved
    <2>3. Moved(Mind, entries, b, XAU)
        BY <2>1, <2>2, MovedOn
    <2>4. AfterPlan(entries).held = b.held /\ (J => Facing(b))
        BY <2>1, <2>2, <2>3 DEF Moved, AfterPlan, Facing
    <2>5. PICK c : /\ Moved(Mind, first, c, XAU) /\ c.held = b.held
                   /\ J => Facing(c)
        <3>1. CASE pending["15m"] # 0
            BY <2>3, <2>4, <3>1
        <3>2. CASE pending["15m"] = 0
            <4>1. Atr!Scan15m = <<>>
                BY <3>2, AtrSteps DEF Atr!Scan15m, Asked
            <4>2. Agreed(worker, Mind, XAU)
                BY <1>2, MirroredMind
            <4>3. Moved(Mind, <<>>, Mind, XAU)
                BY <4>2, StayMoved
            <4>4. a = Mind
                BY <2>1, <4>1, <4>3 DEF Moved
            <4> QED
                BY <2>1, <2>2, <3>2, <4>3, <4>4
        <3> QED
            BY <3>1, <3>2
    <2>6. Agreed(worker, c, XAU)
        BY <2>5 DEF Moved
    <2>7. PICK d : Moved(c, second, d, XAU) /\ (J => Facing(d))
        <3>1. CASE pending["1m"] = 0
            BY <2>5, <2>6, <3>1, StayMoved
        <3>2. CASE pending["1m"] # 0
            <4>1. PICK d : /\ Moved(c, Atr!Scan1m(c.held), d, XAU)
                           /\ Facing(c) => Facing(d)
                BY <2>6, AtrMinute
            <4>2. PICK e : /\ Moved(d, <<Done("1m")>>, e, XAU)
                           /\ e.held = d.held /\ e.trend = d.trend
                BY <4>1, MarksMoved DEF Moved
            <4>3. Moved(c, Atr!Scan1m(c.held) \o <<Done("1m")>>, e, XAU)
                BY <4>1, <4>2, MovedOn
            <4> QED
                BY <2>4, <2>5, <3>2, <4>1, <4>2, <4>3 DEF Facing
        <3> QED
            BY <3>1, <3>2
    <2> QED
        BY <2>5, <2>7, MovedOn
<1>3. Well((first \o second) \o <<Save>>, XAU, J)
    BY <1>2, WellEnded DEF Well
<1> QED
    BY <1>1, <1>3

\* Every step keeps the invariant.
LEMMA AtrNext ==
    ASSUME Mirrored(XAU), [Atr!Next]_Atr!book
    PROVE  /\ Mirrored(XAU)'
           /\ AtrKnown => AtrKnown'
           /\ AtrKnown /\ SideFollowsTrend => SideFollowsTrend'
<1>1. CASE Atr!CandleCloses("15m", Atr!Quarters)
    <2>1. CandleCloses("15m", Atr!Quarters)
        BY <1>1, AtrAround
    <2>2. AtrKnown => AtrKnown'
        BY <2>1 DEF CandleCloses, AtrKnown
    <2> QED
        BY <2>1, <2>2, AroundMirrored
<1>6. CASE Atr!CandleCloses("1m", Atr!Minutes)
    <2>1. CandleCloses("1m", Atr!Minutes)
        BY <1>6, AtrAround
    <2>2. AtrKnown => AtrKnown'
        BY <2>1 DEF CandleCloses, AtrKnown
    <2> QED
        BY <2>1, <2>2, AroundMirrored
<1>2. CASE Atr!ShouldScan
    <2>1. \E t : ShouldScanAfterEvent(t)
        BY <1>2, AtrAround DEF Atr!ShouldScan
    <2>2. AtrKnown => AtrKnown'
        BY <2>1 DEF ShouldScanAfterEvent, AtrKnown
    <2> QED
        BY <2>1, <2>2, AroundMirrored
<1>3. CASE Atr!Scan
    <2>1. PICK plan : Perform(plan) /\ Well(plan, XAU, AtrKnown /\ SideFollowsTrend)
        BY <1>3, AtrScan
    <2>2. AtrKnown => AtrKnown'
        BY <2>1 DEF Perform, AtrKnown
    <2>3. Mirrored(XAU)' /\ (AtrKnown /\ SideFollowsTrend => SideFollowsTrend')
        BY <2>1, WellDone
    <2> QED
        BY <2>2, <2>3
<1>4. CASE Atr!Around(Atr!Reloaded)
    <2>1. Around({p \in LoadPositions : p.symbol = XAU})
        BY <1>4, AtrAround
    <2>2. AtrKnown => AtrKnown'
        BY <2>1 DEF Around, WorkerTakes, WorkerCloses, Restart, AtrKnown
    <2> QED
        BY <2>1, <2>2, AroundMirrored
<1>5. CASE UNCHANGED Atr!book
    <2>1. UNCHANGED book
        BY <1>5, AtrAround
    <2>2. AtrKnown => AtrKnown'
        BY <2>1 DEF book, AtrKnown
    <2> QED
        BY <2>1, <2>2, AroundMirrored
<1> QED
    BY <1>1, <1>2, <1>3, <1>4, <1>5, <1>6 DEF Atr!Next

LEMMA AtrInit ==
    ASSUME Atr!Init
    PROVE  Mirrored(XAU) /\ SideFollowsTrend /\ ("15m" \in Tf => AtrKnown)
<1>1. PICK q \in Atr!Quarters, m \in Atr!Minutes :
           StartBook({[t \in Tf |-> IF t = "15m" THEN q ELSE m]})
    BY AtrAround DEF Atr!Init
<1>2. "15m" \in Tf => AtrKnown
    BY <1>1 DEF StartBook, AtrKnown
<1> QED
    BY <1>1, <1>2, StartMirrored

\* Unless a send failed, a restart overtook a signal or the worker closed a position
\* itself, the worker holds exactly the position of the strategy once it has taken
\* every signal, whatever the candles and however many restarts there were.
THEOREM AtrConverges == Atr!Spec => []Converged
<1>1. Mirrored(XAU) /\ [Atr!Next]_Atr!book => Mirrored(XAU)'
    BY AtrNext
<1>2. Mirrored(XAU) => Converged
    BY MirroredConverges
<1> QED
    BY <1>1, <1>2, AtrInit, PTL DEF Atr!Spec

\* While nothing failed, the position the strategy holds is never against the direction
\* it believes in: a flip closes it before it opens the next one, and a restart adopts
\* the side of the position it found.
THEOREM AtrFacesTrend ==
    ASSUME "15m" \in Tf PROVE Atr!Spec => []SideFollowsTrend
<1> DEFINE Inv == Mirrored(XAU) /\ AtrKnown /\ SideFollowsTrend
<1>1. Atr!Init => Inv
    BY AtrInit
<1>2. Inv /\ [Atr!Next]_Atr!book => Inv'
    BY AtrNext
<1> QED
    BY <1>1, <1>2, PTL DEF Atr!Spec

\* suplo_ATR1_5: the 15m half of a scan enters on a flip only.
LEMMA AtrQuarterOrderly ==
    ASSUME AllNamed(held, XAU), AtrKnown
    PROVE  \E d \in {Up, Down} : Orderly(Atr!Scan15m, d, XAU, FALSE)
<1> DEFINE dir == candle["15m"].dir
           open == Atr!OpenIfAllowed(held \ Opposed(held, dir), SideOf(dir), now["15m"])
<1>1. dir \in {Up, Down}
    BY DEF AtrKnown, Atr!Quarters, Atr!Directions, Atr!Up, Atr!Down, Up, Down
<1>2. \/ Atr!Scan15m = <<>>
      \/ Atr!Scan15m = <<Seen("15m"), Turn(Adopted(dir))>>
      \/ Atr!Scan15m = <<Seen("15m")>>
      \/ /\ dir # trend
         /\ Atr!Scan15m = (<<Seen("15m"), Turn(dir)>> \o Leaving(Opposed(held, dir))) \o open
    BY AtrSteps, Zenon DEF Atr!Scan15m, Leaving, Opposed, Atr!ClosePosition
<1>3. PICK new : new = [id |-> <<now["15m"], SideOf(dir)>>, symbol |-> XAU,
                        side |-> SideOf(dir), entry |-> candle["15m"].close,
                        best |-> candle["15m"].close, active_trailing |-> None,
                        min_atr_profit |-> candle["15m"].atr]
    OBVIOUS
<1>4. Named(new, XAU) /\ new.side = SideOf(dir)
    BY <1>3 DEF Named
<1>5. Entering(open, held \ Opposed(held, dir), new)
    BY <1>3 DEF Entering, Atr!OpenIfAllowed, Atr!Send, Send, Atr!Keep, Keep
<1>6. \A q \in Opposed(held, dir) : Named(q, XAU)
    BY DEF Opposed, AllNamed
<1> HIDE DEF dir, open
<1>7. CASE Atr!Scan15m = <<>>
    BY <1>1, <1>7, OrderlyNothing
<1>8. CASE Atr!Scan15m = <<Seen("15m"), Turn(Adopted(dir))>>
    BY <1>1, <1>8, FirstEnters
<1>9. CASE Atr!Scan15m = <<Seen("15m")>>
    <2>1. Orderly(<<Seen("15m")>>, dir, XAU, FALSE)
        BY QuietFits, OrderlyOne
    <2> QED
        BY <1>1, <1>9, <2>1
<1>10. CASE /\ dir # trend
            /\ Atr!Scan15m = (<<Seen("15m"), Turn(dir)>> \o Leaving(Opposed(held, dir))) \o open
    <2>1. Orderly((<<Seen("15m"), Turn(dir)>> \o Leaving(Opposed(held, dir))) \o open,
                  dir, XAU, FALSE)
        BY <1>4, <1>5, <1>6, <1>10, TurnsNow, FlipOrderly
    <2> QED
        BY <1>1, <1>10, <2>1
<1> QED
    BY <1>2, <1>7, <1>8, <1>9, <1>10

\* The minute changes or closes what it finds.
LEMMA AtrMinuteOrderly ==
    ASSUME NEW d, NEW b, NEW P, \A p \in P : Fits(Keep(p), d, XAU, b)
    PROVE  Orderly(Atr!Scan1m(P), d, XAU, b)
<1>1. Orderly(<<>>, d, XAU, b) /\ Orderly(<<Seen("1m")>>, d, XAU, b)
    BY QuietFits, OrderlyNothing, OrderlyOne
<1>2. PICK p : p = Existing(P)
    OBVIOUS
<1>3. PICK step : step = IF p.side = "LONG" THEN Atr!ProcessLongMinuteAtr1(p, candle["1m"])
                         ELSE Atr!ProcessShortMinuteAtr1(p, candle["1m"])
    OBVIOUS
<1>4. PICK q : q = [p EXCEPT !.best = step.best, !.active_trailing = step.next]
    OBVIOUS
<1>5. \/ Atr!Scan1m(P) = <<>>
      \/ Atr!Scan1m(P) = <<Seen("1m")>>
      \/ /\ P # {}
         /\ Atr!Scan1m(P)
              = <<Seen("1m")>> \o (IF step.exited THEN <<Send("CLOSE", p), Drop(p)>> ELSE <<Keep(q)>>)
    BY <1>2, <1>3, <1>4, AtrSteps, Zenon DEF Atr!Scan1m, Atr!ClosePosition
<1>6. CASE /\ P # {}
           /\ Atr!Scan1m(P)
                = <<Seen("1m")>> \o (IF step.exited THEN <<Send("CLOSE", p), Drop(p)>> ELSE <<Keep(q)>>)
    <2>1. Fits(Keep(p), d, XAU, b)
        BY <1>2, <1>6 DEF Existing
    <2>2. /\ Named(p, XAU)
          /\ p.id \in Ids(held) \/ (b /\ d # trend /\ p.side = SideOf(d))
        BY <2>1 DEF Fits, Send, Keep, Drop, Turn, Seen, Done, Save
    <2>3. Named(q, XAU) /\ q.id = p.id /\ q.side = p.side
        BY <1>4, <2>2 DEF Named
    <2>4. Fits(Keep(q), d, XAU, b)
        BY <2>2, <2>3 DEF Fits
    <2>5. PICK plan : plan = IF step.exited THEN <<Send("CLOSE", p), Drop(p)>> ELSE <<Keep(q)>>
        OBVIOUS
    <2>6. Managed(plan, q, p)
        BY <2>5 DEF Managed
    <2>7. Orderly(plan, d, XAU, b)
        BY <2>2, <2>4, <2>6, ManagedOrderly
    <2>8. Atr!Scan1m(P) = <<Seen("1m")>> \o plan
        BY <1>6, <2>5, Zenon
    <2>9. PICK first : first = <<Seen("1m")>>
        OBVIOUS
    <2>10. Orderly(first \o plan, d, XAU, b)
        BY <1>1, <2>7, <2>9, OrderlyBoth
    <2> QED
        BY <2>8, <2>9, <2>10
<1> QED
    BY <1>1, <1>5, <1>6

LEMMA AtrEnters ==
    ASSUME EntryInv(XAU), AtrKnown, Atr!Scan
    PROVE  \E plan : Perform(plan) /\ Enters(plan, XAU)
<1> DEFINE entries == Atr!Scan15m \o <<Done("15m")>>
           first == IF pending["15m"] # 0 THEN entries ELSE <<>>
           second == IF pending["1m"] # 0
                     THEN Atr!Scan1m(AfterPlan(entries).held) \o <<Done("1m")>> ELSE <<>>
<1>1. Perform((first \o second) \o <<Save>>)
    BY AtrSteps, AtrAfter, AtrPerform DEF Atr!Scan
<1>2. AllNamed(held, XAU) /\ NamedMind(Mind, XAU)
    BY MindHas DEF EntryInv
<1>3. PICK d \in {Up, Down} : Orderly(Atr!Scan15m, d, XAU, FALSE)
    BY <1>2, AtrQuarterOrderly
<1>4. Orderly(entries, d, XAU, FALSE)
    BY <1>3, EndOrderly
<1>5. Orderly(first, d, XAU, FALSE) /\ (Turns(entries, d) => Turns(first, d))
    <2>1. CASE pending["15m"] # 0
        BY <1>4, <2>1
    <2>2. CASE pending["15m"] = 0
        <3>1. Atr!Scan15m = <<>>
            BY <2>2, AtrSteps DEF Atr!Scan15m, Asked
        <3>2. PICK e : e = Done("15m")
            OBVIOUS
        <3>3. entries = <<e>>
            BY <3>1, <3>2
        <3>4. ~ Turns(<<e>>, d)
            <4>1. PICK c : c = <<e>>
                OBVIOUS
            <4>2. Len(c) = 1 /\ c[1] = e
                BY <4>1
            <4>3. e # Turn(d)
                BY <3>2 DEF Done, Turn
            <4>4. ~ Turns(c, d)
                BY <4>2, <4>3 DEF Turns
            <4> QED
                BY <4>1, <4>4
        <3>5. Orderly(<<>>, d, XAU, FALSE)
            BY OrderlyNothing
        <3> QED
            BY <2>2, <3>3, <3>4, <3>5
    <2> QED
        BY <2>1, <2>2
<1>6. PICK b \in BOOLEAN : b <=> Turns(entries, d)
    OBVIOUS
<1>7. \A p \in AfterPlan(entries).held : Fits(Keep(p), d, XAU, b)
    <2>1. /\ NamedMind(AfterPlan(entries), XAU)
          /\ Along(AfterPlan(entries), d, Turns(entries, d))
        BY <1>2, <1>4, OrderlyRun
    <2> HIDE DEF entries
    <2> QED
        BY <1>6, <2>1 DEF NamedMind, AllNamed, Along, Fits
<1>8. Orderly(second, d, XAU, b)
    <2>1. Orderly(Atr!Scan1m(AfterPlan(entries).held), d, XAU, b)
        BY <1>7, AtrMinuteOrderly
    <2>2. Orderly(<<Done("1m")>>, d, XAU, b) /\ Orderly(<<>>, d, XAU, b)
        BY QuietFits, OrderlyOne, OrderlyNothing
    <2>3. Orderly(Atr!Scan1m(AfterPlan(entries).held) \o <<Done("1m")>>, d, XAU, b)
        BY <2>1, <2>2, OrderlyBoth
    <2> QED
        BY <2>2, <2>3
<1> HIDE DEF first, second, entries
<1>9. Orderly(first \o second, d, XAU, FALSE)
    BY <1>5, <1>6, <1>8, OrderlyBoth
<1>10. Orderly((first \o second) \o <<Save>>, d, XAU, FALSE)
    BY <1>9, EndOrderly
<1> QED
    BY <1>1, <1>10 DEF Enters

LEMMA AtrEntryNext ==
    ASSUME EntryInv(XAU), AtrKnown, [Atr!Next]_Atr!book
    PROVE  EntryInv(XAU)' /\ OneEntryPerTurn
<1>1. CASE Atr!Scan
    BY <1>1, AtrEnters, EntryOnce DEF Enters
<1>2. CASE ~ Atr!Scan
    BY <1>2, AtrAround, AroundEntry DEF Atr!Next, Atr!ShouldScan
<1> QED
    BY <1>1, <1>2

\* Within one life suplo_ATR1_5 takes one position per turn of the trend at most,
\* even if sends fail, restarts overtake signals or the worker closes a position itself:
\* after an exit it stays flat until the trend turns again.
THEOREM AtrEntersOncePerTurn ==
    ASSUME "15m" \in Tf PROVE Atr!Spec => [][OneEntryPerTurn]_book
<1> DEFINE Inv == Mirrored(XAU) /\ AtrKnown /\ EntryInv(XAU)
<1>1. Atr!Init => Inv
    <2>1. Atr!Init => EntryInv(XAU)
        BY AtrAround, StartEntry DEF Atr!Init
    <2> QED
        BY <2>1, AtrInit
<1>2. Inv /\ [Atr!Next]_Atr!book => Inv' /\ OneEntryPerTurn
    BY AtrNext, AtrEntryNext
<1> QED
    BY <1>1, <1>2, PTL DEF Atr!Spec

-----------------------------------------------------------------------------
(* bollinger_meanrev *)
Mean == INSTANCE Bollinger

LEMMA MeanSteps ==
    /\ \A k, p : Mean!Send(k, p) = Send(k, p)
    /\ \A p : Mean!Keep(p) = Keep(p)
    /\ \A p : Mean!Drop(p) = Drop(p)
    /\ \A d : Mean!Turn(d) = Turn(d)
    /\ \A t : Mean!Seen(t) = Seen(t)
    /\ \A t : Mean!Done(t) = Done(t)
    /\ Mean!Save = Save
    /\ \A d : Mean!SideOf(d) = SideOf(d)
    /\ \A d : Mean!Toward(d) = Toward(d)
    /\ \A P : Mean!Existing(P) = Existing(P)
    /\ \A d : Mean!Adopted(d) = Adopted(d)
    /\ \A t : Mean!Asked(t) <=> Asked(t)
    /\ Mean!Up = Up
    /\ Mean!Down = Down
<1>1. \A k, p : Mean!Send(k, p) = Send(k, p)
    BY Zenon DEF Mean!Send, Send
<1>2. \A p : Mean!Keep(p) = Keep(p)
    BY Zenon DEF Mean!Keep, Keep
<1>3. \A p : Mean!Drop(p) = Drop(p)
    BY Zenon DEF Mean!Drop, Drop
<1>4. \A d : Mean!Turn(d) = Turn(d)
    BY Zenon DEF Mean!Turn, Turn
<1>5. \A t : Mean!Seen(t) = Seen(t)
    BY Zenon DEF Mean!Seen, Seen
<1>6. \A t : Mean!Done(t) = Done(t)
    BY Zenon DEF Mean!Done, Done
<1>7. Mean!Save = Save
    BY Zenon DEF Mean!Save, Save
<1>8. \A d : Mean!SideOf(d) = SideOf(d)
    BY Zenon DEF Mean!SideOf, SideOf, Mean!Up, Up, Mean!Down, Down
<1>9. \A d : Mean!Toward(d) = Toward(d)
    BY Zenon DEF Mean!Toward, Toward, Mean!Up, Up, Mean!Down, Down
<1>10. \A P : Mean!Existing(P) = Existing(P)
    BY Zenon DEF Mean!Existing, Existing
<1>11. \A d : Mean!Adopted(d) = Adopted(d)
    BY Zenon DEF Mean!Adopted, Adopted, Mean!Existing, Existing, Mean!Toward, Toward, Mean!Up, Up, Mean!Down, Down
<1>12. \A t : Mean!Asked(t) <=> Asked(t)
    BY Zenon DEF Mean!Asked, Asked
<1>13. Mean!Up = Up
    BY Zenon DEF Mean!Up, Up
<1>14. Mean!Down = Down
    BY Zenon DEF Mean!Down, Down
<1> QED
    BY <1>1, <1>2, <1>3, <1>4, <1>5, <1>6, <1>7, <1>8, <1>9, <1>10, <1>11, <1>12, <1>13, <1>14

LEMMA MeanAfter ==
    ASSUME NEW plan PROVE Mean!AfterPlan(plan) = AfterPlan(plan)
<1>1. \A s : Mean!AfterFrom(s, plan) = AfterFrom(s, plan)
    BY Zenon DEF Mean!AfterFrom, AfterFrom, Mean!Performed, Performed, Mean!Others, Others,
        Mean!Dispatched, Dispatched, Mean!Remembering, Remembering, Mean!Repeated, Repeated
<1> QED
    BY <1>1 DEF Mean!AfterPlan, AfterPlan, Mean!Mind, Mind

LEMMA MeanPerform ==
    ASSUME NEW plan, Mean!Perform(plan) PROVE Perform(plan)
<1>1. \A S : Mean!NewIn(S) = NewIn(S)
    BY DEF Mean!NewIn, NewIn
<1>2. \A s : Mean!Becomes(s) => Becomes(s)
    BY <1>1 DEF Mean!Becomes, Becomes
<1>3. \A p : Mean!AfterPlan(p) = AfterPlan(p)
    BY MeanAfter
<1>4. \A s, e : Mean!Raises(s, e) => Raises(s, e)
    BY <1>2, Zenon DEF Mean!Raises, Raises, Mean!Repeated, Repeated,
        Mean!Remembering, Remembering
<1> QED
    BY <1>2, <1>3, <1>4, Zenon DEF Mean!Perform, Perform, Mean!RemoveAt, RemoveAt

LEMMA MeanAround ==
    /\ \A C : Mean!StartBook(C) => StartBook(C)
    /\ Mean!Around(Mean!Reloaded) => Around({p \in LoadPositions : p.symbol = PAXG})
    /\ \A t, C : Mean!CandleCloses(t, C) => CandleCloses(t, C)
    /\ \A t : Mean!ShouldScanAfterEvent(t) => ShouldScanAfterEvent(t)
    /\ UNCHANGED Mean!book => UNCHANGED book
<1>1. \A C : Mean!StartBook(C) => StartBook(C)
    BY DEF Mean!StartBook, StartBook
<1>2. Mean!WorkerTakes => WorkerTakes
    BY DEF Mean!WorkerTakes, WorkerTakes, Mean!Taken, Taken, Mean!Others, Others
<1>3. Mean!WorkerCloses => WorkerCloses
    BY DEF Mean!WorkerCloses, WorkerCloses
<1>4. \A P : Mean!Restart(P) => Restart(P)
    BY DEF Mean!Restart, Restart
<1>5. Mean!Reloaded = {p \in LoadPositions : p.symbol = PAXG}
    BY DEF Mean!Reloaded, Mean!LoadPositions, LoadPositions
<1>6. Mean!Around(Mean!Reloaded) => Around({p \in LoadPositions : p.symbol = PAXG})
    BY <1>2, <1>3, <1>4, <1>5, Zenon DEF Mean!Around, Around
<1>7. \A t, C : Mean!CandleCloses(t, C) => CandleCloses(t, C)
    BY DEF Mean!CandleCloses, CandleCloses
<1>8. \A t : Mean!ShouldScanAfterEvent(t) => ShouldScanAfterEvent(t)
    BY DEF Mean!ShouldScanAfterEvent, ShouldScanAfterEvent
<1>9. UNCHANGED Mean!book => UNCHANGED book
    BY DEF Mean!book, book
<1> QED
    BY <1>1, <1>6, <1>7, <1>8, <1>9

\* Every plan of the transition table leaves the position, takes one, or both.
LEMMA MeanSwaps ==
    ASSUME NEW n, Agreed(worker, Mind, PAXG)
    PROVE  /\ Mean!Scan1d(n) = <<>>
              \/ \E plan, p : /\ Mean!Scan1d(n) = <<Seen("bar")>> \o plan
                              /\ Named(p, PAXG) /\ Swapped(plan, held, Existing(held), p)
           /\ Mean!ScanTf(n) = <<>>
              \/ \E plan, p : /\ Mean!ScanTf(n) = <<Seen("bar")>> \o plan
                              /\ Named(p, PAXG) /\ Swapped(plan, held, Existing(held), p)
<1> DEFINE New(side) == [id |-> <<n, side>>, symbol |-> PAXG, side |-> side]
           Opens(side) == <<Send("OPEN", New(side)), Keep(New(side))>>
           c == Existing(held)
           Closes == <<Send("CLOSE", c), Drop(c)>>
           Good(plan) == \E p : Named(p, PAXG) /\ Swapped(plan, held, c, p)
<1>1. held # {} => c \in held
    BY DEF Existing
<1>2. \A side : Named(New(side), PAXG)
    BY DEF Named
<1>3. \A side : Mean!OpenPosition({}, side, n) = Opens(side)
    BY DEF Mean!OpenPosition, Mean!Send, Send, Mean!Keep, Keep
<1>4. Mean!ClosePosition(c) = Closes /\ Mean!CloseLong(c) = Closes
    BY DEF Mean!CloseLong, Mean!ClosePosition, Mean!Send, Send, Mean!Drop, Drop
<1> HIDE DEF New, c
<1>5. /\ Good(<<>>)
      /\ \A side : held = {} => Good(Opens(side))
      /\ held # {} => Good(Closes)
      /\ \A side : held # {} => Good(Closes \o Opens(side))
    BY <1>1, <1>2 DEF Swapped
<1> HIDE DEF Good, Opens, Closes
<1>6. Good(Mean!Transition(n))
    <2>1. \/ Mean!Transition(n) = <<>>
          \/ \E side : held = {} /\ Mean!Transition(n) = Mean!OpenPosition({}, side, n)
          \/ held # {} /\ Mean!Transition(n) = Mean!ClosePosition(c)
          \/ \E side : /\ held # {}
                       /\ Mean!Transition(n) = Mean!ClosePosition(c) \o Mean!OpenPosition({}, side, n)
        BY MeanSteps, Zenon DEF Mean!Transition, c
    <2> QED
        BY <1>3, <1>4, <1>5, <2>1
<1>7. \/ Mean!Scan1d(n) = <<>>
      \/ \E plan : Mean!Scan1d(n) = <<Seen("bar")>> \o plan /\ Good(plan)
    <2>1. held = {} => Mean!OpenLong(n) = Opens("LONG")
        BY <1>3 DEF Mean!OpenLong
    <2> QED
        BY <1>4, <1>5, <2>1, MeanSteps, Zenon DEF Mean!Scan1d, c
<1>8. \/ Mean!ScanTf(n) = <<>>
      \/ \E plan : Mean!ScanTf(n) = <<Seen("bar")>> \o plan /\ Good(plan)
    BY <1>4, <1>5, <1>6, MeanSteps, Zenon DEF Mean!ScanTf, c
<1> QED
    BY <1>7, <1>8, Zenon DEF Good, c

LEMMA MeanScan ==
    ASSUME Mirrored(PAXG), Mean!Scan
    PROVE  \E plan : Perform(plan) /\ Well(plan, PAXG, FALSE)
<1>1. PICK X : /\ X \in {Mean!Scan1d(now["bar"]), Mean!ScanTf(now["bar"])}
               /\ Mean!Perform(X \o <<Mean!Done("bar"), Mean!Save>>)
    BY DEF Mean!Scan
<1>2. Perform(X \o <<Done("bar"), Save>>)
    BY <1>1, MeanSteps, MeanPerform
<1>3. ASSUME faults = 0 PROVE \E t : Moved(Mind, X, t, PAXG)
    <2>1. Agreed(worker, Mind, PAXG)
        BY <1>3, MirroredMind
    <2>2. \/ X = <<>>
          \/ \E plan, p : /\ X = <<Seen("bar")>> \o plan
                          /\ Named(p, PAXG) /\ Swapped(plan, held, Existing(held), p)
        BY <1>1, <2>1, MeanSwaps
    <2>3. CASE X = <<>>
        BY <2>1, <2>3, StayMoved
    <2>4. ASSUME NEW plan, NEW p, X = <<Seen("bar")>> \o plan,
                 Named(p, PAXG), Swapped(plan, held, Existing(held), p)
          PROVE  \E t : Moved(Mind, X, t, PAXG)
        <3>1. PICK a : Moved(Mind, <<Seen("bar")>>, a, PAXG) /\ a.held = held
            BY <1>3, SeenMoved
        <3>2. Agreed(worker, a, PAXG) /\ Swapped(plan, a.held, Existing(held), p)
            BY <2>4, <3>1 DEF Moved
        <3>3. PICK t : Moved(a, plan, t, PAXG)
            BY <2>4, <3>2, SwappedMoved
        <3> QED
            BY <2>4, <3>1, <3>3, MovedOn
    <2> QED
        BY <2>2, <2>3, <2>4
<1>4. Well(X \o <<Done("bar"), Save>>, PAXG, FALSE)
    BY <1>3, WellEnded DEF Well
<1> QED
    BY <1>2, <1>4

LEMMA MeanNext ==
    ASSUME Mirrored(PAXG), [Mean!Next]_Mean!book
    PROVE  Mirrored(PAXG)'
<1>1. CASE Mean!CandleCloses("bar", Mean!Bars)
    BY <1>1, MeanAround, AroundMirrored
<1>2. CASE Mean!ShouldScan
    <2>1. ShouldScanAfterEvent("bar")
        BY <1>2, MeanAround DEF Mean!ShouldScan
    <2> QED
        BY <2>1, AroundMirrored
<1>3. CASE Mean!Scan
    BY <1>3, MeanScan, WellDone
<1>4. CASE Mean!Around(Mean!Reloaded)
    BY <1>4, MeanAround, AroundMirrored
<1>5. CASE UNCHANGED Mean!book
    BY <1>5, MeanAround, AroundMirrored
<1> QED
    BY <1>1, <1>2, <1>3, <1>4, <1>5 DEF Mean!Next

\* The same for both mean reversion strategies: the worker ends up with their position.
THEOREM MeanConverges == Mean!Spec => []Converged
<1>1. Mean!Init => Mirrored(PAXG)
    BY MeanAround, StartMirrored DEF Mean!Init
<1>2. Mirrored(PAXG) /\ [Mean!Next]_Mean!book => Mirrored(PAXG)'
    BY MeanNext
<1>3. Mirrored(PAXG) => Converged
    BY MirroredConverges
<1> QED
    BY <1>1, <1>2, <1>3, PTL DEF Mean!Spec

-----------------------------------------------------------------------------
(* vn30 *)
Vn == INSTANCE Vn30

LEMMA VnSteps ==
    /\ \A k, p : Vn!Send(k, p) = Send(k, p)
    /\ \A p : Vn!Keep(p) = Keep(p)
    /\ \A p : Vn!Drop(p) = Drop(p)
    /\ \A d : Vn!Turn(d) = Turn(d)
    /\ \A t : Vn!Seen(t) = Seen(t)
    /\ \A t : Vn!Done(t) = Done(t)
    /\ Vn!Save = Save
    /\ \A d : Vn!SideOf(d) = SideOf(d)
    /\ \A d : Vn!Toward(d) = Toward(d)
    /\ \A P : Vn!Existing(P) = Existing(P)
    /\ \A d : Vn!Adopted(d) = Adopted(d)
    /\ \A t : Vn!Asked(t) <=> Asked(t)
    /\ Vn!Up = Up
    /\ Vn!Down = Down
<1>1. \A k, p : Vn!Send(k, p) = Send(k, p)
    BY Zenon DEF Vn!Send, Send
<1>2. \A p : Vn!Keep(p) = Keep(p)
    BY Zenon DEF Vn!Keep, Keep
<1>3. \A p : Vn!Drop(p) = Drop(p)
    BY Zenon DEF Vn!Drop, Drop
<1>4. \A d : Vn!Turn(d) = Turn(d)
    BY Zenon DEF Vn!Turn, Turn
<1>5. \A t : Vn!Seen(t) = Seen(t)
    BY Zenon DEF Vn!Seen, Seen
<1>6. \A t : Vn!Done(t) = Done(t)
    BY Zenon DEF Vn!Done, Done
<1>7. Vn!Save = Save
    BY Zenon DEF Vn!Save, Save
<1>8. \A d : Vn!SideOf(d) = SideOf(d)
    BY Zenon DEF Vn!SideOf, SideOf, Vn!Up, Up, Vn!Down, Down
<1>9. \A d : Vn!Toward(d) = Toward(d)
    BY Zenon DEF Vn!Toward, Toward, Vn!Up, Up, Vn!Down, Down
<1>10. \A P : Vn!Existing(P) = Existing(P)
    BY Zenon DEF Vn!Existing, Existing
<1>11. \A d : Vn!Adopted(d) = Adopted(d)
    BY Zenon DEF Vn!Adopted, Adopted, Vn!Existing, Existing, Vn!Toward, Toward, Vn!Up, Up, Vn!Down, Down
<1>12. \A t : Vn!Asked(t) <=> Asked(t)
    BY Zenon DEF Vn!Asked, Asked
<1>13. Vn!Up = Up
    BY Zenon DEF Vn!Up, Up
<1>14. Vn!Down = Down
    BY Zenon DEF Vn!Down, Down
<1> QED
    BY <1>1, <1>2, <1>3, <1>4, <1>5, <1>6, <1>7, <1>8, <1>9, <1>10, <1>11, <1>12, <1>13, <1>14

LEMMA VnAfter ==
    ASSUME NEW plan PROVE Vn!AfterPlan(plan) = AfterPlan(plan)
<1>1. \A s : Vn!AfterFrom(s, plan) = AfterFrom(s, plan)
    BY Zenon DEF Vn!AfterFrom, AfterFrom, Vn!Performed, Performed, Vn!Others, Others,
        Vn!Dispatched, Dispatched, Vn!Remembering, Remembering, Vn!Repeated, Repeated
<1> QED
    BY <1>1 DEF Vn!AfterPlan, AfterPlan, Vn!Mind, Mind

LEMMA VnPerform ==
    ASSUME NEW plan, Vn!Perform(plan) PROVE Perform(plan)
<1>1. \A S : Vn!NewIn(S) = NewIn(S)
    BY DEF Vn!NewIn, NewIn
<1>2. \A s : Vn!Becomes(s) => Becomes(s)
    BY <1>1 DEF Vn!Becomes, Becomes
<1>3. \A p : Vn!AfterPlan(p) = AfterPlan(p)
    BY VnAfter
<1>4. \A s, e : Vn!Raises(s, e) => Raises(s, e)
    BY <1>2, Zenon DEF Vn!Raises, Raises, Vn!Repeated, Repeated,
        Vn!Remembering, Remembering
<1> QED
    BY <1>2, <1>3, <1>4, Zenon DEF Vn!Perform, Perform, Vn!RemoveAt, RemoveAt

LEMMA VnAround ==
    /\ \A C : Vn!StartBook(C) => StartBook(C)
    /\ Vn!Around(Vn!Reloaded) => Around({p \in LoadPositions : p.symbol = F1})
    /\ \A t, C : Vn!CandleCloses(t, C) => CandleCloses(t, C)
    /\ \A t : Vn!ShouldScanAfterEvent(t) => ShouldScanAfterEvent(t)
    /\ UNCHANGED Vn!book => UNCHANGED book
<1>1. \A C : Vn!StartBook(C) => StartBook(C)
    BY DEF Vn!StartBook, StartBook
<1>2. Vn!WorkerTakes => WorkerTakes
    BY DEF Vn!WorkerTakes, WorkerTakes, Vn!Taken, Taken, Vn!Others, Others
<1>3. Vn!WorkerCloses => WorkerCloses
    BY DEF Vn!WorkerCloses, WorkerCloses
<1>4. \A P : Vn!Restart(P) => Restart(P)
    BY DEF Vn!Restart, Restart
<1>5. Vn!Reloaded = {p \in LoadPositions : p.symbol = F1}
    BY DEF Vn!Reloaded, Vn!LoadPositions, LoadPositions
<1>6. Vn!Around(Vn!Reloaded) => Around({p \in LoadPositions : p.symbol = F1})
    BY <1>2, <1>3, <1>4, <1>5, Zenon DEF Vn!Around, Around
<1>7. \A t, C : Vn!CandleCloses(t, C) => CandleCloses(t, C)
    BY DEF Vn!CandleCloses, CandleCloses
<1>8. \A t : Vn!ShouldScanAfterEvent(t) => ShouldScanAfterEvent(t)
    BY DEF Vn!ShouldScanAfterEvent, ShouldScanAfterEvent
<1>9. UNCHANGED Vn!book => UNCHANGED book
    BY DEF Vn!book, book
<1> QED
    BY <1>1, <1>6, <1>7, <1>8, <1>9

VnKeeps(cut) == Vn!ForEach(held, LAMBDA q : <<Vn!Keep([q EXCEPT !.cut_loss = cut])>>)

\* Moving the level of every position, and closing every position.
LEMMA VnEach ==
    ASSUME NEW s, Agreed(worker, s, F1), s.held = held, NEW cut
    PROVE  /\ \E t : Moved(s, VnKeeps(cut), t, F1)
           /\ \E t : Moved(s, Vn!ForEach(held, Vn!Close), t, F1) /\ t.held = {}
<1>1. Vn!SetToSeq(held) = SetToSeq(held)
    BY Zenon DEF Vn!SetToSeq, SetToSeq, Vn!IsInjective, IsInjective, Vn!Cardinality, Cardinality
<1>2. \A seqs : Vn!FlattenSeq(seqs) = FlattenSeq(seqs)
    BY Zenon DEF Vn!FlattenSeq, FlattenSeq
<1>3. \E t : Moved(s, Vn!ForEach(held, Vn!Close), t, F1) /\ t.held = {}
    <2>1. \A p : Vn!Close(p) = <<Send("CLOSE", p), Drop(p)>>
        BY DEF Vn!Close, Vn!Send, Send, Vn!Drop, Drop
    <2>2. Vn!ForEach(held, Vn!Close) = CloseEach(held)
        BY <1>1, <1>2, <2>1 DEF Vn!ForEach, ForEach, CloseEach
    <2>3. PICK t : Moved(s, CloseEach(held), t, F1) /\ t.held = s.held \ held
        BY CloseEachMoved
    <2> QED
        BY <2>2, <2>3
<1>4. \E t : Moved(s, VnKeeps(cut), t, F1)
    <2>1. PICK g : g = [q \in held |-> <<Keep([q EXCEPT !.cut_loss = cut])>>]
        OBVIOUS
    <2>2. PICK seqs : seqs = [i \in 1..Len(SetToSeq(held)) |-> g[SetToSeq(held)[i]]]
        OBVIOUS
    <2>3. IsFiniteSet(held)
        <3>1. CASE held = {}
            BY <3>1, FS_EmptySet
        <3>2. CASE held # {}
            <4>1. PICK p : held = {p}
                BY <3>2 DEF Agreed, Single
            <4> QED
                BY <4>1, FS_Singleton
        <3> QED
            BY <3>1, <3>2
    <2>4. \A i \in 1..Len(SetToSeq(held)) : SetToSeq(held)[i] \in held
        BY <2>3, SetLaidOut
    <2>5. VnKeeps(cut) = FlattenSeq(seqs)
        BY <1>1, <1>2, <2>1, <2>2, <2>4 DEF VnKeeps, Vn!ForEach, Vn!Keep, Keep
    <2>6. CASE held = {}
        <3>1. FlattenSeq(seqs) = <<>>
            BY <2>2, <2>6, ForEachOne
        <3> QED
            BY <2>5, <3>1, StayMoved
    <2>7. CASE held # {}
        <3>1. PICK p \in s.held : p \in held
            BY <2>7
        <3>2. FlattenSeq(seqs) = g[p]
            <4>1. Single(held)
                BY DEF Agreed
            <4> QED
                BY <2>2, <3>1, <4>1, ForEachOne
        <3>3. PICK q : q = [p EXCEPT !.cut_loss = cut]
            OBVIOUS
        <3>4. Named(q, F1) /\ q.id = p.id
            BY <3>1, <3>3 DEF Agreed, Named
        <3>5. PICK t : Moved(s, <<Keep(q)>>, t, F1)
            BY <3>1, <3>4, KeepMoved
        <3> QED
            BY <2>1, <2>5, <3>1, <3>2, <3>3, <3>5
    <2> QED
        BY <2>6, <2>7
<1> QED
    BY <1>3, <1>4

\* A transition ends with the positions saved.
LEMMA VnTransition ==
    ASSUME NEW s, Agreed(worker, s, F1), s.held = held,
           NEW side, NEW cut, NEW gate, NEW n
    PROVE  \E t : Ended(s, Vn!TransitionToSide(side, cut, gate, n), t, F1)
<1> DEFINE name == IF side > 0 THEN "LONG" ELSE "SHORT"
           keeps == VnKeeps(cut)
           closes == Vn!ForEach(held, Vn!Close)
<1>1. PICK p : p = [id |-> <<n, name>>, symbol |-> F1, side |-> name, cut_loss |-> cut]
    OBVIOUS
<1>2. Named(p, F1)
    BY <1>1 DEF Named
<1>3. \/ Vn!TransitionToSide(side, cut, gate, n) = keeps \o <<Save>>
      \/ Vn!TransitionToSide(side, cut, gate, n) = (closes \o <<>>) \o <<Save>>
      \/ Vn!TransitionToSide(side, cut, gate, n)
           = (closes \o <<Send("OPEN", p), Keep(p)>>) \o <<Save>>
    BY <1>1, VnSteps, Zenon DEF Vn!TransitionToSide, VnKeeps
<1>4. PICK a : Moved(s, keeps, a, F1)
    BY VnEach
<1>5. PICK b : Moved(s, closes, b, F1) /\ b.held = {}
    BY VnEach
<1> HIDE DEF keeps, closes
<1>6. Agreed(worker, a, F1) /\ Agreed(worker, b, F1)
    BY <1>4, <1>5 DEF Moved
<1>7. PICK c : Moved(b, <<Send("OPEN", p), Keep(p)>>, c, F1)
    BY <1>2, <1>5, <1>6, OpenMoved
<1>8. Moved(b, <<>>, b, F1) /\ Agreed(worker, c, F1)
    BY <1>6, <1>7, StayMoved DEF Moved
<1>9. /\ Moved(s, closes \o <<>>, b, F1)
      /\ Moved(s, closes \o <<Send("OPEN", p), Keep(p)>>, c, F1)
    BY <1>5, <1>7, <1>8, MovedOn
<1>10. \A m, x : Moved(s, m, x, F1) => \E t : Ended(s, m \o <<Save>>, t, F1)
    <2>1. ASSUME NEW m, NEW x, Moved(s, m, x, F1) PROVE \E t : Ended(s, m \o <<Save>>, t, F1)
        <3>1. PICK t : Ended(x, <<Save>>, t, F1)
            BY <2>1, SaveEnded DEF Moved
        <3> QED
            BY <2>1, <3>1, MovedOn
    <2> QED
        BY <2>1
<1> QED
    BY <1>3, <1>4, <1>9, <1>10

LEMMA VnScan ==
    ASSUME Mirrored(F1), Vn!Scan
    PROVE  \E plan : Perform(plan) /\ Well(plan, F1, FALSE)
<1>1. PICK plan : /\ Vn!Perform(plan)
                  /\ \/ plan = <<Vn!Done("bar")>>
                     \/ plan = <<Vn!Seen("bar"), Vn!Done("bar")>> \o <<>>
                     \/ \E side, cut, gate, n :
                          plan = <<Vn!Seen("bar"), Vn!Done("bar")>>
                                 \o Vn!TransitionToSide(side, cut, gate, n)
    BY Zenon DEF Vn!Scan
<1>2. ASSUME faults = 0 PROVE \E t : Ended(Mind, plan, t, F1)
    <2>1. Agreed(worker, Mind, F1) /\ Concord(worker, Mind, F1) /\ Mind.held = held
        BY <1>2, MirroredMind DEF Mirrored
    <2>2. PICK a : Moved(Mind, <<Seen("bar")>>, a, F1) /\ a.held = held
        BY <2>1, MarksMoved
    <2>3. PICK b : Moved(a, <<Done("bar")>>, b, F1) /\ b.held = held
        BY <2>2, MarksMoved DEF Moved
    <2>4. Moved(Mind, <<Seen("bar"), Done("bar")>>, b, F1) /\ Agreed(worker, b, F1)
        BY <2>2, <2>3, TwoMoved DEF Moved
    <2>5. CASE plan = <<Done("bar")>>
        BY <2>1, <2>5, QuietEnded
    <2>6. CASE plan = <<Seen("bar"), Done("bar")>> \o <<>>
        <3>1. PICK t : Ended(Mind, <<Seen("bar"), Done("bar")>>, t, F1)
            BY <2>1, QuietEnded
        <3>2. t = b
            BY <2>4, <3>1 DEF Ended, Moved
        <3>3. Ended(b, <<>>, b, F1)
            BY <2>4, <3>1, <3>2, StayMoved DEF Ended, Moved
        <3> QED
            BY <2>4, <2>6, <3>3, MovedOn
    <2>7. ASSUME NEW side, NEW cut, NEW gate, NEW n,
                 plan = <<Seen("bar"), Done("bar")>> \o Vn!TransitionToSide(side, cut, gate, n)
          PROVE  \E t : Ended(Mind, plan, t, F1)
        <3>1. PICK t : Ended(b, Vn!TransitionToSide(side, cut, gate, n), t, F1)
            BY <2>3, <2>4, VnTransition
        <3> QED
            BY <2>4, <2>7, <3>1, MovedOn
    <2> QED
        BY <1>1, <2>5, <2>6, <2>7, VnSteps
<1>3. Well(plan, F1, FALSE)
    BY <1>2 DEF Well
<1> QED
    BY <1>1, <1>3, VnPerform

LEMMA VnNext ==
    ASSUME Mirrored(F1), [Vn!Next]_Vn!book
    PROVE  Mirrored(F1)'
<1>1. CASE Vn!CandleCloses("bar", Vn!Bars)
    BY <1>1, VnAround, AroundMirrored
<1>2. CASE Vn!ShouldScan
    <2>1. ShouldScanAfterEvent("bar")
        BY <1>2, VnAround DEF Vn!ShouldScan
    <2> QED
        BY <2>1, AroundMirrored
<1>3. CASE Vn!Scan
    BY <1>3, VnScan, WellDone
<1>4. CASE Vn!Around(Vn!Reloaded)
    BY <1>4, VnAround, AroundMirrored
<1>5. CASE UNCHANGED Vn!book
    BY <1>5, VnAround, AroundMirrored
<1> QED
    BY <1>1, <1>2, <1>3, <1>4, <1>5 DEF Vn!Next

\* The same for both alphas of the index future.
THEOREM VnConverges == Vn!Spec => []Converged
<1>1. Vn!Init => Mirrored(F1)
    BY VnAround, StartMirrored DEF Vn!Init
<1>2. Mirrored(F1) /\ [Vn!Next]_Vn!book => Mirrored(F1)'
    BY VnNext
<1>3. Mirrored(F1) => Converged
    BY MirroredConverges
<1> QED
    BY <1>1, <1>2, <1>3, PTL DEF Vn!Spec

-----------------------------------------------------------------------------
(* vn30: what a scan leaves of the marks, and the forced flat. *)

\* A plan that neither marks a candle as scanned nor clears a request.
Unmarked(plan) ==
    /\ IsPlan(plan)
    /\ \A s : IsMind(s) =>
          LET t == AfterFrom(s, plan)
          IN IsMind(t) /\ t.last = s.last /\ t.pending = s.pending

LEMMA UnmarkedNothing == Unmarked(<<>>)
<1>1. PICK c : c = <<>>
    OBVIOUS
<1>2. IsPlan(c)
    <2>1. c \in Seq({})
        BY <1>1
    <2> QED
        BY <2>1 DEF IsPlan
<1>3. \A s : AfterFrom(s, c) = s
    BY <1>1, AfterNothing
<1>4. Unmarked(c)
    BY <1>2, <1>3 DEF Unmarked
<1> QED
    BY <1>1, <1>4, Zenon

LEMMA UnmarkedStep ==
    ASSUME NEW e, \/ \E k, p : e = Send(k, p)
                  \/ \E p : e = Keep(p)
                  \/ \E p : e = Drop(p)
                  \/ e = Save
    PROVE  Unmarked(<<e>>)
<1>1. PICK c : c = <<e>>
    OBVIOUS
<1>2. IsPlan(c) /\ \A s : AfterFrom(s, c) = Performed(s, e)
    BY <1>1, AfterOne
<1>3. ASSUME NEW s, IsMind(s), NEW t, t = Performed(s, e)
      PROVE  IsMind(t) /\ t.last = s.last /\ t.pending = s.pending
    <2>1. CASE \E k, p : e = Send(k, p)
        BY <1>3, <2>1, AfterSend
    <2>2. CASE (\E p : e = Keep(p)) \/ (\E p : e = Drop(p))
        <3>1. ASSUME NEW p, e = Keep(p) PROVE \E v : t = [s EXCEPT !.held = v]
            <4>1. t = [s EXCEPT !.held = Others(@, p) \cup {p}]
                BY <1>3, <3>1 DEF Performed, Keep
            <4> QED
                BY <4>1
        <3>2. ASSUME NEW p, e = Drop(p) PROVE \E v : t = [s EXCEPT !.held = v]
            <4>1. t = [s EXCEPT !.held = Others(@, p)]
                BY <1>3, <3>2 DEF Performed, Drop
            <4> QED
                BY <4>1
        <3>3. PICK v : t = [s EXCEPT !.held = v]
            BY <2>2, <3>1, <3>2
        <3> QED
            BY <1>3, <3>3 DEF IsMind
    <2>3. CASE e = Save
        <3>1. t = [s EXCEPT !.saved = s.held]
            BY <1>3, <2>3 DEF Performed, Save
        <3> QED
            BY <1>3, <3>1 DEF IsMind
    <2> QED
        BY <2>1, <2>2, <2>3
<1>4. Unmarked(c)
    BY <1>2, <1>3 DEF Unmarked
<1> QED
    BY <1>1, <1>4, Zenon

LEMMA UnmarkedBoth ==
    ASSUME NEW p, NEW q, Unmarked(p), Unmarked(q) PROVE Unmarked(p \o q)
<1>1. PICK r : r = p \o q
    OBVIOUS
<1>2. IsPlan(r)
    <2>1. PICK A : p \in Seq(A)
        BY DEF Unmarked, IsPlan
    <2>2. PICK B : q \in Seq(B)
        BY DEF Unmarked, IsPlan
    <2>3. p \in Seq(A \cup B) /\ q \in Seq(A \cup B)
        BY <2>1, <2>2, SeqMonotonic
    <2>4. r \in Seq(A \cup B)
        BY <1>1, <2>3
    <2> QED
        BY <2>4 DEF IsPlan
<1>3. \A s : AfterFrom(s, r) = AfterFrom(AfterFrom(s, p), q)
    BY <1>1, AfterBoth DEF Unmarked
<1>4. Unmarked(r)
    BY <1>2, <1>3 DEF Unmarked
<1> QED
    BY <1>1, <1>4, Zenon

LEMMA UnmarkedPair ==
    ASSUME NEW d, NEW e, Unmarked(<<d>>), Unmarked(<<e>>) PROVE Unmarked(<<d, e>>)
<1>1. <<d, e>> = <<d>> \o <<e>>
    BY TwoInTurn
<1> QED
    BY <1>1, UnmarkedBoth, Zenon

\* The plans over the position the strategy holds, if any.
LEMMA VnPlans ==
    ASSUME Single(held), NEW cut
    PROVE  /\ held = {} => VnKeeps(cut) = <<>> /\ Vn!ForEach(held, Vn!Close) = <<>>
           /\ \A p \in held :
                 /\ VnKeeps(cut) = <<Keep([p EXCEPT !.cut_loss = cut])>>
                 /\ Vn!ForEach(held, Vn!Close) = <<Send("CLOSE", p), Drop(p)>>
<1>1. Vn!SetToSeq(held) = SetToSeq(held)
    BY Zenon DEF Vn!SetToSeq, SetToSeq, Vn!IsInjective, IsInjective, Vn!Cardinality, Cardinality
<1>2. \A seqs : Vn!FlattenSeq(seqs) = FlattenSeq(seqs)
    BY Zenon DEF Vn!FlattenSeq, FlattenSeq
<1>3. IsFiniteSet(held)
    <2>1. CASE held = {}
        BY <2>1, FS_EmptySet
    <2>2. CASE held # {}
        <3>1. PICK p : held = {p}
            BY <2>2 DEF Single
        <3> QED
            BY <3>1, FS_Singleton
    <2> QED
        BY <2>1, <2>2
<1>4. \A i \in 1..Len(SetToSeq(held)) : SetToSeq(held)[i] \in held
    BY <1>3, SetLaidOut
<1>5. PICK g : g = [q \in held |-> <<Keep([q EXCEPT !.cut_loss = cut])>>]
    OBVIOUS
<1>6. PICK keeps : keeps = [i \in 1..Len(SetToSeq(held)) |-> g[SetToSeq(held)[i]]]
    OBVIOUS
<1>7. VnKeeps(cut) = FlattenSeq(keeps)
    BY <1>1, <1>2, <1>4, <1>5, <1>6 DEF VnKeeps, Vn!ForEach, Vn!Keep, Keep
<1>8. PICK h : h = [q \in held |-> <<Send("CLOSE", q), Drop(q)>>]
    OBVIOUS
<1>9. PICK closes : closes = [i \in 1..Len(SetToSeq(held)) |-> h[SetToSeq(held)[i]]]
    OBVIOUS
<1>10. Vn!ForEach(held, Vn!Close) = FlattenSeq(closes)
    BY <1>1, <1>2, <1>4, <1>8, <1>9
       DEF Vn!ForEach, Vn!Close, Vn!Send, Send, Vn!Drop, Drop
<1>11. ASSUME held = {} PROVE FlattenSeq(keeps) = <<>> /\ FlattenSeq(closes) = <<>>
    <2>1. FlattenSeq(keeps) = <<>>
        BY <1>6, <1>11, ForEachOne
    <2>2. FlattenSeq(closes) = <<>>
        BY <1>9, <1>11, ForEachOne
    <2> QED
        BY <2>1, <2>2
<1>12. ASSUME NEW p \in held PROVE FlattenSeq(keeps) = g[p] /\ FlattenSeq(closes) = h[p]
    <2>1. FlattenSeq(keeps) = g[p]
        BY <1>6, ForEachOne
    <2>2. FlattenSeq(closes) = h[p]
        BY <1>9, ForEachOne
    <2> QED
        BY <2>1, <2>2
<1> QED
    BY <1>5, <1>7, <1>8, <1>10, <1>11, <1>12

\* A transition leaves the marks alone, and one to no side leaves no position.
LEMMA VnUnmarked ==
    ASSUME Single(held), NEW side, NEW cut, NEW gate, NEW n
    PROVE  Unmarked(Vn!TransitionToSide(side, cut, gate, n))
<1> DEFINE name == IF side > 0 THEN "LONG" ELSE "SHORT"
           keeps == VnKeeps(cut)
           closes == Vn!ForEach(held, Vn!Close)
<1>1. PICK p : p = [id |-> <<n, name>>, symbol |-> F1, side |-> name, cut_loss |-> cut]
    OBVIOUS
<1>2. \/ Vn!TransitionToSide(side, cut, gate, n) = keeps \o <<Save>>
      \/ Vn!TransitionToSide(side, cut, gate, n) = (closes \o <<>>) \o <<Save>>
      \/ Vn!TransitionToSide(side, cut, gate, n)
           = (closes \o <<Send("OPEN", p), Keep(p)>>) \o <<Save>>
    BY <1>1, VnSteps, Zenon DEF Vn!TransitionToSide, VnKeeps
<1>3. Unmarked(<<Save>>) /\ Unmarked(<<>>)
    BY UnmarkedStep, UnmarkedNothing
<1>4. \A q : Unmarked(<<Keep(q)>>) /\ Unmarked(<<Drop(q)>>)
    BY UnmarkedStep
<1>5. \A k, q : Unmarked(<<Send(k, q)>>)
    BY UnmarkedStep
<1>6. Unmarked(<<Send("OPEN", p), Keep(p)>>)
    BY <1>4, <1>5, UnmarkedPair
<1>7. Unmarked(keeps) /\ Unmarked(closes)
    <2>1. CASE held = {}
        BY <1>3, <2>1, VnPlans
    <2>2. CASE held # {}
        <3>1. PICK q : q \in held
            BY <2>2
        <3>2. Unmarked(<<Send("CLOSE", q), Drop(q)>>)
            BY <1>4, <1>5, UnmarkedPair
        <3>3. keeps = <<Keep([q EXCEPT !.cut_loss = cut])>>
              /\ closes = <<Send("CLOSE", q), Drop(q)>>
            BY <3>1, VnPlans
        <3> QED
            BY <1>4, <3>2, <3>3, Zenon
    <2> QED
        BY <2>1, <2>2
<1> HIDE DEF keeps, closes
<1> QED
    BY <1>2, <1>3, <1>6, <1>7, UnmarkedBoth, Zenon

LEMMA VnFlattens ==
    ASSUME NEW s, Agreed(worker, s, F1), s.held = held, NEW gate, NEW n
    PROVE  AfterFrom(s, Vn!TransitionToSide(0, None, gate, n)).held = {}
<1> DEFINE closes == Vn!ForEach(held, Vn!Close)
<1>0. Single(held)
    BY DEF Agreed
<1>1. \/ held = {} /\ Vn!TransitionToSide(0, None, gate, n) = VnKeeps(None) \o <<Save>>
      \/ Vn!TransitionToSide(0, None, gate, n) = (closes \o <<>>) \o <<Save>>
    <2>1. CASE 0 = Vn!CurrentSide(held)
        <3>1. held = {}
            BY <2>1 DEF Vn!CurrentSide
        <3>2. Vn!TransitionToSide(0, None, gate, n) = VnKeeps(None) \o <<Save>>
            BY <2>1, VnSteps, Zenon DEF Vn!TransitionToSide, VnKeeps
        <3> QED
            BY <3>1, <3>2
    <2>2. CASE 0 # Vn!CurrentSide(held)
        BY <2>2, VnSteps, Zenon DEF Vn!TransitionToSide
    <2> QED
        BY <2>1, <2>2
<1>2. PICK b : Moved(s, closes, b, F1) /\ b.held = {}
    BY VnEach
<1> HIDE DEF closes
<1>3. ASSUME NEW m, NEW x, Moved(s, m, x, F1), x.held = {}
      PROVE  AfterFrom(s, m \o <<Save>>).held = {}
    <2>1. IsPlan(m) /\ AfterFrom(s, m) = x /\ IsMind(x)
        BY <1>3 DEF Moved, Agreed
    <2>2. IsPlan(<<Save>>) /\ AfterFrom(x, <<Save>>) = Performed(x, Save)
        BY AfterOne
    <2>3. AfterFrom(s, m \o <<Save>>) = Performed(x, Save)
        BY <2>1, <2>2, AfterBoth
    <2>4. Performed(x, Save).held = x.held
        BY <2>1, AfterSave
    <2> QED
        BY <1>3, <2>3, <2>4
<1>4. CASE held = {} /\ Vn!TransitionToSide(0, None, gate, n) = VnKeeps(None) \o <<Save>>
    <2>1. VnKeeps(None) = <<>>
        BY <1>0, <1>4, VnPlans
    <2>2. Moved(s, VnKeeps(None), s, F1)
        BY <2>1, StayMoved
    <2> QED
        BY <1>3, <1>4, <2>2
<1>5. CASE Vn!TransitionToSide(0, None, gate, n) = (closes \o <<>>) \o <<Save>>
    <2>1. Moved(b, <<>>, b, F1)
        BY <1>2, StayMoved DEF Moved
    <2>2. Moved(s, closes \o <<>>, b, F1)
        BY <1>2, <2>1, MovedOn
    <2> QED
        BY <1>2, <1>3, <1>5, <2>2
<1> QED
    BY <1>1, <1>4, <1>5

LEMMA SeenDone ==
    ASSUME NEW s, IsMind(s), NEW f, NEW t, t = AfterFrom(s, <<Seen(f), Done(f)>>)
    PROVE  /\ IsMind(t) /\ t.last = [s.last EXCEPT ![f] = s.pending[f]]
           /\ t.pending = [s.pending EXCEPT ![f] = 0]
<1>1. PICK d, e : d = Seen(f) /\ e = Done(f)
    OBVIOUS
<1>2. t = Performed(Performed(s, d), e)
    BY <1>1, AfterTwo
<1>3. Performed(s, d) = [s EXCEPT !.last[f] = s.pending[f]]
    BY <1>1 DEF Performed, Seen
<1>4. PICK v : v = [s.last EXCEPT ![f] = s.pending[f]]
    OBVIOUS
<1>5. PICK a : a = [s EXCEPT !.last = v]
    OBVIOUS
<1>6. Performed(s, d) = a
    BY <1>3, <1>4, <1>5 DEF IsMind
<1>7. IsMind(a) /\ a.last = v /\ a.pending = s.pending
    <2>1. PICK h, sv, st, tr, pe, la, re, dr :
            s = [held |-> h, saved |-> sv, stream |-> st, trend |-> tr, pending |-> pe,
                 last |-> la, remembered |-> re, dropped |-> dr]
        BY Zenon DEF IsMind
    <2>2. a = [held |-> h, saved |-> sv, stream |-> st, trend |-> tr, pending |-> pe,
               last |-> v, remembered |-> re, dropped |-> dr]
        BY <1>5, <2>1
    <2> QED
        BY <2>1, <2>2 DEF IsMind
<1>8. Performed(a, e) = [a EXCEPT !.pending[f] = 0]
    BY <1>1 DEF Performed, Done
<1>9. PICK w : w = [a.pending EXCEPT ![f] = 0]
    OBVIOUS
<1>10. t = [a EXCEPT !.pending = w]
    BY <1>2, <1>6, <1>7, <1>8, <1>9 DEF IsMind
<1>11. IsMind(t) /\ t.last = v /\ t.pending = w
    BY <1>7, <1>10 DEF IsMind
<1> QED
    BY <1>4, <1>7, <1>9, <1>11

LEMMA OnlyDone ==
    ASSUME NEW s, IsMind(s), NEW f, NEW t, t = AfterFrom(s, <<Done(f)>>)
    PROVE  /\ IsMind(t) /\ t.last = s.last /\ t.held = s.held
           /\ t.pending = [s.pending EXCEPT ![f] = 0]
<1>1. PICK e : e = Done(f)
    OBVIOUS
<1>2. t = Performed(s, e)
    BY <1>1, AfterOne
<1>3. Performed(s, e) = [s EXCEPT !.pending[f] = 0]
    BY <1>1 DEF Performed, Done
<1>4. PICK w : w = [s.pending EXCEPT ![f] = 0]
    OBVIOUS
<1>5. t = [s EXCEPT !.pending = w]
    BY <1>2, <1>3, <1>4 DEF IsMind
<1> QED
    BY <1>4, <1>5 DEF IsMind

\* The marks never run ahead of the candles, and once the bar that forces the session
\* flat is scanned nothing is held.
VnFlat ==
    /\ DOMAIN now = Tf /\ now["bar"] \in Nat \ {0}
    /\ faults = 0 =>
        /\ DOMAIN pending = Tf /\ pending["bar"] \in 0..now["bar"]
        /\ DOMAIN last = Tf /\ last["bar"] \in 0..now["bar"]
        /\ last["bar"] = now["bar"] /\ Vn!Bar.clock = "flat" => held = {}

LEMMA VnScanFlat ==
    ASSUME "bar" \in Tf, Mirrored(F1), VnFlat, Vn!Scan PROVE VnFlat'
<1>1. PICK ready, gate \in BOOLEAN :
        Vn!Perform(
            IF ~ Vn!Asked("bar") THEN <<Vn!Done("bar")>>
            ELSE <<Vn!Seen("bar"), Vn!Done("bar")>>
                 \o (IF Vn!Bar.clock = "flat"
                     THEN Vn!TransitionToSide(0, None, gate, pending["bar"])
                     ELSE IF ~ ready \/ Vn!Bar.clock = "outside" THEN <<>>
                     ELSE Vn!TransitionToSide(Vn!Desired[1], Vn!Desired[2], gate, pending["bar"])))
    BY Zenon DEF Vn!Scan
<1>2. PICK rest : rest = IF Vn!Bar.clock = "flat"
                         THEN Vn!TransitionToSide(0, None, gate, pending["bar"])
                         ELSE IF ~ ready \/ Vn!Bar.clock = "outside" THEN <<>>
                         ELSE Vn!TransitionToSide(Vn!Desired[1], Vn!Desired[2], gate, pending["bar"])
    OBVIOUS
<1>3. PICK plan : plan = IF ~ Asked("bar") THEN <<Done("bar")>>
                         ELSE <<Seen("bar"), Done("bar")>> \o rest
    OBVIOUS
<1>4. Perform(plan)
    <2>1. Vn!Perform(plan)
        BY <1>1, <1>2, <1>3, VnSteps, Zenon
    <2> QED
        BY <2>1, VnPerform
<1>5. UNCHANGED <<now, candle>> /\ \/ Becomes(AfterPlan(plan)) /\ faults' = faults
                                   \/ faults' = faults + 1
    BY <1>4 DEF Perform
<1>6. (Vn!Bar)' = Vn!Bar
    BY <1>5 DEF Vn!Bar
<1>7. CASE faults' = faults + 1
    BY <1>5, <1>7 DEF VnFlat, Mirrored
<1>8. CASE Becomes(AfterPlan(plan)) /\ faults' = faults
    <2>1. SUFFICES ASSUME faults = 0 PROVE VnFlat'
        BY <1>5, <1>8 DEF VnFlat
    <2>2. PICK t : t = AfterFrom(Mind, plan)
        OBVIOUS
    <2>3. held' = t.held /\ pending' = t.pending /\ last' = t.last
        BY <1>8, <2>2 DEF Becomes, AfterPlan
    <2>4. IsMind(Mind) /\ Mind.held = held /\ Mind.last = last /\ Mind.pending = pending
        BY MindIsMind DEF Mind
    <2>5. Agreed(worker, Mind, F1) /\ Single(held)
        BY <2>1, MirroredMind DEF Agreed
    <2>6. CASE ~ Asked("bar")
        <3>1. t.last = last /\ t.held = held /\ t.pending = [pending EXCEPT !["bar"] = 0]
            BY <1>3, <2>2, <2>4, <2>6, OnlyDone
        <3> QED
            BY <1>5, <1>6, <1>8, <2>1, <2>3, <3>1 DEF VnFlat
    <2>7. CASE Asked("bar")
        <3>1. PICK marks : marks = <<Seen("bar"), Done("bar")>>
            OBVIOUS
        <3>2. PICK b : b = AfterFrom(Mind, marks)
            OBVIOUS
        <3>3. /\ IsMind(b) /\ b.last = [last EXCEPT !["bar"] = pending["bar"]]
              /\ b.pending = [pending EXCEPT !["bar"] = 0]
            BY <2>4, <3>1, <3>2, SeenDone
        <3>4. IsPlan(marks) /\ Agreed(worker, b, F1) /\ b.held = held
            <4>1. PICK a : Moved(Mind, <<Seen("bar")>>, a, F1) /\ a.held = held
                BY <2>4, <2>5, MarksMoved
            <4>2. PICK c : Moved(a, <<Done("bar")>>, c, F1) /\ c.held = held
                BY <4>1, MarksMoved DEF Moved
            <4>3. Moved(Mind, <<Seen("bar"), Done("bar")>>, c, F1)
                BY <4>1, <4>2, TwoMoved
            <4> QED
                BY <3>1, <3>2, <4>2, <4>3 DEF Moved
        <3>5. Unmarked(rest)
            BY <1>2, <2>5, VnUnmarked, UnmarkedNothing
        <3>6. t = AfterFrom(b, rest)
            BY <1>3, <2>2, <2>7, <3>1, <3>2, <3>4, <3>5, AfterBoth DEF Unmarked
        <3>7. t.last = b.last /\ t.pending = b.pending
            BY <3>3, <3>5, <3>6 DEF Unmarked
        <3>8. Vn!Bar.clock = "flat" => t.held = {}
            BY <1>2, <3>4, <3>6, VnFlattens
        <3>9. pending["bar"] = now["bar"]
            BY <2>7 DEF Asked
        <3> QED
            BY <1>5, <1>6, <1>8, <2>1, <2>3, <3>3, <3>7, <3>8, <3>9 DEF VnFlat
    <2> QED
        BY <2>6, <2>7
<1> QED
    BY <1>5, <1>7, <1>8

LEMMA VnNextFlat ==
    ASSUME "bar" \in Tf, Mirrored(F1), VnFlat, [Vn!Next]_Vn!book
    PROVE  VnFlat'
<1>0. faults \in Nat
    BY DEF Mirrored
<1>1. CASE Vn!CandleCloses("bar", Vn!Bars)
    <2>1. /\ now' = [now EXCEPT !["bar"] = @ + 1]
          /\ UNCHANGED <<pending, last, held, faults>>
        BY <1>1 DEF Vn!CandleCloses
    <2> QED
        BY <2>1 DEF VnFlat
<1>2. CASE Vn!ShouldScan
    <2>1. /\ pending' = [pending EXCEPT !["bar"] = now["bar"]]
          /\ UNCHANGED <<now, candle, last, held, faults>>
        BY <1>2 DEF Vn!ShouldScan, Vn!ShouldScanAfterEvent
    <2> QED
        BY <2>1 DEF VnFlat, Vn!Bar
<1>3. CASE Vn!Scan
    BY <1>3, VnScanFlat
<1>4. CASE Vn!Around(Vn!Reloaded)
    <2>1. CASE Vn!WorkerTakes
        BY <2>1 DEF Vn!WorkerTakes, VnFlat, Vn!Bar
    <2>2. CASE Vn!WorkerCloses
        BY <1>0, <2>2 DEF Vn!WorkerCloses, VnFlat
    <2>3. CASE Vn!Restart(Vn!Reloaded)
        <3>1. /\ UNCHANGED <<now, candle>> /\ last' = [t \in Tf |-> 0] /\ pending' = [t \in Tf |-> 0]
              /\ faults' = faults \/ faults' = faults + 1
            BY <2>3 DEF Vn!Restart
        <3> QED
            BY <1>0, <3>1 DEF VnFlat
    <2> QED
        BY <1>4, <2>1, <2>2, <2>3 DEF Vn!Around
<1>5. CASE UNCHANGED Vn!book
    BY <1>5 DEF Vn!book, VnFlat, Vn!Bar
<1> QED
    BY <1>1, <1>2, <1>3, <1>4, <1>5, Zenon DEF Vn!Next

\* Once the bar that forces the session flat is scanned, without a failed send, the
\* worker holds nothing when it has taken every signal: not ready to trade, gated or
\* restarted before, the strategy closes what it holds.
THEOREM VnFlatAfterSession ==
    ASSUME "bar" \in Tf PROVE Vn!Spec => []Vn!FlatAfterSession
<1> DEFINE Inv == Mirrored(F1) /\ VnFlat
<1>1. Vn!Init => Inv
    <2>1. Vn!Init => Mirrored(F1)
        BY VnAround, StartMirrored DEF Vn!Init
    <2>2. Vn!Init => VnFlat
        BY DEF Vn!Init, Vn!StartBook, VnFlat
    <2> QED
        BY <2>1, <2>2
<1>2. Inv /\ [Vn!Next]_Vn!book => Inv'
    BY VnNext, VnNextFlat
<1>3. Inv => Vn!FlatAfterSession
    <2>1. ASSUME Inv, faults = 0, stream = <<>>, last["bar"] = now["bar"], Vn!Bar.clock = "flat"
          PROVE  worker = {}
        <3>1. held = {}
            BY <2>1 DEF VnFlat
        <3>2. Ids(worker) = Ids(held) \ dropped
            BY <2>1, MirroredConverges DEF Converged
        <3> QED
            BY <3>1, <3>2 DEF Ids
    <2> QED
        BY <2>1 DEF Vn!FlatAfterSession
<1> QED
    BY <1>1, <1>2, <1>3, PTL DEF Vn!Spec
=============================================================================
