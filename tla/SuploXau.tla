----------------------------- MODULE SuploXau -----------------------------
(***************************************************************************)
(* suplo-xau-5 and suplo-xau-10: 15m Supertrend flips with a trailing      *)
(* take-profit that follows the best gain of the position.  The direction  *)
(* of a candle is an input: it is recomputed over a sliding window, so the *)
(* code does not tie it to the direction of the candle before.             *)
(***************************************************************************)
EXTENDS StrategyBook

CONSTANTS
    Prices,    \* even numbers, so that half a gain is exact (retrace_pct 1/2)
    XAU, None

\* What compute_supertrend_directions may say of the newest bar.
Directions == {Down, Up}

Candles == {c \in [dir : Directions, high : Prices, low : Prices, close : Prices] :
                c.low <= c.close /\ c.close <= c.high}

Bar == candle["15m"]

Gain(p, c) == IF p.side = "LONG" THEN c.high - p.entry ELSE p.entry - c.low
Target(p, peak) == IF p.side = "LONG" THEN p.entry + (peak \div 2) ELSE p.entry - (peak \div 2)
Hit(p, level, c) == IF p.side = "LONG" THEN c.low <= level ELSE c.high >= level
Larger(a, b) == IF a > b THEN a ELSE b

\* (mutant: the closed position is not forgotten)
CloseWithoutForgetting(p) == <<Send("CLOSE", p)>>

ClosePosition(p) == <<Send("CLOSE", p), Drop(p)>>

\* The runtime of a fresh position is also the metadata of its OPEN.
NewPosition(side, n, entry) ==
    [id |-> <<n, side>>, symbol |-> XAU, side |-> side, entry |-> entry,
     peak_gain |-> 0, tp |-> None, tp_emitted |-> None]

OpenIfAllowed(P, side, n) ==
    IF P # {} THEN <<>>
    ELSE LET p == NewPosition(side, n, Bar.close) IN <<Send("OPEN", p), Keep(p)>>

\* (mutant: the level follows the gain of the last bar, not the best one)
ManageWithoutPeak(p) ==
    LET peak == Gain(p, Bar)
        moved == [p EXCEPT !.peak_gain = peak, !.tp = Target(p, peak)]
    IN IF peak <= 0 THEN <<Keep([p EXCEPT !.peak_gain = 0])>>
       ELSE IF Hit(p, moved.tp, Bar) THEN ClosePosition(p)
       ELSE <<Keep(moved), Send("MODIFY", moved)>>

\* Trailing take-profit of the open position, on the newest candle.
ManageOnBar(p) ==
    LET peak == Larger(p.peak_gain, Gain(p, Bar))
        moved == [p EXCEPT !.peak_gain = peak, !.tp = Target(p, peak)]
        sent == [moved EXCEPT !.tp_emitted = moved.tp]
    IN IF peak <= 0 THEN <<Keep([p EXCEPT !.peak_gain = 0])>>
       ELSE IF Hit(p, moved.tp, Bar) THEN ClosePosition(p)
       ELSE IF p.tp_emitted = moved.tp THEN <<Keep(moved)>>
       ELSE <<Keep(moved), Send("MODIFY", moved), Keep(sent)>>

\* (mutant: opens whenever it may, not only when the trend turns)
StepWithoutFlip(P) ==
    LET peak(p) == Larger(p.peak_gain, Gain(p, Bar))
        exits == {p \in P : peak(p) > 0 /\ Hit(p, Target(p, peak(p)), Bar)}
        flip == Bar.dir # trend
    IN [trailing |-> exits, flipped |-> IF flip THEN P \ exits ELSE {}, opens |-> TRUE]

\* step_state_machine on the newest candle: the trailing exit, then the flip.
StepStateMachine(P) ==
    LET peak(p) == Larger(p.peak_gain, Gain(p, Bar))
        exits == {p \in P : peak(p) > 0 /\ Hit(p, Target(p, peak(p)), Bar)}
        flip == Bar.dir # trend
    IN [trailing |-> exits, flipped |-> IF flip THEN P \ exits ELSE {}, opens |-> flip]

\* (mutant: the OPEN of a flip is sent before the CLOSE)
EntriesBeforeExits(P, n) ==
    LET step == StepStateMachine(P)
        closed == step.trailing \cup step.flipped
    IN <<Turn(Bar.dir)>>
       \o (IF step.opens THEN OpenIfAllowed(P \ closed, SideOf(Bar.dir), n) ELSE <<>>)
       \o ForEach(closed, ClosePosition)

EvaluateEntries(P, n) ==
    LET step == StepStateMachine(P)
        closed == step.trailing \cup step.flipped
    IN <<Turn(Bar.dir)>>
       \o ForEach(closed, ClosePosition)
       \o (IF step.opens THEN OpenIfAllowed(P \ closed, SideOf(Bar.dir), n) ELSE <<>>)

ShouldScan == ShouldScanAfterEvent("15m")

\* can_open_trades and _is_trade_time stand between the exits and the entries;
\* the first scan of a life only adopts a direction.
Scan ==
    /\ Asked("15m")
    /\ \/ /\ last["15m"] = 0
          /\ Perform(<<Seen("15m"), Turn(Adopted(Bar.dir)), Done("15m"), Save>>)
       \/ /\ last["15m"] # 0
          /\ \E gate \in BOOLEAN :
              LET managed == <<Seen("15m"), Done("15m")>>
                             \o (IF held = {} THEN <<>> ELSE ManageOnBar(Existing(held)))
                  left == AfterPlan(managed).held
              IN Perform(managed
                         \o (IF gate THEN EvaluateEntries(left, now["15m"]) ELSE <<>>)
                         \o <<Save>>)

\* _load_positions keeps the positions of the strategy's own symbol.
Reloaded == {p \in LoadPositions : p.symbol = XAU}

Init == \E c \in Candles : StartBook({[t \in Tf |-> c]})

Next ==
    \/ CandleCloses("15m", Candles) \/ ShouldScan
    \/ Scan \/ Around(Reloaded)

Spec == Init /\ [][Next]_book
-----------------------------------------------------------------------------
TypeOK ==
    /\ Cardinality(held) <= 1 /\ trend \in {Up, Down, 0}
    /\ \A p \in held \cup worker : p.side \in {"LONG", "SHORT"} /\ p.entry \in Prices

\* Within one life the take-profit level of a position never moves away from the
\* price: it rises for a LONG and falls for a SHORT.
TrailOnlyTightens ==
    restarts' = restarts =>
      \A p \in held : \A q \in held' :
          p.id = q.id /\ p.tp # None =>
              /\ q.tp # None
              /\ IF p.side = "LONG" THEN q.tp >= p.tp ELSE q.tp <= p.tp

\* "Persist the updated peak + trailing level so a restart keeps trailing": a
\* restart loses neither the peak nor the level of a position it keeps.
RestartKeepsTrailing ==
    restarts' # restarts =>
        \A p \in held : \A q \in held' :
            p.id = q.id => q.peak_gain = p.peak_gain /\ q.tp = p.tp
=============================================================================
