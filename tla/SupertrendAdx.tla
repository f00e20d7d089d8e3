--------------------------- MODULE SupertrendAdx ---------------------------
(***************************************************************************)
(* supertrend-adx-tp: Supertrend flips decided on the closed prefix of the *)
(* 15m series, and one take-profit per trend cycle, when a confirmed pivot *)
(* of the ADX is lower than the one before it.  Direction and pivot of a   *)
(* candle are inputs.                                                      *)
(***************************************************************************)
EXTENDS StrategyBook

CONSTANTS
    Peaks,     \* heights of a confirmed ADX pivot, in steps of min_peak_drop
    XAU, None

\* What compute_supertrend_directions may say of the newest bar.
Directions == {Down, Up}

\* What confirmed_pivot_high may find in the ADX series.
Pivots == Peaks \cup {None}

\* pivot: the pivot this candle confirms, if any; inCycle: every candle from the
\* pivot on has the direction of this one.
Candles == [dir : Directions, pivot : Pivots, inCycle : BOOLEAN]

Bar == candle["15m"]

ClosePosition(p) == <<Send("CLOSE", p), Drop(p)>>

OpenIfAllowed(P, side, n) ==
    IF P # {} THEN <<>>
    ELSE LET p == [id |-> <<n, side>>, symbol |-> XAU, side |-> side,
                   previous_adx_peak |-> None, tp_triggered |-> FALSE]
         IN <<Send("OPEN", p), Keep(p)>>

\* The trend turned: forget the cycle, leave an opposite position, open.
Flip ==
    LET reset == {[p EXCEPT !.previous_adx_peak = None, !.tp_triggered = FALSE] : p \in held}
        opposite == {p \in reset : Toward(p.side) # Bar.dir}
    IN <<Turn(Bar.dir)>>
       \o (IF held = {} THEN <<>> ELSE <<Keep(Existing(reset))>>)
       \o (IF opposite = {} THEN <<>> ELSE ClosePosition(Existing(opposite)))
       \o OpenIfAllowed(reset \ opposite, SideOf(Bar.dir), now["15m"])

\* Within a cycle: the second, lower peak takes the profit.
LowerPeak(p) ==
    IF Bar.pivot = None \/ p.tp_triggered \/ ~ Bar.inCycle THEN <<>>
    ELSE IF p.previous_adx_peak # None /\ Bar.pivot < p.previous_adx_peak
         THEN <<Keep([p EXCEPT !.tp_triggered = TRUE])>> \o ClosePosition(p)
         ELSE <<Keep([p EXCEPT !.previous_adx_peak = Bar.pivot])>>

Scan15m ==
    IF ~ Asked("15m") THEN <<>>
    ELSE IF last["15m"] = 0 THEN <<Seen("15m"), Turn(Adopted(Bar.dir))>>
    ELSE <<Seen("15m")>>
         \o (IF Bar.dir # trend THEN Flip
             ELSE IF held = {} THEN <<>> ELSE LowerPeak(Existing(held)))

ShouldScan == ShouldScanAfterEvent("15m")

Scan ==
    /\ pending["15m"] # 0
    /\ Perform(Scan15m \o <<Done("15m"), Save>>)

\* _load_positions keeps the positions of the strategy's own symbol.
Reloaded == {p \in LoadPositions : p.symbol = XAU}

Init == \E c \in Candles : StartBook({[t \in Tf |-> c]})

Next ==
    \/ CandleCloses("15m", Candles) \/ ShouldScan
    \/ Scan \/ Around(Reloaded)

Spec == Init /\ [][Next]_book
-----------------------------------------------------------------------------
TypeOK ==
    /\ Cardinality(held) <= 1 /\ trend \in {Up, Down, 0}
    /\ \A p \in held : p.previous_adx_peak \in Peaks \cup {None} /\ p.tp_triggered \in BOOLEAN
=============================================================================
