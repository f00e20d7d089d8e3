------------------------- MODULE SupertrendAdxEma13 -------------------------
(***************************************************************************)
(* supertrend-adx-4-2-ema13-tp: Supertrend flips, where a lower ADX peak   *)
(* only arms the take-profit and a close across the EMA13 takes it.        *)
(***************************************************************************)
EXTENDS StrategyBook

CONSTANTS
    Peaks,     \* heights of a confirmed ADX pivot, in steps of min_peak_drop
    XAU, None

\* What compute_supertrend_directions may say of the newest bar.
Directions == {Down, Up}

\* What confirmed_pivot_high may find in the ADX series.
Pivots == Peaks \cup {None}

\* above: the close is above, below or on the EMA13 of the closed prefix.
Candles == [dir : Directions, pivot : Pivots, inCycle : BOOLEAN,
            above : {"above", "below", "on"}]

Bar == candle["15m"]

ClosePosition(p) == <<Send("CLOSE", p), Drop(p)>>

OpenIfAllowed(P, side, n) ==
    IF P # {} THEN <<>>
    ELSE LET p == [id |-> <<n, side>>, symbol |-> XAU, side |-> side,
                   previous_adx_peak |-> None, adx_weakness_armed |-> FALSE]
         IN <<Send("OPEN", p), Keep(p)>>

Flip ==
    LET opposite == {p \in held : Toward(p.side) # Bar.dir}
    IN <<Turn(Bar.dir)>>
       \o (IF opposite = {} THEN <<>> ELSE ClosePosition(Existing(opposite)))
       \o OpenIfAllowed(held \ opposite, SideOf(Bar.dir), now["15m"])

\* The pivot is remembered whether or not it arms; once armed, stays armed.
Weakened(p) ==
    IF Bar.pivot = None \/ ~ Bar.inCycle THEN p
    ELSE [p EXCEPT !.previous_adx_peak = Bar.pivot,
                   !.adx_weakness_armed = @ \/ (p.previous_adx_peak # None
                                                /\ Bar.pivot < p.previous_adx_peak)]

CrossesEma(p) == Bar.above # (IF p.side = "LONG" THEN "above" ELSE "below")

InCycle(p) ==
    LET q == Weakened(p)
    IN <<Keep(q)>> \o (IF q.adx_weakness_armed /\ CrossesEma(q) THEN ClosePosition(q) ELSE <<>>)

Scan15m ==
    IF ~ Asked("15m") THEN <<>>
    ELSE IF last["15m"] = 0 THEN <<Seen("15m"), Turn(Adopted(Bar.dir))>>
    ELSE <<Seen("15m")>>
         \o (IF Bar.dir # trend THEN Flip
             ELSE IF held = {} THEN <<>> ELSE InCycle(Existing(held)))

ShouldScan == ShouldScanAfterEvent("15m")

Scan ==
    /\ pending["15m"] # 0
    /\ Perform(Scan15m \o <<Done("15m"), Save>>)

\* _load_positions keeps the positions of the strategy's own symbol.
Reloaded == {p \in LoadPositions : p.symbol = XAU}

Init == \E c \in Candles : StartBook({[t \in Tf |-> c]})

Next ==
    \/ CandleCloses("15m", Candles) \/ ShouldScan
    \/ Scan \/ Around(Reloaded)

Spec == Init /\ [][Next]_book
-----------------------------------------------------------------------------
TypeOK ==
    /\ Cardinality(held) <= 1 /\ trend \in {Up, Down, 0}
    /\ \A p \in held : p.previous_adx_peak \in Peaks \cup {None} /\ p.adx_weakness_armed \in BOOLEAN
=============================================================================
