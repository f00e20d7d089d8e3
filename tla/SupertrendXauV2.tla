----------------------------- MODULE SupertrendXauV2 --------------------------
(***************************************************************************)
(* supertrend-xau-v2 (5 and 10): 15m Supertrend flips, and a trailing      *)
(* take-profit that is simulated minute by minute and starts with the first*)
(* profit of the position.                                                 *)
(***************************************************************************)
EXTENDS StrategyBook

CONSTANTS
    Prices,    \* even numbers, so that half a profit is exact (retrace_pct 1/2)
    XAU, None

\* What compute_supertrend_directions may say of the newest 15m bar.
Directions == {Down, Up}

Quarters == [dir : Directions, close : Prices]
Minutes == {c \in [open : Prices, high : Prices, low : Prices] :
                c.low <= c.open /\ c.open <= c.high}

Larger(a, b) == IF a > b THEN a ELSE b
Smaller(a, b) == IF a < b THEN a ELSE b

\* One minute of a LONG, in causal order: gap at the open, the level of the minute
\* before, and only then the new peak, whose level holds from the next minute.
ProcessLongMinute(p, c) ==
    LET best == Larger(p.best, c.high)
        level == p.entry + ((best - p.entry) \div 2)
        active == p.active_trailing
    IN [exited |-> active # None /\ (c.open <= active \/ c.low <= active),
        best |-> best,
        next |-> IF best <= p.entry THEN active
                 ELSE IF active = None THEN level ELSE Larger(active, level)]

ProcessShortMinute(p, c) ==
    LET best == Smaller(p.best, c.low)
        level == p.entry - ((p.entry - best) \div 2)
        active == p.active_trailing
    IN [exited |-> active # None /\ (c.open >= active \/ c.high >= active),
        best |-> best,
        next |-> IF best >= p.entry THEN active
                 ELSE IF active = None THEN level ELSE Smaller(active, level)]

ClosePosition(p) == <<Send("CLOSE", p), Drop(p)>>

OpenIfAllowed(P, side, n) ==
    IF P # {} THEN <<>>
    ELSE LET p == [id |-> <<n, side>>, symbol |-> XAU, side |-> side,
                   entry |-> candle["15m"].close, best |-> candle["15m"].close,
                   active_trailing |-> None]
         IN <<Send("OPEN", p), Keep(p)>>

\* A flip closes the opposite position and opens; without one nothing happens.
Scan15m ==
    LET dir == candle["15m"].dir
        opposite == {p \in held : Toward(p.side) # dir}
    IN IF ~ Asked("15m") THEN <<>>
       ELSE IF last["15m"] = 0 THEN <<Seen("15m"), Turn(Adopted(dir))>>
       ELSE IF dir = trend THEN <<Seen("15m")>>
       ELSE <<Seen("15m"), Turn(dir)>>
            \o (IF opposite = {} THEN <<>> ELSE ClosePosition(Existing(opposite)))
            \o OpenIfAllowed(held \ opposite, SideOf(dir), now["15m"])

\* The trailing exit on the newest minute; P are the positions left by Scan15m.
Scan1m(P) ==
    IF ~ Asked("1m") THEN <<>>
    ELSE IF P = {} THEN <<Seen("1m")>>
    ELSE LET p == Existing(P)
             step == IF p.side = "LONG" THEN ProcessLongMinute(p, candle["1m"])
                     ELSE ProcessShortMinute(p, candle["1m"])
         IN <<Seen("1m")>>
            \o (IF step.exited THEN ClosePosition(p)
                ELSE <<Keep([p EXCEPT !.best = step.best, !.active_trailing = step.next])>>)

ShouldScan == \E t \in Tf : ShouldScanAfterEvent(t)

Scan ==
    LET entries == Scan15m \o <<Done("15m")>>
    IN /\ \E t \in Tf : pending[t] # 0
       /\ Perform((IF pending["15m"] # 0 THEN entries ELSE <<>>)
                  \o (IF pending["1m"] # 0
                      THEN Scan1m(AfterPlan(entries).held) \o <<Done("1m")>> ELSE <<>>)
                  \o <<Save>>)

\* _load_positions keeps the positions of the strategy's own symbol.
Reloaded == {p \in LoadPositions : p.symbol = XAU}

Init == \E q \in Quarters, m \in Minutes :
            StartBook({[t \in Tf |-> IF t = "15m" THEN q ELSE m]})

Next ==
    \/ CandleCloses("15m", Quarters) \/ CandleCloses("1m", Minutes)
    \/ ShouldScan
    \/ Scan \/ Around(Reloaded)

Spec == Init /\ [][Next]_book
-----------------------------------------------------------------------------
TypeOK ==
    /\ Cardinality(held) <= 1 /\ trend \in {Up, Down, 0}
    /\ \A p \in held \cup worker : p.side \in {"LONG", "SHORT"} /\ p.entry \in Prices

\* Within one life the trailing level of a position never moves away from the
\* price, and once there it stays.
TrailOnlyTightens ==
    restarts' = restarts =>
      \A p \in held : \A q \in held' :
          p.id = q.id /\ p.active_trailing # None =>
              /\ q.active_trailing # None
              /\ IF p.side = "LONG" THEN q.active_trailing >= p.active_trailing
                 ELSE q.active_trailing <= p.active_trailing
=============================================================================
