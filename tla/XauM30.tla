------------------------------ MODULE XauM30 ------------------------------
(***************************************************************************)
(* xau_m30 (alphas 4, 5, 6, 10, 11, 12): M30 bars built from two 15m       *)
(* candles, up to max_positions positions with a stop and a target, closed *)
(* by price alerts, by an EMA50 reversal, and protected at breakeven.  What*)
(* the indicators of a bar say is an input.                                *)
(***************************************************************************)
EXTENDS StrategyBook

CONSTANTS
    Preset,    \* [max |-> max_positions, rr |-> target in risks, macro_gated,
               \*  long_only, managed |-> alphas 4 to 6, pyramid |-> alpha 4]
    Prices,    \* prices of closes, EMA50s and alerts
    Stop,      \* distance of _stop_price from the entry
    HalfAtr,   \* half an ATR: legs of one side are at least this far apart
    XAU, None

Sides == {"LONG", "SHORT"}

\* The side whose pattern the bar completes, and the side of the H4 trend.
Matches == Sides \cup {None}
MacroSides == Sides \cup {None}

\* complete: both halves of the M30 bar and enough H4 bars are cached.
Bars == [close : Prices, e50 : Prices, matches : Matches,
         macro : MacroSides, complete : BOOLEAN]

Bar == candle["15m"]
Sign(side) == IF side = "LONG" THEN 1 ELSE -1
Close(p) == <<Send("CLOSE", p), Drop(p)>>

EntrySide ==
    LET gated == Preset.macro_gated /\ (Bar.macro = None \/ Bar.matches # Bar.macro)
    IN IF gated \/ (Preset.long_only /\ Bar.matches = "SHORT") THEN None ELSE Bar.matches

\* The stop of a leg lies on the losing side of its entry.
StopPrice(side) == Bar.close - Sign(side) * Stop

\* A price reversal through the EMA50 closes a leg, 0.8 of its risk in profit moves
\* its stop to the entry, once.
ManageOnBar(p) ==
    LET gain == Sign(p.side) * (Bar.close - p.entry)
        risk == Sign(p.side) * (p.entry - p.initial_sl)
        safe == [p EXCEPT !.sl = p.entry, !.breakeven = TRUE]
    IN IF Sign(p.side) * (Bar.close - Bar.e50) < 0 THEN Close(p)
       ELSE IF risk > 0 /\ 5 * gain >= 4 * risk /\ ~ p.breakeven
            THEN <<Send("MODIFY", p), Keep(safe)>>
            ELSE <<>>

Worse(side, p) == Sign(side) * (Bar.close - p.entry) < 0
TooNear(p) == LET d == Bar.close - p.entry IN d < HalfAtr /\ -d < HalfAtr

\* (mutant: the cap counts the legs of one side)
OpenPerSide(P, side, n) ==
    LET same == {p \in P : p.side = side}
        sl == StopPrice(side)
        p == [id |-> <<n, side, Cardinality(same)>>, symbol |-> XAU, side |-> side,
              entry |-> Bar.close, sl |-> sl, initial_sl |-> sl, breakeven |-> FALSE,
              tp |-> Bar.close + Sign(side) * Preset.rr * Stop]
    IN IF \/ Cardinality(same) >= Preset.max
          \/ \E q \in same : TooNear(q) \/ (Preset.pyramid /\ Worse(side, q))
       THEN <<>>
       ELSE <<Send("OPEN", p), Keep(p)>>

\* The cap counts LONG and SHORT legs together.
OpenIfAllowed(P, side, n) ==
    LET same == {p \in P : p.side = side}
        sl == StopPrice(side)
        p == [id |-> <<n, side, Cardinality(same)>>, symbol |-> XAU, side |-> side,
              entry |-> Bar.close, sl |-> sl, initial_sl |-> sl, breakeven |-> FALSE,
              tp |-> Bar.close + Sign(side) * Preset.rr * Stop]
    IN IF \/ Cardinality(P) >= Preset.max
          \/ \E q \in same : TooNear(q) \/ (Preset.pyramid /\ Worse(side, q))
       THEN <<>>
       ELSE <<Send("OPEN", p), Keep(p)>>

\* should_scan_after_event: the second half of an M30 bar has closed.
ShouldScanM30 == now["15m"] % 2 = 0 /\ ShouldScanAfterEvent("15m")

\* An incomplete bar keeps the request; the time gate keeps only the entries out.
Scan ==
    /\ Asked("15m") /\ Bar.complete
    /\ \E gate \in BOOLEAN :
        LET managed == <<Seen("15m"), Done("15m")>>
                       \o (IF Preset.managed THEN ForEach(held, ManageOnBar) ELSE <<>>)
            left == AfterPlan(managed).held
        IN Perform(managed
                   \o (IF gate /\ EntrySide # None
                       THEN OpenIfAllowed(left, EntrySide, now["15m"]) ELSE <<>>)
                   \o <<Save>>)

\* on_price_alert: a price at or beyond a leg's target or stop closes the leg.
PriceAlert ==
    \E price \in Prices :
        LET hits == {p \in held : \/ Sign(p.side) * (price - p.tp) >= 0
                                  \/ Sign(p.side) * (price - p.sl) <= 0}
        IN hits # {} /\ Perform(ForEach(hits, Close) \o <<Save>>)

\* _load_positions keeps the positions of the strategy's own symbol.
Reloaded == {p \in LoadPositions : p.symbol = XAU}

Init == \E c \in Bars : StartBook({[t \in Tf |-> c]})

Next ==
    \/ CandleCloses("15m", IF now["15m"] % 2 = 1 THEN Bars ELSE {Bar})  \* the second half decides
    \/ ShouldScanM30
    \/ Scan \/ PriceAlert \/ Around(Reloaded)

Spec == Init /\ [][Next]_book
-----------------------------------------------------------------------------
TypeOK ==
    \A p \in held \cup worker : p.side \in Sides /\ p.entry \in Prices /\ p.breakeven \in BOOLEAN

\* Without a failed send the worker never holds more legs of the strategy than
\* max_positions, LONG and SHORT together, over restarts and price alerts.
CapHeld == faults = 0 => Cardinality(worker) <= Preset.max

\* Within one life the stop of a leg that was moved to breakeven stays there.
TrailOnlyTightens ==
    restarts' = restarts =>
      \A p \in held : \A q \in held' :
          p.id = q.id => Sign(p.side) * q.sl >= Sign(p.side) * p.sl
=============================================================================
