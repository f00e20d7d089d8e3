----------------------------- MODULE SmoothChan -----------------------------
(***************************************************************************)
(* smooth-chan: Supertrend flips on effective bars (15m, 1h, or three 1h   *)
(* candles), with a fixed stop, a chandelier stop that tightens with the   *)
(* profit, and a breakeven exit, all judged on the closed prefix.          *)
(***************************************************************************)
EXTENDS StrategyBook

CONSTANTS
    Prices,      \* prices, in units in which the distances below are whole
    SlDist,      \* sl_k * entry_atr, 0 when the stop is off
    ChanDist,    \* [profit -> chan_mult * entry_atr]: falls from chan_start to chan_min
    BeDist,      \* be_pct * entry
    XAU, None

\* Source candles are counted in "src": BarOf of them make an effective bar.
CONSTANT BarOf

\* What compute_supertrend_multi may say of the newest bar.
Directions == {Down, Up}

\* high, low: the closed prefix's last bar; open: the execution price; atr: the
\* ATR of the prefix is a number above zero.
Bars == {c \in [dir : Directions, high : Prices, low : Prices, open : Prices, atr : BOOLEAN] :
            c.low <= c.high}

Bar == candle["src"]
Larger(a, b) == IF a > b THEN a ELSE b
Smaller(a, b) == IF a < b THEN a ELSE b

ClosePosition(p) == <<Send("CLOSE", p), Drop(p)>>

OpenIfAllowed(P, side, n) ==
    IF P # {} \/ ~ Bar.atr THEN <<>>
    ELSE LET p == [id |-> <<n, side>>, symbol |-> XAU, side |-> side,
                   entry |-> Bar.open, wm |-> Bar.open, be |-> FALSE]
         IN <<Send("OPEN", p), Keep(p)>>

\* The best and the worst the bar did to the position, seen as a LONG would.
Sign(p) == IF p.side = "LONG" THEN 1 ELSE -1
Best(p) == Sign(p) * (IF p.side = "LONG" THEN Bar.high ELSE Bar.low)
Worst(p) == Sign(p) * (IF p.side = "LONG" THEN Bar.low ELSE Bar.high)

HitsStop(p) == SlDist > 0 /\ Worst(p) <= Sign(p) * p.entry - SlDist

HitsChandelier(p) ==
    LET profit == Larger(0, Sign(p) * (p.wm - p.entry))
        level == Sign(p) * p.wm - ChanDist[profit]
    IN level > Sign(p) * p.entry /\ Worst(p) <= level

\* Breakeven is armed by this bar but judged by what earlier bars armed; the
\* watermark moves only if the position survives.
ManageExits(p) ==
    LET armed == [p EXCEPT !.be = @ \/ Best(p) > Sign(p) * p.entry + BeDist]
        moved == [armed EXCEPT !.wm = Sign(p) * Larger(Sign(p) * @, Best(p))]
    IN IF HitsStop(p) \/ HitsChandelier(p) THEN ClosePosition(p)
       ELSE IF p.be /\ Worst(p) <= Sign(p) * p.entry
            THEN <<Keep(armed)>> \o ClosePosition(armed)
       ELSE <<Keep(moved)>>

\* should_scan_after_event: an effective bar completes with its last source candle.
ShouldScanEff == now["src"] % BarOf = 0 /\ ShouldScanAfterEvent("src")

ScanEff ==
    IF ~ Asked("src") THEN <<>>
    ELSE IF last["src"] = 0 THEN <<Seen("src"), Turn(Adopted(Bar.dir))>>
    ELSE LET managed == <<Seen("src")>> \o (IF held = {} THEN <<>> ELSE ManageExits(Existing(held)))
             left == AfterPlan(managed).held
             opposite == {p \in left : Toward(p.side) # Bar.dir}
         IN IF Bar.dir = trend THEN managed
            ELSE managed \o <<Turn(Bar.dir)>>
                 \o (IF opposite = {} THEN <<>> ELSE ClosePosition(Existing(opposite)))
                 \o OpenIfAllowed(left \ opposite, SideOf(Bar.dir), now["src"])

Scan ==
    /\ pending["src"] # 0
    /\ Perform(ScanEff \o <<Done("src"), Save>>)

\* _load_positions keeps the positions of the strategy's own symbol.
Reloaded == {p \in LoadPositions : p.symbol = XAU}

Init == \E c \in Bars : StartBook({[t \in Tf |-> c]})

Next ==
    \/ CandleCloses("src", Bars) \/ ShouldScanEff
    \/ Scan \/ Around(Reloaded)

Spec == Init /\ [][Next]_book
-----------------------------------------------------------------------------
TypeOK ==
    /\ Cardinality(held) <= 1 /\ trend \in {Up, Down, 0}
    /\ \A p \in held : p.wm \in Prices /\ p.be \in BOOLEAN

\* Within one life the watermark of a position only moves with the profit and the
\* breakeven exit is never disarmed.
TrailOnlyTightens ==
    restarts' = restarts =>
      \A p \in held : \A q \in held' :
          p.id = q.id => /\ Sign(p) * q.wm >= Sign(p) * p.wm
                         /\ p.be => q.be
=============================================================================
