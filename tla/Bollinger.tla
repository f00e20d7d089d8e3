----------------------------- MODULE Bollinger -----------------------------
(***************************************************************************)
(* The two Bollinger mean-reversion strategies: the zone of the closed     *)
(* prefix's z-score decides.  "Long only" buys the dip and takes profit    *)
(* above the mean; the long and short variant flips, and mirrors every     *)
(* decision when "reverse" is set.                                         *)
(***************************************************************************)
EXTENDS StrategyBook

CONSTANTS
    LongOnly,  \* bollinger_meanrev (TRUE) or bollinger_meanrev_ls (FALSE)
    Reversed,   \* params.reverse of the long and short variant
    PAXG

\* The zone is None while there are too few closes; inRange: the bar's year is not
\* before start_year.
Zones == {"BUY", "SELL", "BETWEEN"}
Bars == [zone : Zones \cup {"none"}, inRange : BOOLEAN]
Bar == candle["bar"]

LongSide == IF Reversed THEN "SHORT" ELSE "LONG"
ShortSide == IF Reversed THEN "LONG" ELSE "SHORT"

\* _zone_from_closes, over the z-score in tenths.
ZoneFromCloses(z) == IF z < -20 THEN "BUY" ELSE IF z > 0 THEN "SELL" ELSE "BETWEEN"

ClosePosition(p) == <<Send("CLOSE", p), Drop(p)>>

OpenPosition(P, side, n) ==
    LET p == [id |-> <<n, side>>, symbol |-> PAXG, side |-> side]
    IN IF P # {} THEN <<>> ELSE <<Send("OPEN", p), Keep(p)>>

OpenLong(n) == OpenPosition(held, "LONG", n)
CloseLong(p) == ClosePosition(p)

\* The first scan of a life only remembers its bar.
Scan1d(n) ==
    IF ~ Asked("bar") \/ Bar.zone = "none" THEN <<>>
    ELSE <<Seen("bar")>>
         \o (IF last["bar"] = 0 THEN <<>>
             ELSE IF held = {} THEN (IF Bar.zone = "BUY" THEN OpenLong(n) ELSE <<>>)
             ELSE IF Bar.zone = "SELL" THEN CloseLong(Existing(held)) ELSE <<>>)

\* The transition table: flat opens with the zone, the long side flips on SELL and
\* holds otherwise, the short side flips on BUY and goes to cash in between.
Transition(n) ==
    LET p == Existing(held)
    IN CASE held = {} /\ Bar.zone = "BUY" -> OpenPosition({}, LongSide, n)
         [] held = {} /\ Bar.zone = "SELL" -> OpenPosition({}, ShortSide, n)
         [] held # {} /\ p.side = LongSide /\ Bar.zone = "SELL"
              -> ClosePosition(p) \o OpenPosition({}, ShortSide, n)
         [] held # {} /\ p.side = ShortSide /\ Bar.zone = "BUY"
              -> ClosePosition(p) \o OpenPosition({}, LongSide, n)
         [] held # {} /\ p.side = ShortSide /\ Bar.zone = "BETWEEN" -> ClosePosition(p)
         [] OTHER -> <<>>

ScanTf(n) ==
    IF ~ Asked("bar") \/ Bar.zone = "none" THEN <<>>
    ELSE <<Seen("bar")>>
         \o (IF last["bar"] = 0 THEN <<>>
             ELSE IF Bar.inRange THEN Transition(n)
             ELSE IF held = {} THEN <<>> ELSE ClosePosition(Existing(held)))

ShouldScan == ShouldScanAfterEvent("bar")

Scan ==
    /\ pending["bar"] # 0
    /\ Perform((IF LongOnly THEN Scan1d(now["bar"]) ELSE ScanTf(now["bar"]))
               \o <<Done("bar"), Save>>)

\* _load_positions keeps the positions of the strategy's own symbol.
Reloaded == {p \in LoadPositions : p.symbol = PAXG}

Init == \E c \in Bars : StartBook({[t \in Tf |-> c]})

Next ==
    \/ CandleCloses("bar", Bars) \/ ShouldScan
    \/ Scan \/ Around(Reloaded)

Spec == Init /\ [][Next]_book
-----------------------------------------------------------------------------
TypeOK ==
    /\ Cardinality(held) <= 1 /\ (LongOnly => \A p \in held : p.side = "LONG")
    /\ \A z \in -30..10 : ZoneFromCloses(z) \in Zones
=============================================================================
