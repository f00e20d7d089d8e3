-------------------------------- MODULE Vn30 --------------------------------
(***************************************************************************)
(* vn30_tcbs (alphas 19 and 21): one contract, a side decided at every bar *)
(* of the session, flat from force_flat_at on.  The oscillator and the ALMA*)
(* band of a bar are inputs; the cut-loss level that alpha 19 carries from *)
(* bar to bar is not.                                                      *)
(***************************************************************************)
EXTENDS StrategyBook

CONSTANTS
    Alpha,     \* the preset, 19 or 21
    Reversed,   \* trade the opposite of what the alpha decides
    Lows, Highs,  \* lows and highs of bars, two to a price step of ten
    F1, None

\* trigger: 1 or -1 when the oscillator is extreme (19) or the close has left the
\* ALMA band (21); clock: before the session ends, after force_flat_at, outside.
Bars == {b \in [trigger : {-1, 0, 1}, low : Lows, high : Highs,
                  clock : {"session", "flat", "outside"}] : b.low <= b.high}

Bar == candle["bar"]
Step(x) == x \div 2
Larger(a, b) == IF a > b THEN a ELSE b
Smaller(a, b) == IF a < b THEN a ELSE b

CurrentSide(P) == IF P = {} THEN 0 ELSE IF Existing(P).side = "LONG" THEN 1 ELSE -1
CurrentCutLoss(P) == IF P = {} THEN None ELSE Existing(P).cut_loss

\* alpha19_decision: entry, exit beyond the cut-loss level, then the ratchet.
Alpha19Decision(side, cut) ==
    LET staged ==
            CASE Bar.trigger = 1 /\ side <= 0 -> <<1, Step(Bar.low) + 1>>
              [] Bar.trigger = -1 /\ side >= 0 -> <<-1, Step(Bar.high)>>
              [] side > 0 /\ cut # None /\ Bar.low > 2 * cut -> <<0, None>>
              [] side < 0 /\ cut # None /\ Bar.high < 2 * cut -> <<0, None>>
              [] OTHER -> <<side, cut>>
    IN CASE staged[1] > 0 /\ staged[2] # None ->
                <<1, Larger(Step(Bar.low), staged[2])>>
         [] staged[1] < 0 /\ staged[2] # None ->
                <<-1, Smaller(Step(Bar.high) + 1, staged[2])>>
         [] OTHER -> staged

\* Alpha21AlmaCross.on_bar: the side changes only when the band is left.
Alpha21Decision(side) == <<IF Bar.trigger = 0 THEN side ELSE Bar.trigger, None>>

Flip(side) == IF Reversed THEN -side ELSE side
Desired ==
    LET inner == Flip(CurrentSide(held))
        d == IF Alpha = 19 THEN Alpha19Decision(inner, CurrentCutLoss(held))
             ELSE Alpha21Decision(inner)
    IN <<Flip(d[1]), d[2]>>

Close(p) == <<Send("CLOSE", p), Drop(p)>>

\* Same side: only the level moves.  Otherwise close all, then open when allowed.
TransitionToSide(side, cut, gate, n) ==
    LET name == IF side > 0 THEN "LONG" ELSE "SHORT"
        p == [id |-> <<n, name>>, symbol |-> F1, side |-> name, cut_loss |-> cut]
    IN IF side = CurrentSide(held)
       THEN ForEach(held, LAMBDA q : <<Keep([q EXCEPT !.cut_loss = cut])>>) \o <<Save>>
       ELSE ForEach(held, Close)
            \o (IF side = 0 \/ ~ gate THEN <<>> ELSE <<Send("OPEN", p), Keep(p)>>)
            \o <<Save>>

ShouldScan == ShouldScanAfterEvent("bar")

\* The forced flat does not ask whether the strategy is ready; entries do.
Scan ==
    /\ pending["bar"] # 0
    /\ \E ready, gate \in BOOLEAN :
        LET n == pending["bar"]
        IN Perform(
            IF ~ Asked("bar") THEN <<Done("bar")>>
            ELSE <<Seen("bar"), Done("bar")>>
                 \o (IF Bar.clock = "flat" THEN TransitionToSide(0, None, gate, n)
                     ELSE IF ~ ready \/ Bar.clock = "outside" THEN <<>>
                     ELSE TransitionToSide(Desired[1], Desired[2], gate, n)))

\* _load_positions keeps the positions of the strategy's own symbol.
Reloaded == {p \in LoadPositions : p.symbol = F1}

Init == \E c \in Bars : StartBook({[t \in Tf |-> c]})

Next ==
    \/ CandleCloses("bar", Bars) \/ ShouldScan
    \/ Scan \/ Around(Reloaded)

Spec == Init /\ [][Next]_book
-----------------------------------------------------------------------------
TypeOK == Cardinality(held) <= 1 /\ \A p \in held : p.side \in {"LONG", "SHORT"}

\* Once the bar that forces the session flat is scanned, without a failed send,
\* the worker holds nothing when it has taken every signal.
FlatAfterSession ==
    /\ faults = 0 /\ stream = <<>> /\ last["bar"] = now["bar"]
    /\ Bar.clock = "flat"
    => worker = {}

\* Within one life the cut-loss level of a position only follows the price.
TrailOnlyTightens ==
    restarts' = restarts =>
      \A p \in held : \A q \in held' :
          p.id = q.id /\ p.cut_loss # None =>
              /\ q.cut_loss # None
              /\ Flip(CurrentSide(held)) * q.cut_loss >= Flip(CurrentSide(held)) * p.cut_loss
=============================================================================
