----------------------------- MODULE HyperTurbo -----------------------------
(***************************************************************************)
(* hyper-turbo-v2: decided on the closed 4h candle at the open of the next,*)
(* with an ATR stop that trails at each decision, judged by the decision's *)
(* market price, by price alerts and by the 1m candles since last_managed. *)
(***************************************************************************)
EXTENDS EngineSteps

CONSTANTS
    BTC, None, Prices,
    Trail,           \* ATR_STOP_MULTIPLIER * atr
    Catastrophe      \* CATASTROPHE_PCT of the entry

\* go: go_long or go_short; recommended: the gates let the entry pass; close: the
\* closed candle's; open: the execution candle's; atr: it is above zero.
Bars == [go : Sides \cup {None}, recommended : BOOLEAN, close : Prices, open : Prices, atr : BOOLEAN]

\* _last_signal_bar.
Mind == [decided |-> 0]

\* 1m prices are counted from 1; a position remembers the last one it was judged by.
Market(c) == IF c.minutes = <<>> THEN c.bar.open ELSE Last(c.minutes)

Level(p, price) == Sign(p.side) * price

\* (mutant: the stop follows the close in both directions)
TrailedBothWays(p, bar) == [p EXCEPT !.sl = bar.close - Sign(p.side) * Trail]

\* _update_trailing_stop: a LONG's stop is only raised, a SHORT's only lowered.
Trailed(p, bar) ==
    [p EXCEPT !.sl = Sign(p.side) * Larger(Level(p, @), Level(p, bar.close) - Trail)]

UpdateTrailingStop(p, bar) ==
    IF ~ bar.atr \/ Trailed(p, bar) = p THEN <<>>
    ELSE <<Put(Trailed(p, bar)), Push("MODIFY", Trailed(p, bar))>>

\* _hit_reason: the worst price seen is at or beyond the stop or the last resort.
Hit(p, low, high) ==
    LET worst == IF p.side = "LONG" THEN low ELSE -high
    IN worst <= Level(p, p.sl) \/ worst <= Level(p, p.run.catastrophe)

OpenPosition(c) ==
    IF ~ c.bar.atr THEN <<>>
    ELSE LET side == c.bar.go
             entry == c.bar.open
         IN Open(NewPosition(c, BTC, side, entry - Sign(side) * Trail, 0,
                    [catastrophe |-> entry - Sign(side) * Catastrophe, managed |-> c.start]))

\* _apply_signal: trail, then the stop, then the reversal, then perhaps an entry.
ApplySignal(s, c) ==
    LET pos == Of(s.held, BTC)
        kept == IF pos = {} THEN <<>> ELSE UpdateTrailingStop(CHOOSE p \in pos : TRUE, c.bar)
        moved == Of(After(s, kept).held, BTC)
        over == {p \in moved : Hit(p, Market(c), Market(c))
                               \/ (c.bar.go # None /\ c.bar.go # p.side)}
        enters == /\ c.fresh /\ c.bar.go # None /\ c.bar.recommended
                  /\ moved = over /\ c.ready
    IN kept \o CloseAll(over) \o (IF enters THEN OpenPosition(c) ELSE <<>>)

\* _apply_decision: a signal bar is applied once.
ApplyDecision(s, c) ==
    IF s.mind.decided = c.n THEN <<>>
    ELSE <<Think([s.mind EXCEPT !.decided = c.n])>> \o ApplySignal(s, c)

OnPriceAlert(s, c, price) == CloseAll({p \in s.held : Hit(p, price, price)})

\* _manage_positions: the range of the 1m candles the position was not judged by.
ManagePositions(s, c) ==
    LET Unseen(p) == {c.minutes[i] : i \in {j \in DOMAIN c.minutes : j > p.run.managed}}
        Manage(p) ==
            LET judged == [p EXCEPT !.run.managed = Len(c.minutes)]
            IN IF Unseen(p) = {} THEN <<>>
               ELSE <<Put(judged)>>
                    \o (IF Hit(p, Lowest(Unseen(p)), Highest(Unseen(p))) THEN Close(judged) ELSE <<>>)
    IN InTurn(s, s.held, LAMBDA t, p : Manage(p))
=============================================================================
