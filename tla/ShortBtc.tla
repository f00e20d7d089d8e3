------------------------------ MODULE ShortBtc ------------------------------
(***************************************************************************)
(* short-btc-v1: a short at a breakdown, cut once, on the first candle     *)
(* after the entry, when the price rose, then closed by its stop, target or*)
(* age.                                                                    *)
(***************************************************************************)
EXTENDS EngineSteps

CONSTANTS
    BTC, None,
    Prices,
    SlDist, TpDist,  \* SL_ATR_MULT * atr; TP_RATIO times that
    MaxHold          \* MAX_HOLD_H, in candles

\* entry: compute_entry_signal and passes_d1_downtrend; bad: how many of the funding
\* rate and the open interest speak against the short.
Bars == {b \in [low : Prices, high : Prices, close : Prices, entry : BOOLEAN, bad : 0..2] :
            b.low <= b.close /\ b.close <= b.high}

Mind == [idle |-> TRUE]

\* compute_context_exit_fraction: 0.5 or 0.7 of the quantity, or all of it.
Fraction(bar) == IF bar.bad = 2 THEN "REDUCE100" ELSE "REDUCE"

\* _compute_indicators, in the thread: the entry without a position, else the cut.
Indicators(row, held) ==
    [entry |-> held = {} /\ row.bar.entry,
     cut |-> IF \E p \in held : ~ p.run.reduced /\ p.run.bars = 0 /\ row.bar.close >= p.run.signal
             THEN Fraction(row.bar) ELSE None]

OpenPosition(c) ==
    LET entry == c.bar.close
    IN Open(NewPosition(c, BTC, "SHORT", entry + SlDist, entry - TpDist,
            [since |-> c.n, last |-> c.n, cuts |-> 0, reduced |-> FALSE, bars |-> 0,
             signal |-> entry, known |-> TRUE]))

Closed(p, reason) == <<Push(reason, p), Pop(p)>>

\* _manage_position: "opened_at_ms" is missing in an adopted position.
Manage1(p, c) ==
    IF ~ p.run.known THEN <<Raise>>
    ELSE IF c.n - p.run.since >= MaxHold THEN Closed(p, "TIME")
    ELSE IF c.bar.high >= p.sl THEN Closed(p, "SL")
    ELSE IF c.bar.low <= p.tp THEN Closed(p, "TP")
    ELSE <<>>

\* "cuts" stands for the quantity left, "reduced" is the engine's flag.
Cut(p) == [p EXCEPT !.run.cuts = @ + 1, !.run.reduced = TRUE]

ReducePosition(p, kind) ==
    IF kind = "REDUCE100" THEN Closed(p, kind) ELSE <<Push(kind, p), Put(Cut(p))>>

\* _apply_decision: a candle is claimed once, and never the entry candle.
Claims(p, c) == c.n > p.run.last
Claimed(p, c) == [p EXCEPT !.run.last = c.n]

Apply(s, c, indic) ==
    LET pos == Of(s.held, BTC)
        p == CHOOSE q \in pos : TRUE
        claim == <<Put(Claimed(p, c))>>
        reduced == claim \o (IF indic.cut # None /\ ~ p.run.reduced
                             THEN ReducePosition(Claimed(p, c), indic.cut) ELSE <<>>)
        Rest(S) == FoldLeft(LAMBDA plan, q : plan \o Manage1(q, c), <<>>, SetToSeq(S))
        managed == reduced \o Rest(After(s, reduced).held)
        left == After(s, UpToRaise(managed)).held
    IN IF pos = {} THEN (IF indic.entry THEN OpenPosition(c) ELSE <<>>)
       ELSE IF ~ Claims(p, c) THEN <<>>
       ELSE managed
            \o [i \in 1..Cardinality(left) |-> Put([SetToSeq(left)[i] EXCEPT !.run.bars = @ + 1])]

\* _manage_positions: the newest candle, claimed or not.
Manage(s, c) == InTurn(s, s.held, LAMBDA t, p : Manage1(p, c))

Alert(s, c, price) ==
    InTurn(s, s.held, LAMBDA t, p :
        IF price >= p.sl THEN Closed(p, "SL") ELSE IF price <= p.tp THEN Closed(p, "TP") ELSE <<>>)

Adopted(w) ==
    [w EXCEPT !.run = [since |-> 0, last |-> -1, cuts |-> @.cuts, reduced |-> FALSE, bars |-> 0,
                       signal |-> @.signal, known |-> FALSE]]
=============================================================================
