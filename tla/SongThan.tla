------------------------------ MODULE SongThan ------------------------------
(***************************************************************************)
(* deobietcophaialphakhong: limit orders at the edges of the swing range,  *)
(* a stop with two milestones, and a reverse trade after a row of stops.   *)
(* One symbol.                                                             *)
(***************************************************************************)
EXTENDS EngineSteps

CONSTANTS
    BTC, None,
    Candles,             \* [low, high, close, green, red], green None: no zone
    SlDist, TpDist,      \* SL_LONG_PCT and SL_SHORT_PCT, TP_PCT as distances
    M1, M2, M1Sl, M2Sl,  \* TRAIL_*: gains that move the stop, and where to
    ReverseDist,         \* REVERSE_SL_PCT and REVERSE_TP_PCT
    ReverseCount         \* REVERSE_SL_COUNT

\* M1Sl <= M2Sl, M1 <= M2, -SlDist <= M1Sl.

\* _pending_orders, _consecutive_sl and _last_sl_side; _last_zones and _last_trail are
\* only written.
Mind == [pending |-> <<>>, row |-> 0, side |-> None]

\* compute_zones: the green one below the red one.
Bars == {b \in Candles : b.low <= b.close /\ b.close <= b.high /\ (b.green = None \/ b.green < b.red)}

Indicators(row, held) == row.bar

OpenPosition(c, side, entry, reverse) ==
    LET sl == IF reverse THEN ReverseDist ELSE SlDist
        tp == IF reverse THEN ReverseDist ELSE TpDist
    IN Open(NewPosition(c, BTC, side, entry - Sign(side) * sl, entry + Sign(side) * tp,
            [since |-> c.n, cuts |-> 0, entry |-> entry, milestone |-> 0]))

\* _close_position, and _record_sl when the stop was hit.
Closed(p, reason) == <<Push(reason, p), Pop(p)>>
RecordSl(mind, side) ==
    Think([mind EXCEPT !.row = IF side = mind.side THEN @ + 1 ELSE 1, !.side = side])

\* The worst and best price of a range, as gains of the position.
Gain(p, price) == Sign(p.side) * (price - p.run.entry)
Worst(p, bar) == IF p.side = "LONG" THEN bar.low ELSE bar.high
Best(p, bar) == IF p.side = "LONG" THEN bar.high ELSE bar.low
SlHit(p, price) == Gain(p, price) <= Gain(p, p.sl)
TpHit(p, price) == Gain(p, price) >= Gain(p, p.tp)

\* get_trailing_milestone, update_trailing_sl
Milestone(p, bar) ==
    CASE Gain(p, Best(p, bar)) >= M2 -> 2
      [] Gain(p, Best(p, bar)) >= M1 -> 1
      [] OTHER -> 0
TrailingSl(p, m) == p.run.entry + Sign(p.side) * (IF m = 2 THEN M2Sl ELSE M1Sl)

Upgraded(p, bar) ==
    LET m == Milestone(p, bar)
        sl == TrailingSl(p, m)
    IN IF m <= p.run.milestone THEN p
       ELSE [p EXCEPT !.run.milestone = m, !.sl = IF Gain(p, sl) > Gain(p, @) THEN sl ELSE @]

\* _manage_position: the stop before the milestone before the target, in one candle.
Manage1(s, p, bar) ==
    LET q == Upgraded(p, bar)
    IN IF SlHit(p, Worst(p, bar)) THEN Closed(p, "SL") \o <<RecordSl(s.mind, p.side)>>
       ELSE (IF q # p THEN <<Put(q)>> ELSE <<>>)
            \o (IF q.sl # p.sl THEN <<Push("MODIFY", q)>> ELSE <<>>)
            \o (IF q.run.milestone = 2 THEN Closed(q, "TP_TRAIL")
                ELSE IF TpHit(q, Best(q, bar)) THEN Closed(q, "TP") ELSE <<>>)

Manage(s, c) == InTurn(s, s.held, LAMBDA t, p : Manage1(t, p, c.bar))

\* get_entry_signals
EntrySignals(bar) ==
    (IF bar.low <= bar.green THEN <<[side |-> "LONG", limit |-> bar.green]>> ELSE <<>>)
    \o (IF bar.high >= bar.red THEN <<[side |-> "SHORT", limit |-> bar.red]>> ELSE <<>>)

Filled(order, bar) ==
    IF order.side = "LONG" THEN bar.low <= order.limit ELSE bar.high >= order.limit

\* (mutant: the other order rests on)
PendingAfterFill(orders, order) == SelectSeq(orders, LAMBDA o : o # order)

\* The first order that fills takes all of them away.
PendingAfter(orders, order) == <<>>

\* Steps 3 and 4: fills of the orders of an earlier scan, or new orders, if none rest.
FillOrPlace(s, c) ==
    LET orders == s.mind.pending
        fills == SelectSeq(orders, LAMBDA o : Filled(o, c.bar))
    IN IF fills # <<>>
       THEN OpenPosition(c, fills[1].side, fills[1].limit, FALSE)
            \o <<Think([s.mind EXCEPT !.pending = PendingAfter(orders, fills[1])])>>
       ELSE IF orders = <<>> /\ s.held = {}
       THEN <<Think([s.mind EXCEPT !.pending = EntrySignals(c.bar)])>>
       ELSE <<>>

\* The side of the last stops was wrong.
Opposite(side) == IF side = "SHORT" THEN "LONG" ELSE "SHORT"

\* _apply_decision
Apply(s, c, indic) ==
    LET managed == Manage(s, c)
        after == After(s, managed)
    IN IF c.bar.green = None THEN <<Think([s.mind EXCEPT !.pending = <<>>])>>
       ELSE IF s.mind.row >= ReverseCount /\ s.held = {} /\ s.mind.pending = <<>>
       THEN OpenPosition(c, Opposite(s.mind.side), c.bar.close, TRUE)
            \o <<Think([s.mind EXCEPT !.row = 0, !.side = None])>>
       ELSE managed \o (IF after.held # {}
                        THEN <<Think([after.mind EXCEPT !.pending = <<>>])>>
                        ELSE FillOrPlace(after, c))

\* on_price_alert_message: the stop, else the target, as the position has them.
Alert(s, c, price) ==
    InTurn(s, s.held, LAMBDA t, p :
        IF SlHit(p, price) THEN Closed(p, "SL") \o <<RecordSl(t.mind, p.side)>>
        ELSE IF TpHit(p, price) THEN Closed(p, "TP") ELSE <<>>)

Adopted(w) == [w EXCEPT !.run.since = 0, !.run.milestone = 0]
=============================================================================
