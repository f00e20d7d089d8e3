---------------------------- MODULE NrLongShort ----------------------------
(***************************************************************************)
(* alpha2-NR-Long-Short-H1 and -M15 (the same engine): one symbol, always  *)
(* reversed by the opposite colour, no stop and no target.                 *)
(***************************************************************************)
EXTENDS EngineSteps

CONSTANTS BTC, None

\* combined_signal of the newest bar; None for a neutral one or too few bars.
Bars == Sides \cup {None}

Mind == [idle |-> TRUE]

OpenNewPosition(c, side) ==
    IF c.ready THEN Open(NewPosition(c, BTC, side, 0, 0, None)) ELSE <<>>

\* _apply_decision: the old position is closed even if none may replace it.
ApplyDecision(s, c) ==
    LET pos == Of(s.held, BTC)
    IN IF c.bar = None \/ \E p \in pos : p.side = c.bar THEN <<>>
       ELSE CloseAll(pos) \o OpenNewPosition(c, c.bar)

\* The engine reads its row under the lock and decides at once.
ScanSymbol(s, c) == ApplyDecision(s, c)
=============================================================================
