------------------------------ MODULE BangocV22 ------------------------------
(***************************************************************************)
(* bangoc-v2.2 in the runner: reversed by the M15 signal, when the dot of  *)
(* the hour has its colour.  The M15 candle is decided when the hour that  *)
(* contains it is there, whichever of the two comes last.                  *)
(***************************************************************************)
EXTENDS EngineSteps

CONSTANTS BTC, None

\* side: of the M15 indicators (Indi1's dot and Indi2's zone agree); dot: the hour's
\* Indi1 has the same colour.
Bars == [side : Sides \cup {None}, dot : BOOLEAN]

\* _last_processed_m15_open_ms
Mind == [processed |-> 0]

Allowed(bar) == bar.side # None /\ bar.dot

OpenNewPosition(c) ==
    Open(NewPosition(c, BTC, c.bar.side, 0, 0, [since |-> c.n, cuts |-> 0]))

\* _claim_position_candle: not the entry candle.
Claims(p, c) == c.n > p.run.since

\* The runner's gate is asked before the candle is marked.
Ready(s, c) == c.n > s.mind.processed /\ c.n <= c.hours /\ c.ready

\* (mutant: the candle is marked before the hour has come)
MarkedEarly(s, c) ==
    IF c.n > s.mind.processed THEN <<Think([processed |-> c.n])>> ELSE <<>>

Marked(s, c) == IF Ready(s, c) THEN <<Think([processed |-> c.n])>> ELSE <<>>

ProcessSymbol(s, c) ==
    LET pos == Of(s.held, BTC)
        decides == /\ Ready(s, c) /\ Allowed(c.bar)
                   /\ \A p \in pos : Claims(p, c) /\ p.side # c.bar.side
    IN Marked(s, c) \o (IF decides THEN CloseAll(pos) \o OpenNewPosition(c) ELSE <<>>)

Apply(s, c, read) == ProcessSymbol(s, c)

\* An adopted position has no runtime: its entry candle is 0.
Adopted(w) == [w EXCEPT !.run.since = 0]
=============================================================================
