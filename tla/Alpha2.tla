------------------------------- MODULE Alpha2 -------------------------------
(***************************************************************************)
(* alpha-2: a combined state per symbol, gated by the bias of the higher   *)
(* timeframe and by the volatility scale, in at most MaxConcurrent symbols.*)
(***************************************************************************)
EXTENDS EngineSteps

CONSTANTS
    Symbols, None,
    MaxConcurrent,   \* MAX_CONCURRENT_POSITIONS
    Reads            \* what a symbol may show: a subset of AnyRead

\* signal: the state of the newest bar; bias: latest_hbias; sized: latest_size > 0.
AnyRead == [signal : Sides \cup {None}, bias : Sides \cup {None}, sized : BOOLEAN]
Bars == [Symbols -> Reads]

\* Reads \subseteq AnyRead, MaxConcurrent \in Nat.

Mind == [idle |-> TRUE]

\* A bias keeps the other direction out.
Wants(read, side) == read.signal = side /\ read.bias \in {None, side} /\ read.sized

OpenNewPosition(c, symbol, side) ==
    IF c.ready THEN Open(NewPosition(c, symbol, side, 0, 0, None)) ELSE <<>>

ApplyDecision(s, c, symbol) ==
    LET pos == Of(s.held, symbol)
        sides == {d \in Sides : Wants(c.bar[symbol], d) /\ \A p \in pos : p.side # d}
        left == Cardinality(s.held \ pos)
    IN IF sides = {} THEN <<>>
       ELSE LET side == CHOOSE d \in sides : TRUE
            IN CloseAll(pos)
               \o (IF left < MaxConcurrent THEN OpenNewPosition(c, symbol, side) ELSE <<>>)

\* The symbols in turn; the cap counts what the ones before have opened.
ProcessAllSymbols(s, c) == InTurn(s, Symbols, LAMBDA t, symbol : ApplyDecision(t, c, symbol))
=============================================================================
