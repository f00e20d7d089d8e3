----------------------------- MODULE EngineSteps -----------------------------
(***************************************************************************)
(* What the decisions of the standalone engines (alphas/*/app/engine.py and*)
(* alphas/cross_alpha/engine.py) are made of.  A decision is a plan: the   *)
(* sequence of its elementary steps, in the order of the code.  Decisions  *)
(* do not await, so a plan runs at once, up to a push that raises.         *)
(***************************************************************************)
EXTENDS Integers, Sequences, SequencesExt, FiniteSets

\* push_signal (the position as it is at that moment travels with it), an edit of
\* _open_positions, and an edit of the engine's other variables.
Push(kind, p) == [do |-> "push", kind |-> kind, pos |-> p]
Put(p) == [do |-> "put", pos |-> p]
Pop(p) == [do |-> "pop", pos |-> p]
Think(mind) == [do |-> "think", mind |-> mind]

\* A step that raises (a key the position lacks); the plan ends before it.
Raise == [do |-> "raise"]
Raises(plan) == \E i \in DOMAIN plan : plan[i] = Raise
UpToRaise(plan) ==
    IF Raises(plan) THEN SubSeq(plan, 1, SelectInSeq(plan, LAMBDA step : step = Raise) - 1)
    ELSE plan

\* _open_positions is a dict: one position for each symbol.
Of(S, symbol) == {p \in S : p.symbol = symbol}
Without(S, p) == S \ Of(S, p.symbol)

\* s: [held, mind, out], out being what was pushed.
Done(s, step) ==
    CASE step.do = "push" -> [s EXCEPT !.out = Append(@, step)]
      [] step.do = "put" -> [s EXCEPT !.held = Without(@, step.pos) \cup {step.pos}]
      [] step.do = "pop" -> [s EXCEPT !.held = Without(@, step.pos)]
      [] step.do = "think" -> [s EXCEPT !.mind = step.mind]

After(s, plan) == FoldLeft(Done, s, plan)

\* Plans one after the other, each decided on what the ones before it left.
InTurn(s, items, Plan(_, _)) ==
    FoldLeft(LAMBDA plan, i : plan \o Plan(After(s, plan), i), <<>>, SetToSeq(items))

Close(p) == <<Push("CLOSE", p), Pop(p)>>
CloseAll(S) == FoldLeft(LAMBDA plan, p : plan \o Close(p), <<>>, SetToSeq(S))

\* The dict is edited before the OPEN is pushed.
Open(p) == <<Put(p), Push("OPEN", p)>>

Sides == {"LONG", "SHORT"}
Sign(side) == IF side = "LONG" THEN 1 ELSE -1
Larger(a, b) == IF a > b THEN a ELSE b
Lowest(S) == CHOOSE a \in S : \A b \in S : a <= b
Highest(S) == CHOOSE a \in S : \A b \in S : a >= b

\* A position opened at candle c.n of life c.life of the process; its levels and
\* "run", the engine's own fields (serialize_position_runtime).
NewPosition(c, symbol, side, sl, tp, run) ==
    [id |-> <<c.n, c.life, symbol, side>>, symbol |-> symbol, side |-> side,
     sl |-> sl, tp |-> tp, run |-> run]
=============================================================================
