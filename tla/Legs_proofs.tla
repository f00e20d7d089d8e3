----------------------------- MODULE Legs_proofs -----------------------------
(***************************************************************************)
(* The strategies that hold several positions, over the facts about plans  *)
(* of StrategyBook_proofs.                                                 *)
(*                                                                         *)
(*   1. plans of many positions, run one after the other                   *)
(*   2. the worker never holds more than a number of positions on the way  *)
(*      through the stream                                                 *)
(*   3. XauM30: the legs of the strategy and those of the worker           *)
(*   4. XauM30: the scans and the price alerts                             *)
(*   5. XauM30: the worker ends up with the legs, and never has more than  *)
(*      max_positions                                                      *)
(*   6. the same short plan for every element of a set                     *)
(*   7. plans that break off                                               *)
(*   8. BasketBook: the plan of a rebalance                                *)
(*   9. BasketBook: what a rebalance leaves                                *)
(*  10. BasketBook: one scan                                               *)
(*  11. BasketBook: the worker ends up with the basket, and orphans do not *)
(*      outlive a rebalance                                                *)
(***************************************************************************)
EXTENDS StrategyBook_proofs, XauM30

-----------------------------------------------------------------------------
(***************************************************************************)
(* 1. Plans one after the other.                                           *)
(***************************************************************************)

\* The states after each of n plans.
Stages(f, s, plans, n) ==
    f = [k \in 0..n |-> IF k = 0 THEN s ELSE AfterFrom(f[k - 1], plans[k])]

LEMMA StagesExist ==
    ASSUME NEW s, NEW plans
    PROVE  \A n \in Nat : \E f : Stages(f, s, plans, n)
<1> DEFINE bad == {n \in Nat : ~ \E f : Stages(f, s, plans, n)}
<1>1. SUFFICES ASSUME bad # {} PROVE FALSE
    OBVIOUS
<1>2. PICK n \in bad : \A m \in bad : n <= m
    BY <1>1, LeastNat
<1>3. CASE n = 0
    <2> DEFINE f == [k \in 0..0 |-> s]
    <2>1. Stages(f, s, plans, 0)
        BY DEF Stages
    <2> QED
        BY <1>2, <1>3, <2>1
<1>4. CASE n # 0
    <2>1. n - 1 \in Nat /\ n - 1 \notin bad
        BY <1>2, <1>4
    <2>2. PICK g : Stages(g, s, plans, n - 1)
        BY <2>1
    <2> DEFINE f == [k \in 0..n |-> IF k = n THEN AfterFrom(g[n - 1], plans[n]) ELSE g[k]]
               h == [k \in 0..n |-> IF k = 0 THEN s ELSE AfterFrom(f[k - 1], plans[k])]
    <2>3. \A k \in 0..n - 1 : g[k] = IF k = 0 THEN s ELSE AfterFrom(g[k - 1], plans[k])
        BY <2>2 DEF Stages
    <2>4. ASSUME NEW k \in 0..n PROVE f[k] = h[k]
        BY <2>3, <1>4
    <2>5. Stages(f, s, plans, n)
        BY <2>4, Zenon DEF Stages
    <2> QED
        BY <1>2, <2>5
<1> QED
    BY <1>3, <1>4

\* f are the states after the plans of the elements of S, in the order q they are
\* laid out in.
InTurn(S, s, plans, n, q, f) ==
    /\ q = SetToSeq(S) /\ q \in [1..n -> S]
    /\ \A i, j \in 1..n : q[i] = q[j] => i = j
    /\ \A x \in S : \E i \in 1..n : q[i] = x
    /\ f[0] = s /\ \A i \in 1..n : f[i] = AfterFrom(f[i - 1], plans[i])
    /\ IsPlan(FlattenSeq(plans)) /\ AfterFrom(s, FlattenSeq(plans)) = f[n]

\* The plans of the elements of a finite set, in the order they are laid out.
LEMMA EachInTurn ==
    ASSUME NEW S, IsFiniteSet(S), NEW s, NEW plans,
           IsPlan(plans), Len(plans) = Len(SetToSeq(S)),
           \A i \in 1..Len(plans) : IsPlan(plans[i])
    PROVE  \E n \in Nat : \E q, f : InTurn(S, s, plans, n, q, f)
<1>1. PICK n \in Nat : n = Cardinality(S)
    BY SetLaidOut
<1>2. PICK q : q = SetToSeq(S)
    OBVIOUS
<1>3. /\ q \in [1..n -> S] /\ Len(q) = n
      /\ \A i, j \in 1..n : q[i] = q[j] => i = j
      /\ \A x \in S : \E i \in 1..n : q[i] = x
    BY <1>1, <1>2, SetLaidOut
<1>4. PICK f : Stages(f, s, plans, n)
    BY StagesExist
<1>5. \A k \in 0..n : f[k] = IF k = 0 THEN s ELSE AfterFrom(f[k - 1], plans[k])
    BY <1>4 DEF Stages
<1>6. f[0] = s /\ \A i \in 1..n : f[i] = AfterFrom(f[i - 1], plans[i])
    BY <1>5
<1>7. Len(plans) = n /\ \A i \in 1..n : IsPlan(plans[i])
    BY <1>2, <1>3
<1>8. IsPlan(FlattenSeq(plans)) /\ AfterFrom(s, FlattenSeq(plans)) = f[n]
    <2>1. ASSUME NEW a, NEW g, g[0] = a, \A i \in 1..n : g[i] = AfterFrom(g[i - 1], plans[i])
          PROVE  IsPlan(FlattenSeq(plans)) /\ AfterFrom(a, FlattenSeq(plans)) = g[n]
        BY <1>7, <2>1, FlattenRuns
    <2> QED
        BY <1>6, <2>1
<1>9. InTurn(S, s, plans, n, q, f)
    BY <1>2, <1>3, <1>6, <1>8 DEF InTurn
<1> QED
    BY <1>9
-----------------------------------------------------------------------------
(***************************************************************************)
(* 2. A bound on the worker's positions, after every signal of the stream. *)
(***************************************************************************)
Capped(W, q, m) ==
    \E f : /\ f[0] = W /\ \A k \in 1..Len(q) : f[k] = Taken(f[k - 1], q[k])
           /\ \A k \in 0..Len(q) : IsFiniteSet(f[k]) /\ Cardinality(f[k]) <= m

LEMMA CappedEnds ==
    ASSUME NEW W, NEW q, IsPlan(q), NEW m, Capped(W, q, m)
    PROVE  /\ IsFiniteSet(W) /\ Cardinality(W) <= m
           /\ IsFiniteSet(Settled(W, q)) /\ Cardinality(Settled(W, q)) <= m
<1>1. PICK n \in Nat : n = Len(q)
    BY DEF IsPlan
<1>2. PICK f : /\ f[0] = W /\ \A k \in 1..n : f[k] = Taken(f[k - 1], q[k])
               /\ \A k \in 0..n : IsFiniteSet(f[k]) /\ Cardinality(f[k]) <= m
    BY <1>1 DEF Capped
<1>3. Settled(W, q) = f[n]
    BY <1>1, <1>2, Settles
<1> QED
    BY <1>2, <1>3

\* An empty stream leaves the worker's positions as they are.
LEMMA CappedDrained ==
    ASSUME NEW W, IsFiniteSet(W), NEW m, Cardinality(W) <= m
    PROVE  Capped(W, <<>>, m)
<1>1. PICK f : f = [k \in 0..0 |-> W]
    OBVIOUS
<1>2. f[0] = W /\ Len(<<>>) = 0
    BY <1>1
<1> QED
    BY <1>2 DEF Capped

\* A signal more.
LEMMA CappedSent ==
    ASSUME NEW W, NEW q, IsPlan(q), NEW m, Capped(W, q, m), NEW e, NEW V,
           V = Taken(Settled(W, q), e), IsFiniteSet(V), Cardinality(V) <= m
    PROVE  Capped(W, Append(q, e), m)
<1>1. PICK n \in Nat : n = Len(q)
    BY DEF IsPlan
<1>2. PICK f : /\ f[0] = W /\ \A k \in 1..n : f[k] = Taken(f[k - 1], q[k])
               /\ \A k \in 0..n : IsFiniteSet(f[k]) /\ Cardinality(f[k]) <= m
    BY <1>1 DEF Capped
<1>3. Settled(W, q) = f[n]
    BY <1>1, <1>2, Settles
<1>4. PICK c : c = Append(q, e)
    OBVIOUS
<1>5. Len(c) = n + 1 /\ c[n + 1] = e /\ \A k \in 1..n : c[k] = q[k]
    BY <1>1, <1>4 DEF IsPlan
<1>6. PICK r \in Nat : r = n + 1
    OBVIOUS
<1>7. PICK h : h = [k \in 0..r |-> IF k <= n THEN f[k] ELSE V]
    OBVIOUS
<1>8. h[0] = W
    BY <1>2, <1>7
<1>9. ASSUME NEW k \in 1..r PROVE h[k] = Taken(h[k - 1], c[k])
    <2>1. CASE k <= n
        <3>1. h[k] = f[k] /\ h[k - 1] = f[k - 1] /\ c[k] = q[k] /\ k \in 1..n
            BY <1>5, <1>6, <1>7, <2>1
        <3> QED
            BY <1>2, <3>1
    <2>2. CASE k = n + 1
        <3>1. h[k] = V /\ h[k - 1] = f[n] /\ c[k] = e
            BY <1>5, <1>6, <1>7, <2>2
        <3> QED
            BY <1>3, <3>1
    <2> QED
        BY <1>6, <2>1, <2>2
<1>10. ASSUME NEW k \in 0..r PROVE IsFiniteSet(h[k]) /\ Cardinality(h[k]) <= m
    <2>1. CASE k <= n
        BY <1>2, <1>7, <2>1
    <2>2. CASE ~ k <= n
        BY <1>7, <2>2
    <2> QED
        BY <2>1, <2>2
<1>11. Len(c) = r
    BY <1>5, <1>6
<1>12. Capped(W, c, m)
    BY <1>8, <1>9, <1>10, <1>11, Zenon DEF Capped
<1> QED
    BY <1>4, <1>12

\* The worker takes the next signal.
LEMMA CappedTaken ==
    ASSUME NEW W, NEW q, IsPlan(q), q # <<>>, NEW m, Capped(W, q, m)
    PROVE  Capped(Taken(W, Head(q)), Tail(q), m)
<1>1. PICK n \in Nat : Len(q) = n + 1
    <2>1. Len(q) \in Nat /\ Len(q) # 0
        BY DEF IsPlan
    <2> QED
        BY <2>1, Len(q) - 1 \in Nat
<1>2. PICK r \in Nat : r = n + 1
    OBVIOUS
<1>3. PICK f : /\ f[0] = W /\ \A k \in 1..r : f[k] = Taken(f[k - 1], q[k])
               /\ \A k \in 0..r : IsFiniteSet(f[k]) /\ Cardinality(f[k]) <= m
    BY <1>1, <1>2 DEF Capped
<1>4. PICK c : c = Tail(q)
    OBVIOUS
<1>5. Len(c) = n /\ Head(q) = q[1] /\ \A k \in 1..n : c[k] = q[k + 1]
    BY <1>1, <1>4 DEF IsPlan
<1>6. PICK h : h = [k \in 0..n |-> f[k + 1]]
    OBVIOUS
<1>7. PICK V : V = Taken(W, Head(q))
    OBVIOUS
<1>8. h[0] = V
    <2>1. 1 \in 1..r /\ f[1] = Taken(f[0], q[1])
        BY <1>2, <1>3
    <2>2. f[1] = V
        BY <1>3, <1>5, <1>7, <2>1, Zenon
    <2> QED
        BY <1>6, <2>2
<1>9. ASSUME NEW k \in 1..n PROVE h[k] = Taken(h[k - 1], c[k])
    <2>1. h[k] = f[k + 1] /\ h[k - 1] = f[k] /\ c[k] = q[k + 1] /\ k + 1 \in 1..r
        BY <1>2, <1>5, <1>6
    <2>2. f[k + 1] = Taken(f[k], q[k + 1])
        BY <1>3, <2>1
    <2> QED
        BY <2>1, <2>2
<1>10. \A k \in 0..n : IsFiniteSet(h[k]) /\ Cardinality(h[k]) <= m
    BY <1>2, <1>3, <1>6
<1>11. Capped(V, c, m)
    BY <1>5, <1>8, <1>9, <1>10, Zenon DEF Capped
<1> QED
    BY <1>4, <1>7, <1>11
-----------------------------------------------------------------------------
(***************************************************************************)
(* 3. XauM30: the strategy and the worker hold the same legs.              *)
(***************************************************************************)

\* What the theorems ask of the constants, which every preset of strategy.py meets:
\* distances that are positive, and OPENs that are allowed beside another one exactly
\* when max_positions > 1.
Sane ==
    /\ Prices \in SUBSET Int /\ HalfAtr \in Int /\ HalfAtr > 0
    /\ Preset.max \in Nat /\ "15m" \in Tf
    /\ AllowDuplicate <=> Preset.max > 1

Distinct(S) == \A p, q \in S : p.id = q.id => p = q

\* A leg of the strategy at the n-th candle, which closed at price: it was opened at
\* this candle or before; at this one, then at its close.
Leg(p, n, price) ==
    /\ {"id", "symbol", "side", "entry"} \subseteq DOMAIN p
    /\ p.symbol = XAU /\ p.id[1] \in Nat /\ p.id[1] <= n /\ p.id[2] = p.side
    /\ p.id[1] = n => p.entry = price

\* A mind that the worker W will agree with, but for the legs that were taken for
\* repeats, and that keeps W below the cap until then.
Matched(W, s, n, price) ==
    /\ IsMind(s) /\ IsPlan(s.stream) /\ Recalls(s)
    /\ IsFiniteSet(s.held) /\ Distinct(s.held)
    /\ Distinct(Settled(W, s.stream)) /\ Ids(s.held) \ s.dropped = Ids(Settled(W, s.stream))
    /\ Capped(W, s.stream, Preset.max)
    /\ \A p \in s.held \cup Settled(W, s.stream) : Leg(p, n, price)

\* A set has no more elements, each of a name of its own, than one with their names.
LEMMA NotMore ==
    ASSUME NEW S, IsFiniteSet(S), NEW T, IsFiniteSet(T), Distinct(T), Ids(T) \subseteq Ids(S)
    PROVE  Cardinality(T) <= Cardinality(S)
<1>1. PICK f : f = [p \in T |-> CHOOSE q \in S : q.id = p.id]
    OBVIOUS
<1>2. ASSUME NEW p \in T PROVE f[p] \in S /\ f[p].id = p.id
    <2>1. \E q \in S : q.id = p.id
        BY DEF Ids
    <2> QED
        BY <1>1, <2>1
<1>3. f \in Injection(T, S)
    BY <1>1, <1>2 DEF Distinct, Injection, IsInjective
<1> QED
    BY <1>3, FS_Injection

\* Taking a position away from two sets with the same names, but for those in D.
LEMMA NamesLess ==
    ASSUME NEW A, NEW B, NEW D, Ids(A) \ D = Ids(B), Distinct(A), Distinct(B), NEW p
    PROVE  /\ Ids(Others(A, p)) \ D = Ids(Others(B, p))
           /\ Distinct(Others(A, p)) /\ Distinct(Others(B, p))
<1>1. Ids(Others(A, p)) = Ids(A) \ {p.id} /\ Ids(Others(B, p)) = Ids(B) \ {p.id}
    BY DEF Ids, Others
<1>2. Distinct(Others(A, p)) /\ Distinct(Others(B, p))
    BY DEF Distinct, Others
<1> QED
    BY <1>1, <1>2

\* A mark, a direction: neither legs nor signals.
LEMMA MatchedQuiet ==
    ASSUME NEW W, NEW n, NEW price, NEW s, Matched(W, s, n, price),
           NEW t, IsMind(t), SameMemory(s, t), t.held = s.held, t.stream = s.stream
    PROVE  Matched(W, t, n, price)
BY DEF Matched, SameMemory, Recalls

\* A leg that only changes its stop.
LEMMA MatchedKeep ==
    ASSUME NEW W, NEW n, NEW price, NEW s, Matched(W, s, n, price),
           NEW q, q.id \in Ids(s.held), Leg(q, n, price)
    PROVE  LET t == AfterFrom(s, <<Keep(q)>>)
           IN Matched(W, t, n, price) /\ Ids(t.held) = Ids(s.held)
<1>1. PICK t : t = AfterFrom(s, <<Keep(q)>>)
    OBVIOUS
<1>2. /\ IsMind(t) /\ SameMemory(s, t)
      /\ t.held = Others(s.held, q) \cup {q} /\ t.stream = s.stream
    BY <1>1, AfterOne, AfterKeep DEF Matched
<1>3. Ids(t.held) = Ids(s.held) /\ Distinct(t.held)
    BY <1>2 DEF Matched, Ids, Others, Distinct
<1>4. IsFiniteSet(t.held)
    <2>1. IsFiniteSet(s.held) /\ Others(s.held, q) \in SUBSET s.held
        BY DEF Matched, Others
    <2>2. IsFiniteSet(Others(s.held, q))
        BY <2>1, FS_Subset
    <2> QED
        BY <1>2, <2>2, FS_AddElement
<1>5. \A p \in t.held : Leg(p, n, price)
    BY <1>2 DEF Matched, Others
<1>6. Matched(W, t, n, price)
    BY <1>2, <1>3, <1>4, <1>5 DEF Matched, SameMemory, Recalls
<1> QED
    BY <1>1, <1>3, <1>6

\* A MODIFY changes no leg of the worker that the match knows of.
LEMMA MatchedModify ==
    ASSUME NEW W, NEW n, NEW price, NEW s, Matched(W, s, n, price), NEW p
    PROVE  LET t == AfterFrom(s, <<Send("MODIFY", p)>>)
           IN Matched(W, t, n, price) /\ t.held = s.held
<1>1. PICK t : t = AfterFrom(s, <<Send("MODIFY", p)>>)
    OBVIOUS
<1>2. PICK e : e = Send("MODIFY", p)
    OBVIOUS
<1>3. IsMind(t) /\ SameMemory(s, t) /\ t.held = s.held /\ t.stream = Append(s.stream, e)
    BY <1>1, <1>2, AfterOne, AfterSend DEF Matched
<1>4. IsPlan(s.stream) /\ Capped(W, s.stream, Preset.max)
    BY DEF Matched
<1>5. PICK V : V = Settled(W, s.stream)
    OBVIOUS
<1>6. Taken(V, e) = V
    BY <1>2 DEF Taken, Send
<1>7. IsPlan(t.stream) /\ Settled(W, t.stream) = V
    BY <1>3, <1>4, <1>5, <1>6, SettledSent
<1>8. Capped(W, t.stream, Preset.max)
    <2>1. IsFiniteSet(V) /\ Cardinality(V) <= Preset.max
        BY <1>4, <1>5, CappedEnds
    <2>2. V = Taken(Settled(W, s.stream), e)
        BY <1>5, <1>6
    <2>3. Capped(W, Append(s.stream, e), Preset.max)
        BY <1>4, <2>1, <2>2, CappedSent
    <2> QED
        BY <1>3, <2>3
<1>9. Matched(W, t, n, price)
    BY <1>3, <1>5, <1>7, <1>8 DEF Matched, SameMemory, Recalls
<1> QED
    BY <1>1, <1>3, <1>9

\* A leg closed and forgotten.
LEMMA MatchedClose ==
    ASSUME NEW W, NEW n, NEW price, NEW s, Matched(W, s, n, price), NEW p, Preset.max \in Nat
    PROVE  LET t == AfterFrom(s, <<Send("CLOSE", p), Drop(p)>>)
           IN Matched(W, t, n, price) /\ t.held = Others(s.held, p)
<1>0. IsMind(s) /\ IsPlan(s.stream) /\ Recalls(s) /\ Capped(W, s.stream, Preset.max)
    BY DEF Matched
<1>1. PICK e : e = Send("CLOSE", p)
    OBVIOUS
<1>2. PICK u : u = Performed(s, e)
    OBVIOUS
<1>3. PICK t : t = Performed(u, Drop(p))
    OBVIOUS
<1>4. IsMind(u) /\ SameMemory(s, u) /\ u.stream = Append(s.stream, e) /\ u.held = s.held
    BY <1>0, <1>1, <1>2, AfterSend
<1>5. IsMind(t) /\ SameMemory(u, t) /\ t.held = Others(s.held, p) /\ t.stream = Append(s.stream, e)
    BY <1>3, <1>4, AfterDrop
<1>6. PICK S : S = Settled(W, s.stream)
    OBVIOUS
<1>7. PICK V : V = Others(S, p)
    OBVIOUS
<1>8. Taken(S, e) = V
    BY <1>1, <1>7 DEF Taken, Send
<1>9. IsPlan(t.stream) /\ Settled(W, t.stream) = V
    BY <1>0, <1>5, <1>6, <1>8, SettledSent
<1>10. Capped(W, t.stream, Preset.max)
    <2>1. IsFiniteSet(S) /\ Cardinality(S) <= Preset.max
        BY <1>0, <1>6, CappedEnds
    <2>2. V \in SUBSET S
        BY <1>7 DEF Others
    <2>3. IsFiniteSet(V) /\ Cardinality(V) <= Cardinality(S)
        BY <2>1, <2>2, FS_Subset
    <2>4. Cardinality(V) <= Preset.max
        BY <2>1, <2>3, FS_CardinalityType
    <2>5. V = Taken(Settled(W, s.stream), e)
        BY <1>6, <1>8
    <2>6. Capped(W, Append(s.stream, e), Preset.max)
        BY <1>0, <2>3, <2>4, <2>5, CappedSent
    <2> QED
        BY <1>5, <2>6
<1>11. IsFiniteSet(t.held)
    <2>1. IsFiniteSet(s.held) /\ t.held \in SUBSET s.held
        BY <1>5 DEF Matched, Others
    <2> QED
        BY <2>1, FS_Subset
<1>12. Ids(t.held) \ s.dropped = Ids(V) /\ Distinct(t.held) /\ Distinct(V)
    <2>1. Ids(s.held) \ s.dropped = Ids(S) /\ Distinct(s.held) /\ Distinct(S)
        BY <1>6 DEF Matched
    <2>2. /\ Ids(Others(s.held, p)) \ s.dropped = Ids(Others(S, p))
          /\ Distinct(Others(s.held, p)) /\ Distinct(Others(S, p))
        BY <2>1, NamesLess
    <2> QED
        BY <1>5, <1>7, <2>2
<1>13. \A q \in t.held \cup V : Leg(q, n, price)
    BY <1>5, <1>6, <1>7 DEF Matched, Others
<1>n. t.dropped = s.dropped /\ t.remembered = s.remembered
    BY <1>4, <1>5 DEF SameMemory
<1>14. Matched(W, t, n, price)
    BY <1>0, <1>n, <1>5, <1>9, <1>10, <1>11, <1>12, <1>13 DEF Matched, Recalls
<1>15. AfterFrom(s, <<Send("CLOSE", p), Drop(p)>>) = t
    BY <1>1, <1>2, <1>3, AfterTwo
<1> QED
    BY <1>5, <1>14, <1>15

\* A leg of a new name, while there is room for it: the signal goes, or it is taken
\* for a repeat and the strategy holds a leg that the worker will not.
LEMMA MatchedOpen ==
    ASSUME NEW W, NEW n, NEW price, NEW s, Matched(W, s, n, price),
           NEW p, Leg(p, n, price), p.id \notin Ids(s.held),
           Preset.max \in Nat, Cardinality(s.held) < Preset.max, AllowDuplicate \/ s.held = {}
    PROVE  Matched(W, AfterFrom(s, <<Send("OPEN", p), Keep(p)>>), n, price)
<1>0. IsMind(s) /\ IsPlan(s.stream) /\ Recalls(s) /\ Capped(W, s.stream, Preset.max)
    BY DEF Matched
<1>1. PICK e : e = Send("OPEN", p)
    OBVIOUS
<1>2. PICK u : u = Performed(s, e)
    OBVIOUS
<1>3. PICK t : t = Performed(u, Keep(p))
    OBVIOUS
<1>4. IsMind(u) /\ u.held = s.held /\ (Goes(s, p, u) \/ Repeats(s, p, u))
    BY <1>0, <1>1, <1>2, AfterSend
<1>5. /\ IsMind(t) /\ t.held = Others(s.held, p) \cup {p} /\ t.stream = u.stream
      /\ t.remembered = u.remembered /\ t.dropped = u.dropped
    BY <1>3, <1>4, AfterKeep DEF SameMemory
<1>6. t.held = s.held \cup {p}
    BY <1>5 DEF Others, Ids
<1>7. PICK S : S = Settled(W, s.stream)
    OBVIOUS
<1>8. PICK V : V = S \cup {p}
    OBVIOUS
<1>9. Ids(s.held) \ s.dropped = Ids(S) /\ Distinct(S) /\ Distinct(s.held) /\ IsFiniteSet(s.held)
    BY <1>7 DEF Matched
<1>10. IsFiniteSet(t.held)
    BY <1>6, <1>9, FS_AddElement
<1>11. Distinct(t.held)
    BY <1>6, <1>9 DEF Distinct, Ids
<1>12. \A q \in t.held \cup V : Leg(q, n, price)
    BY <1>6, <1>7, <1>8 DEF Matched
<1>13. ASSUME Goes(s, p, u) PROVE Matched(W, t, n, price)
    <2>0. /\ t.stream = Append(s.stream, e) /\ t.dropped = s.dropped
          /\ p.id \notin s.dropped /\ Recalls(t)
        BY <1>0, <1>1, <1>5, <1>13 DEF Goes, Recalls
    <2>1. Taken(S, e) = V
        <3>1. AllowDuplicate \/ S = {}
            BY <1>9 DEF Ids
        <3> QED
            BY <1>1, <1>8, <3>1 DEF Taken, Send
    <2>2. IsPlan(t.stream) /\ Settled(W, t.stream) = V
        BY <1>0, <1>7, <2>0, <2>1, SettledSent
    <2>3. Capped(W, t.stream, Preset.max)
        <3>1. IsFiniteSet(S)
            BY <1>0, <1>7, CappedEnds
        <3>2. Cardinality(S) <= Cardinality(s.held)
            BY <1>9, <3>1, NotMore
        <3>3. IsFiniteSet(V) /\ Cardinality(V) <= Cardinality(S) + 1
            <4>1. Cardinality(S) \in Nat
                BY <3>1, FS_CardinalityType
            <4>2. /\ IsFiniteSet(S \cup {p})
                  /\ Cardinality(S \cup {p}) = IF p \in S THEN Cardinality(S)
                                                         ELSE Cardinality(S) + 1
                BY <3>1, FS_AddElement
            <4> QED
                BY <1>8, <4>1, <4>2
        <3>4. Cardinality(V) <= Preset.max
            <4>1. Cardinality(S) \in Nat /\ Cardinality(s.held) \in Nat /\ Cardinality(V) \in Nat
                BY <1>9, <3>1, <3>3, FS_CardinalityType
            <4> QED
                BY <3>2, <3>3, <4>1
        <3>5. V = Taken(Settled(W, s.stream), e)
            BY <1>7, <2>1
        <3>6. Capped(W, Append(s.stream, e), Preset.max)
            BY <1>0, <3>3, <3>4, <3>5, CappedSent
        <3> QED
            BY <2>0, <3>6
    <2>4. Ids(t.held) \ t.dropped = Ids(V) /\ Distinct(V)
        <3>1. Ids(t.held) = Ids(s.held) \cup {p.id} /\ Ids(V) = Ids(S) \cup {p.id}
            BY <1>6, <1>8 DEF Ids
        <3>2. p.id \notin Ids(S)
            BY <1>9
        <3>3. Distinct(V)
            BY <1>8, <1>9, <3>2 DEF Distinct, Ids
        <3> QED
            BY <1>9, <2>0, <3>1, <3>3
    <2> QED
        BY <1>5, <1>10, <1>11, <1>12, <2>0, <2>2, <2>3, <2>4 DEF Matched
<1>14. ASSUME Repeats(s, p, u) PROVE Matched(W, t, n, price)
    <2>1. t.stream = s.stream /\ t.dropped = s.dropped \cup {p.id} /\ Recalls(t)
        BY <1>0, <1>5, <1>14 DEF Repeats, Recalls
    <2>2. Ids(t.held) \ t.dropped = Ids(S)
        <3>1. Ids(t.held) = Ids(s.held) \cup {p.id}
            BY <1>6 DEF Ids
        <3> QED
            BY <1>9, <2>1, <3>1
    <2>3. \A q \in t.held \cup S : Leg(q, n, price)
        BY <1>8, <1>12
    <2> QED
        BY <1>0, <1>5, <1>7, <1>9, <1>10, <1>11, <2>1, <2>2, <2>3 DEF Matched
<1>15. Matched(W, t, n, price)
    BY <1>4, <1>13, <1>14
<1>16. AfterFrom(s, <<Send("OPEN", p), Keep(p)>>) = t
    BY <1>1, <1>2, <1>3, AfterTwo
<1> QED
    BY <1>15, <1>16
-----------------------------------------------------------------------------
\* The plan leads from the mind s to the mind t, and the worker will agree with t.
Legged(s, plan, t) ==
    IsPlan(plan) /\ AfterFrom(s, plan) = t /\ Matched(worker, t, now["15m"], Bar.close)

LEMMA LeggedOn ==
    ASSUME NEW s, NEW p, NEW t, Legged(s, p, t), NEW q, NEW u, Legged(t, q, u)
    PROVE  Legged(s, p \o q, u)
BY AfterBoth, PlanParts DEF Legged

\* The plan of one leg: leave it, close it, or move its stop.
LegPlan(plan, p) ==
    \/ plan = <<>>
    \/ plan = <<Send("CLOSE", p), Drop(p)>>
    \/ \E q : /\ q.id = p.id /\ Leg(q, now["15m"], Bar.close)
              /\ plan = <<Send("MODIFY", p), Keep(q)>>

LEMMA LegMoves ==
    ASSUME Sane, NEW s, Matched(worker, s, now["15m"], Bar.close),
           NEW p, p.id \in Ids(s.held), NEW plan, LegPlan(plan, p)
    PROVE  \E t : Legged(s, plan, t) /\ Ids(s.held) \ {p.id} \subseteq Ids(t.held)
<1> DEFINE n == now["15m"]
           price == Bar.close
<1> HIDE DEF n, price
<1>0. Matched(worker, s, n, price) /\ Preset.max \in Nat
    BY DEF n, price, Sane
<1>1. CASE plan = <<>>
    <2>1. IsPlan(plan) /\ AfterFrom(s, plan) = s
        BY <1>1, AfterNothing DEF IsPlan
    <2> QED
        BY <2>1 DEF Legged
<1>2. CASE plan = <<Send("CLOSE", p), Drop(p)>>
    <2>1. PICK t : t = AfterFrom(s, plan)
        OBVIOUS
    <2>2. Matched(worker, t, n, price) /\ t.held = Others(s.held, p)
        BY <1>0, <1>2, <2>1, MatchedClose
    <2>3. IsPlan(plan)
        BY <1>2, AfterTwo
    <2>4. Ids(s.held) \ {p.id} \subseteq Ids(t.held)
        BY <2>2 DEF Ids, Others
    <2> QED
        BY <2>1, <2>2, <2>3, <2>4 DEF Legged, n, price
<1>3. ASSUME NEW q, q.id = p.id, Leg(q, n, price), plan = <<Send("MODIFY", p), Keep(q)>>
      PROVE  \E t : Legged(s, plan, t) /\ Ids(s.held) \ {p.id} \subseteq Ids(t.held)
    <2>1. PICK u : u = AfterFrom(s, <<Send("MODIFY", p)>>)
        OBVIOUS
    <2>2. Matched(worker, u, n, price) /\ u.held = s.held
        BY <1>0, <2>1, MatchedModify
    <2>3. PICK t : t = AfterFrom(u, <<Keep(q)>>)
        OBVIOUS
    <2>4. Matched(worker, t, n, price) /\ Ids(t.held) = Ids(s.held)
        BY <1>3, <2>2, <2>3, MatchedKeep
    <2>5. IsPlan(<<Send("MODIFY", p)>>) /\ IsPlan(<<Keep(q)>>)
        BY AfterOne
    <2>6. Legged(s, <<Send("MODIFY", p)>> \o <<Keep(q)>>, t)
        <3>1. Legged(s, <<Send("MODIFY", p)>>, u) /\ Legged(u, <<Keep(q)>>, t)
            BY <2>1, <2>2, <2>3, <2>4, <2>5 DEF Legged, n, price
        <3> QED
            BY <3>1, LeggedOn
    <2>7. <<Send("MODIFY", p), Keep(q)>> = <<Send("MODIFY", p)>> \o <<Keep(q)>>
        BY TwoInTurn
    <2> QED
        BY <1>3, <2>4, <2>6, <2>7
<1> QED
    BY <1>1, <1>2, <1>3 DEF LegPlan, n, price

\* The plans of some of the legs, one after the other.
LEMMA EachLegged ==
    ASSUME Sane, NEW s, Matched(worker, s, now["15m"], Bar.close),
           NEW C \in SUBSET s.held, NEW plans,
           IsPlan(plans), Len(plans) = Len(SetToSeq(C)),
           \A i \in 1..Len(SetToSeq(C)) : LegPlan(plans[i], SetToSeq(C)[i])
    PROVE  \E t : Legged(s, FlattenSeq(plans), t)
<1>1. IsFiniteSet(C) /\ Distinct(C)
    BY FS_Subset DEF Matched, Distinct
<1>2. \A i \in 1..Len(plans) : IsPlan(plans[i])
    <2>1. IsPlan(<<>>)
        BY DEF IsPlan
    <2> QED
        BY <2>1, AfterTwo DEF LegPlan
<1>3. \E n \in Nat : \E q, f : InTurn(C, s, plans, n, q, f)
    BY <1>1, <1>2, EachInTurn
<1>n. PICK n \in Nat : \E q, f : InTurn(C, s, plans, n, q, f)
    BY <1>3
<1>4. PICK q, f : InTurn(C, s, plans, n, q, f)
    BY <1>n
<1>5. /\ f[0] = s /\ \A i \in 1..n : f[i] = AfterFrom(f[i - 1], plans[i])
      /\ IsPlan(FlattenSeq(plans)) /\ AfterFrom(s, FlattenSeq(plans)) = f[n]
      /\ q \in [1..n -> C] /\ \A i, j \in 1..n : q[i] = q[j] => i = j
    BY <1>4 DEF InTurn
<1>6. \A i \in 1..n : LegPlan(plans[i], q[i])
    <2>1. Len(SetToSeq(C)) = n /\ q = SetToSeq(C)
        <3>1. q = SetToSeq(C) /\ DOMAIN q = 1..n
            BY <1>4 DEF InTurn
        <3>2. Len(q) = n
            BY <1>5, FunctionIsPlan
        <3> QED
            BY <3>1, <3>2
    <2> QED
        BY <2>1
<1> DEFINE Good(i) == /\ Matched(worker, f[i], now["15m"], Bar.close)
                      /\ \A j \in i + 1 .. n : q[j].id \in Ids(f[i].held)
           S == {i \in 0..n : Good(i)}
<1>7. Good(0)
    <2>1. \A j \in 1..n : q[j].id \in Ids(s.held)
        BY <1>5 DEF Ids
    <2> QED
        BY <1>5, <2>1
<1>8. ASSUME NEW i \in 1..n, Good(i - 1) PROVE Good(i)
    <2>1. PICK g : g = f[i - 1]
        OBVIOUS
    <2>2. Matched(worker, g, now["15m"], Bar.close) /\ q[i].id \in Ids(g.held)
        BY <1>8, <2>1
    <2>3. PICK t : /\ Legged(g, plans[i], t)
                   /\ Ids(g.held) \ {q[i].id} \subseteq Ids(t.held)
        BY <1>6, <2>2, LegMoves
    <2>4. t = f[i] /\ Matched(worker, t, now["15m"], Bar.close)
        BY <1>5, <2>1, <2>3 DEF Legged
    <2>5. ASSUME NEW j \in i + 1 .. n PROVE q[j].id \in Ids(t.held)
        <3>1. j \in (i - 1) + 1 .. n /\ j \in 1..n /\ j # i
            OBVIOUS
        <3>2. q[j].id \in Ids(g.held)
            BY <1>8, <2>1, <3>1
        <3>3. q[j].id # q[i].id
            BY <1>1, <1>5, <3>1 DEF Distinct
        <3> QED
            BY <2>3, <3>2, <3>3
    <2> QED
        BY <2>4, <2>5
<1> HIDE DEF Good
<1>9. 0 \in S /\ \A i \in 1..n : i - 1 \in S => i \in S
    BY <1>7, <1>8
<1> HIDE DEF S
<1>10. n \in S
    <2>1. \A i \in 0..n : i \in S
        BY <1>9, UpTo
    <2> QED
        BY <2>1
<1>11. Matched(worker, f[n], now["15m"], Bar.close)
    BY <1>10 DEF S, Good
<1> QED
    BY <1>5, <1>11 DEF Legged
-----------------------------------------------------------------------------
(***************************************************************************)
(* 4. XauM30: the scans, and what they keep.                               *)
(***************************************************************************)

\* A leg is left, closed, or its stop is moved.
LEMMA ManagedLeg ==
    ASSUME NEW p, Leg(p, now["15m"], Bar.close)
    PROVE  LegPlan(ManageOnBar(p), p)
<1>1. PICK q : q = [p EXCEPT !.sl = p.entry, !.breakeven = TRUE]
    OBVIOUS
<1>2. \/ ManageOnBar(p) = <<Send("CLOSE", p), Drop(p)>>
      \/ ManageOnBar(p) = <<Send("MODIFY", p), Keep(q)>>
      \/ ManageOnBar(p) = <<>>
    BY <1>1 DEF ManageOnBar, Close
<1>3. q.id = p.id /\ Leg(q, now["15m"], Bar.close)
    BY <1>1 DEF Leg
<1> QED
    BY <1>2, <1>3 DEF LegPlan

\* Managing every leg, and closing some of them.
LEMMA ManagedLegs ==
    ASSUME Sane, NEW s, Matched(worker, s, now["15m"], Bar.close), s.held = held
    PROVE  \E t : Legged(s, ForEach(held, ManageOnBar), t)
<1>1. PICK plans : plans = [i \in 1..Len(SetToSeq(held)) |-> ManageOnBar(SetToSeq(held)[i])]
    OBVIOUS
<1>2. IsFiniteSet(held)
    BY DEF Matched
<1>3. PICK n \in Nat : /\ Len(SetToSeq(held)) = n
                       /\ SetToSeq(held) \in [1..n -> held]
    BY <1>2, SetLaidOut
<1>4. plans \in [1..n -> {ManageOnBar(p) : p \in held}]
    BY <1>1, <1>3
<1>5. IsPlan(plans) /\ Len(plans) = n
    BY <1>4, FunctionIsPlan
<1>6. ASSUME NEW i \in 1..n PROVE LegPlan(plans[i], SetToSeq(held)[i])
    <2>1. SetToSeq(held)[i] \in held
        BY <1>3
    <2>2. Leg(SetToSeq(held)[i], now["15m"], Bar.close)
        BY <2>1 DEF Matched
    <2>3. plans[i] = ManageOnBar(SetToSeq(held)[i])
        BY <1>1, <1>3
    <2> QED
        BY <2>2, <2>3, ManagedLeg
<1>7. PICK t : Legged(s, FlattenSeq(plans), t)
    BY <1>3, <1>5, <1>6, EachLegged
<1>8. ForEach(held, ManageOnBar) = FlattenSeq(plans)
    BY <1>1 DEF ForEach
<1> QED
    BY <1>7, <1>8

LEMMA ClosedLegs ==
    ASSUME Sane, NEW s, Matched(worker, s, now["15m"], Bar.close), NEW C \in SUBSET s.held
    PROVE  \E t : Legged(s, ForEach(C, Close), t)
<1>1. PICK plans : plans = [i \in 1..Len(SetToSeq(C)) |-> Close(SetToSeq(C)[i])]
    OBVIOUS
<1>2. IsFiniteSet(C)
    BY FS_Subset DEF Matched
<1>3. PICK n \in Nat : /\ Len(SetToSeq(C)) = n
                       /\ SetToSeq(C) \in [1..n -> C]
    BY <1>2, SetLaidOut
<1>4. plans \in [1..n -> {Close(p) : p \in C}]
    BY <1>1, <1>3
<1>5. IsPlan(plans) /\ Len(plans) = n
    BY <1>4, FunctionIsPlan
<1>6. ASSUME NEW i \in 1..n PROVE LegPlan(plans[i], SetToSeq(C)[i])
    <2>1. plans[i] = Close(SetToSeq(C)[i])
        BY <1>1, <1>3
    <2> QED
        BY <2>1 DEF LegPlan, Close
<1>7. PICK t : Legged(s, FlattenSeq(plans), t)
    BY <1>3, <1>5, <1>6, EachLegged
<1>8. ForEach(C, Close) = FlattenSeq(plans)
    BY <1>1 DEF ForEach
<1> QED
    BY <1>7, <1>8

\* An entry: there is room, and no leg of this candle is on its side, for that leg
\* would be too near.
LEMMA EnteredLeg ==
    ASSUME Sane, Bar.close \in Int, now["15m"] \in Nat,
           NEW s, Matched(worker, s, now["15m"], Bar.close), NEW side
    PROVE  \E t : Legged(s, OpenIfAllowed(s.held, side, now["15m"]), t)
<1> DEFINE n == now["15m"]
           price == Bar.close
           plan == OpenIfAllowed(s.held, side, n)
           same == {q \in s.held : q.side = side}
<1>0. n \in Nat /\ price \in Int /\ Matched(worker, s, n, price)
    OBVIOUS
<1>1. PICK p : p = [id |-> <<n, side, Cardinality(same)>>, symbol |-> XAU, side |-> side,
                    entry |-> price, sl |-> StopPrice(side), initial_sl |-> StopPrice(side),
                    breakeven |-> FALSE, tp |-> price + Sign(side) * Preset.rr * Stop]
    OBVIOUS
<1>2. \/ plan = <<>>
      \/ /\ plan = <<Send("OPEN", p), Keep(p)>>
         /\ ~ Cardinality(s.held) >= Preset.max
         /\ \A q \in same : ~ TooNear(q)
    BY <1>1 DEF OpenIfAllowed
<1>3. CASE plan = <<>>
    <2>1. IsPlan(plan) /\ AfterFrom(s, plan) = s
        BY <1>3, AfterNothing DEF IsPlan
    <2> QED
        BY <1>0, <2>1 DEF Legged
<1>4. CASE /\ plan = <<Send("OPEN", p), Keep(p)>>
           /\ ~ Cardinality(s.held) >= Preset.max
           /\ \A q \in same : ~ TooNear(q)
    <2>1. Leg(p, n, price)
        BY <1>0, <1>1 DEF Leg
    <2>2. p.id \notin Ids(s.held)
        <3>1. ASSUME NEW q \in s.held, q.id = p.id PROVE FALSE
            <4>1. q.id[1] = n /\ q.id[2] = side
                BY <1>1, <3>1
            <4>2. q.side = side /\ q.entry = price
                BY <1>0, <4>1 DEF Matched, Leg
            <4>3. TooNear(q)
                <5>1. price - q.entry = 0
                    BY <1>0, <4>2
                <5> QED
                    BY <5>1 DEF TooNear, Sane
            <4> QED
                BY <1>4, <4>2, <4>3
        <3> QED
            BY <3>1 DEF Ids
    <2>3. /\ Preset.max \in Nat /\ Cardinality(s.held) < Preset.max
          /\ AllowDuplicate \/ s.held = {}
        <3>1. IsFiniteSet(s.held) /\ Cardinality(s.held) \in Nat
            BY <1>0, FS_CardinalityType DEF Matched
        <3>2. Cardinality(s.held) < Preset.max
            BY <1>4, <3>1 DEF Sane
        <3>3. Preset.max > 1 \/ Cardinality(s.held) = 0
            BY <3>1, <3>2 DEF Sane
        <3>4. Cardinality(s.held) = 0 => s.held = {}
            BY <3>1, FS_EmptySet
        <3> QED
            BY <3>2, <3>3, <3>4 DEF Sane
    <2> HIDE DEF n, price, plan, same
    <2>4. Matched(worker, AfterFrom(s, <<Send("OPEN", p), Keep(p)>>), n, price)
        BY <1>0, <2>1, <2>2, <2>3, MatchedOpen
    <2>5. Legged(s, plan, AfterFrom(s, plan))
        BY <1>4, <2>4, AfterTwo DEF Legged, n, price
    <2> QED
        BY <2>5 DEF plan, n
<1> QED
    BY <1>2, <1>3, <1>4

\* The marks of a scan.
LEMMA MarkedLegs ==
    ASSUME NEW s, Matched(worker, s, now["15m"], Bar.close), NEW f
    PROVE  \E t : Legged(s, <<Seen(f), Done(f)>>, t) /\ t.held = s.held
<1>1. PICK u : u = Performed(s, Seen(f))
    OBVIOUS
<1>2. PICK t : t = Performed(u, Done(f))
    OBVIOUS
<1>3. IsMind(u) /\ SameMemory(s, u) /\ u.held = s.held /\ u.stream = s.stream
    BY <1>1, AfterSeen DEF Matched
<1>4. IsMind(t) /\ SameMemory(s, t) /\ t.held = s.held /\ t.stream = s.stream
    BY <1>2, <1>3, AfterDone DEF SameMemory
<1>5. IsPlan(<<Seen(f), Done(f)>>) /\ AfterFrom(s, <<Seen(f), Done(f)>>) = t
    BY <1>1, <1>2, AfterTwo
<1> QED
    BY <1>4, <1>5, MatchedQuiet DEF Legged

\* The cache of the legs names those that are held, but for legs taken for repeats.
Cached(s, n, price) ==
    /\ IsFiniteSet(s.saved) /\ Distinct(s.saved)
    /\ Ids(s.saved) \ s.dropped = Ids(s.held) \ s.dropped
    /\ \A p \in s.saved : Leg(p, n, price)

\* A scan ends with the legs saved.
LegsEnded(plan) ==
    \E t : Legged(Mind, plan, t) /\ Cached(t, now["15m"], Bar.close)

LEMMA SavedLegs ==
    ASSUME NEW p, NEW s, Legged(Mind, p, s)
    PROVE  LegsEnded(p \o <<Save>>)
<1>1. PICK t : t = Performed(s, Save)
    OBVIOUS
<1>2. /\ IsMind(t) /\ SameMemory(s, t)
      /\ t.saved = s.held /\ t.held = s.held /\ t.stream = s.stream
    BY <1>1, AfterSave DEF Legged, Matched
<1>3. IsPlan(<<Save>>) /\ AfterFrom(s, <<Save>>) = t
    BY <1>1, AfterOne
<1>4. Legged(s, <<Save>>, t)
    BY <1>2, <1>3, MatchedQuiet DEF Legged
<1>5. Legged(Mind, p \o <<Save>>, t)
    BY <1>4, LeggedOn
<1>6. Cached(t, now["15m"], Bar.close)
    BY <1>2 DEF Cached, Legged, Matched
<1> QED
    BY <1>5, <1>6 DEF LegsEnded

LegsInv ==
    /\ faults \in Nat /\ now \in [Tf -> Nat] /\ candle \in [Tf -> Bars]
    /\ faults = 0 => /\ Matched(worker, Mind, now["15m"], Bar.close)
                     /\ Cached(Mind, now["15m"], Bar.close)

\* What a scan and a price alert have to show.
LEMMA ScannedLegs ==
    ASSUME Sane, LegsInv, Scan \/ PriceAlert
    PROVE  \E plan : Perform(plan) /\ (faults = 0 => LegsEnded(plan))
<1>1. Mind.held = held /\ now["15m"] \in Nat /\ Bar.close \in Int
    <2>1. "15m" \in Tf /\ Prices \in SUBSET Int
        BY DEF Sane
    <2>2. candle["15m"] \in Bars /\ now["15m"] \in Nat
        BY <2>1 DEF LegsInv
    <2> QED
        BY <2>1, <2>2 DEF Mind, Bar, Bars
<1>2. ASSUME faults = 0 PROVE Matched(worker, Mind, now["15m"], Bar.close)
    BY <1>2 DEF LegsInv
<1>3. CASE PriceAlert
    <2>1. PICK C \in SUBSET held : Perform(ForEach(C, Close) \o <<Save>>)
        <3>1. PICK price \in Prices :
                LET hits == {p \in held : \/ Sign(p.side) * (price - p.tp) >= 0
                                          \/ Sign(p.side) * (price - p.sl) <= 0}
                IN hits # {} /\ Perform(ForEach(hits, Close) \o <<Save>>)
            BY <1>3 DEF PriceAlert
        <3> QED
            BY <3>1
    <2>2. ASSUME faults = 0 PROVE LegsEnded(ForEach(C, Close) \o <<Save>>)
        <3>1. PICK t : Legged(Mind, ForEach(C, Close), t)
            BY <1>1, <1>2, <2>2, ClosedLegs
        <3> QED
            BY <3>1, SavedLegs
    <2> QED
        BY <2>1, <2>2
<1>4. CASE Scan
    <2> DEFINE marks == <<Seen("15m"), Done("15m")>>
               manage == IF Preset.managed THEN ForEach(held, ManageOnBar) ELSE <<>>
               managed == marks \o manage
               left == AfterPlan(managed).held
    <2>1. PICK enter : /\ enter \in {<<>>, OpenIfAllowed(left, EntrySide, now["15m"])}
                       /\ Perform((managed \o enter) \o <<Save>>)
        BY <1>4, Zenon DEF Scan
    <2>2. ASSUME faults = 0 PROVE LegsEnded((managed \o enter) \o <<Save>>)
        <3>1. PICK a : Legged(Mind, marks, a) /\ a.held = held
            BY <1>1, <1>2, <2>2, MarkedLegs
        <3>2. Matched(worker, a, now["15m"], Bar.close)
            BY <3>1 DEF Legged
        <3>3. PICK b : Legged(a, manage, b)
            <4>1. Legged(a, <<>>, a)
                BY <3>2, AfterNothing DEF Legged, IsPlan
            <4>2. \E b : Legged(a, ForEach(held, ManageOnBar), b)
                BY <3>1, <3>2, ManagedLegs
            <4> QED
                BY <4>1, <4>2
        <3>4. Legged(Mind, managed, b)
            BY <3>1, <3>3, LeggedOn
        <3>5. left = b.held /\ Matched(worker, b, now["15m"], Bar.close)
            BY <3>4 DEF Legged, AfterPlan
        <3> HIDE DEF managed, left
        <3>6. PICK c : Legged(b, enter, c)
            <4>1. Legged(b, <<>>, b)
                BY <3>5, AfterNothing DEF Legged, IsPlan
            <4>2. \E c : Legged(b, OpenIfAllowed(b.held, EntrySide, now["15m"]), c)
                BY <1>1, <3>5, EnteredLeg
            <4> QED
                BY <2>1, <3>5, <4>1, <4>2
        <3>7. Legged(Mind, managed \o enter, c)
            BY <3>4, <3>6, LeggedOn
        <3> QED
            BY <3>7, SavedLegs
    <2> QED
        BY <2>1, <2>2
<1> QED
    BY <1>3, <1>4

-----------------------------------------------------------------------------
(***************************************************************************)
(* 5. XauM30: the worker ends up with the legs, and never has more of them *)
(* than max_positions.                                                     *)
(***************************************************************************)

\* The same legs and signals, at this candle or at a later one.
LEMMA MatchedLater ==
    ASSUME NEW W, NEW n \in Nat, NEW price, NEW s, Matched(W, s, n, price),
           Cached(s, n, price), NEW t, IsMind(t), SameMemory(s, t),
           t.held = s.held, t.stream = s.stream, t.saved = s.saved,
           NEW m, NEW c, (m = n /\ c = price) \/ m = n + 1
    PROVE  Matched(W, t, m, c) /\ Cached(t, m, c)
<1>1. ASSUME NEW p, Leg(p, n, price) PROVE Leg(p, m, c)
    <2>1. p.id[1] \in Nat /\ p.id[1] <= n /\ (p.id[1] = n => p.entry = price)
        BY <1>1 DEF Leg
    <2>2. p.id[1] <= m /\ (p.id[1] = m => p.entry = c)
        BY <2>1
    <2> QED
        BY <1>1, <2>2 DEF Leg
<1>2. Matched(W, t, m, c)
    BY <1>1 DEF Matched, SameMemory, Recalls
<1>3. Cached(t, m, c)
    BY <1>1 DEF Cached, SameMemory
<1> QED
    BY <1>2, <1>3

LEMMA LegsIdle ==
    ASSUME "15m" \in Tf, LegsInv,
           UNCHANGED <<held, saved, stream, worker, faults, remembered, dropped>>,
           now' \in [Tf -> Nat], candle' \in [Tf -> Bars],
           \/ now'["15m"] = now["15m"] /\ candle'["15m"] = candle["15m"]
           \/ now'["15m"] = now["15m"] + 1
    PROVE  LegsInv'
<1>1. /\ Mind'.held = Mind.held /\ Mind'.saved = Mind.saved /\ Mind'.stream = Mind.stream
      /\ IsMind(Mind') /\ SameMemory(Mind, Mind')
    BY DEF Mind, IsMind, SameMemory
<1>2. now["15m"] \in Nat
    BY DEF LegsInv
<1>3. \/ now'["15m"] = now["15m"] /\ Bar'.close = Bar.close
      \/ now'["15m"] = now["15m"] + 1
    BY DEF Bar
<1>4. ASSUME faults = 0
      PROVE  /\ Matched(worker', Mind', now'["15m"], Bar'.close)
             /\ Cached(Mind', now'["15m"], Bar'.close)
    <2>1. Matched(worker, Mind, now["15m"], Bar.close) /\ Cached(Mind, now["15m"], Bar.close)
        BY <1>4 DEF LegsInv
    <2>2. /\ Matched(worker, Mind', now'["15m"], Bar'.close)
          /\ Cached(Mind', now'["15m"], Bar'.close)
        BY <1>1, <1>2, <1>3, <2>1, MatchedLater
    <2> QED
        BY <2>2
<1> QED
    BY <1>4 DEF LegsInv

LEMMA LegsTaken ==
    ASSUME LegsInv, WorkerTakes PROVE LegsInv'
<1>1. /\ Mind'.held = Mind.held /\ Mind'.saved = Mind.saved /\ IsMind(Mind')
      /\ Mind.stream = stream /\ Mind'.stream = Tail(stream)
      /\ stream # <<>> /\ worker' = Taken(worker, Head(stream)) /\ faults' = faults
      /\ now' = now /\ candle' = candle /\ Bar' = Bar
      /\ Mind'.remembered = Mind.remembered /\ Mind'.dropped = Mind.dropped
    BY DEF Mind, WorkerTakes, IsMind, Bar
<1>2. ASSUME faults = 0
      PROVE  /\ Matched(worker', Mind', now["15m"], Bar.close)
             /\ Cached(Mind', now["15m"], Bar.close)
    <2>1. Matched(worker, Mind, now["15m"], Bar.close) /\ Cached(Mind, now["15m"], Bar.close)
        BY <1>2 DEF LegsInv
    <2>2. IsPlan(stream) /\ Capped(worker, stream, Preset.max)
        BY <1>1, <2>1 DEF Matched
    <2>3. IsPlan(Mind'.stream) /\ Settled(worker', Mind'.stream) = Settled(worker, Mind.stream)
        BY <1>1, <2>2, SettledTaken
    <2>4. Capped(worker', Mind'.stream, Preset.max)
        BY <1>1, <2>2, CappedTaken
    <2>5. Matched(worker', Mind', now["15m"], Bar.close)
        BY <1>1, <2>1, <2>3, <2>4 DEF Matched, Recalls
    <2> QED
        BY <1>1, <2>1, <2>5 DEF Cached
<1> QED
    BY <1>1, <1>2 DEF LegsInv

\* A restart finds the legs in the worker's snapshot or in the cache.
LEMMA LegsReloaded ==
    ASSUME Sane, LegsInv, Restart(Reloaded) PROVE LegsInv'
<1>1. /\ held' = Reloaded /\ saved' = saved /\ stream' = stream /\ worker' = worker
      /\ now' = now /\ candle' = candle /\ Bar' = Bar /\ faults \in Nat
      /\ remembered' = remembered /\ dropped' = dropped
      /\ \/ stream = <<>> /\ faults' = faults
         \/ faults' = faults + 1
    BY DEF Restart, LegsInv, Bar
<1>2. CASE faults' = faults + 1
    BY <1>1, <1>2 DEF LegsInv
<1>3. CASE stream = <<>> /\ faults' = faults
    <2>1. ASSUME faults = 0
          PROVE  /\ Matched(worker, Mind', now["15m"], Bar.close)
                 /\ Cached(Mind', now["15m"], Bar.close)
        <3>1. /\ Matched(worker, Mind, now["15m"], Bar.close)
              /\ Cached(Mind, now["15m"], Bar.close)
              /\ Mind.stream = stream /\ Mind.held = held /\ Mind.saved = saved
              /\ Mind.dropped = dropped /\ Mind.remembered = remembered
            BY <2>1 DEF LegsInv, Mind
        <3>2. Settled(worker, stream) = worker
            BY <1>3, SettledDrained
        <3>3. /\ Distinct(worker) /\ IsPlan(stream) /\ Capped(worker, stream, Preset.max)
              /\ \A p \in worker : Leg(p, now["15m"], Bar.close)
              /\ Ids(worker) = Ids(held) \ dropped /\ Recalls(Mind)
            BY <3>1, <3>2 DEF Matched
        <3>4. IsFiniteSet(worker)
            BY <3>3, CappedEnds
        <3>5. /\ Distinct(saved) /\ IsFiniteSet(saved)
              /\ \A p \in saved : Leg(p, now["15m"], Bar.close)
              /\ Ids(saved) \ dropped = Ids(held) \ dropped
            BY <3>1 DEF Cached
        <3>6. Reloaded = worker \/ Reloaded = saved
            BY <3>3, <3>5 DEF Reloaded, LoadPositions, Leg
        <3>7. /\ Mind'.held = Reloaded /\ Mind'.saved = saved /\ Mind'.stream = stream
              /\ Mind'.dropped = dropped /\ Mind'.remembered = remembered /\ IsMind(Mind')
            BY <1>1 DEF Mind, IsMind
        <3>8. /\ IsFiniteSet(Reloaded) /\ Distinct(Reloaded)
              /\ Ids(Reloaded) \ dropped = Ids(held) \ dropped
              /\ \A p \in Reloaded : Leg(p, now["15m"], Bar.close)
            BY <3>3, <3>4, <3>5, <3>6
        <3> HIDE DEF Reloaded
        <3>9. Matched(worker, Mind', now["15m"], Bar.close)
            <4>1. Recalls(Mind')
                BY <3>1, <3>3, <3>7 DEF Recalls
            <4>2. Ids(Mind'.held) \ Mind'.dropped = Ids(worker)
                BY <3>3, <3>7, <3>8
            <4> QED
                BY <3>2, <3>3, <3>7, <3>8, <4>1, <4>2 DEF Matched
        <3> QED
            BY <3>5, <3>7, <3>8, <3>9 DEF Cached
    <2> QED
        BY <1>1, <1>3, <2>1 DEF LegsInv
<1> QED
    BY <1>1, <1>2, <1>3

LEMMA LegsPerformed ==
    ASSUME LegsInv, NEW plan, Perform(plan), faults = 0 => LegsEnded(plan)
    PROVE  LegsInv'
<1>1. faults \in Nat /\ worker' = worker /\ now' = now /\ candle' = candle /\ Bar' = Bar
    BY DEF LegsInv, Perform, Bar
<1>2. CASE Becomes(AfterPlan(plan)) /\ faults' = faults
    <2>1. PICK t : t = AfterFrom(Mind, plan)
        OBVIOUS
    <2>2. /\ Mind'.held = t.held /\ Mind'.saved = t.saved /\ Mind'.stream = t.stream
          /\ Mind'.remembered = t.remembered /\ Mind'.dropped = t.dropped /\ IsMind(Mind')
        <3>1. IsMind(Mind')
            BY DEF Mind, IsMind
        <3>2. Becomes(t)
            BY <1>2, <2>1 DEF AfterPlan
        <3> QED
            BY <3>1, <3>2 DEF Becomes, Mind
    <2>3. ASSUME faults = 0
          PROVE  Matched(worker, t, now["15m"], Bar.close) /\ Cached(t, now["15m"], Bar.close)
        BY <2>1, <2>3 DEF LegsEnded, Legged
    <2>4. ASSUME faults = 0
          PROVE  /\ Matched(worker, Mind', now["15m"], Bar.close)
                 /\ Cached(Mind', now["15m"], Bar.close)
        <3>1. Matched(worker, t, now["15m"], Bar.close) /\ Cached(t, now["15m"], Bar.close)
            BY <2>3, <2>4
        <3>2. Matched(worker, Mind', now["15m"], Bar.close)
            BY <2>2, <3>1 DEF Matched, Recalls
        <3> QED
            BY <2>2, <3>1, <3>2 DEF Cached
    <2> QED
        BY <1>1, <1>2, <2>4 DEF LegsInv
<1>3. CASE faults' = faults + 1
    BY <1>1, <1>3 DEF LegsInv
<1> QED
    BY <1>2, <1>3 DEF Perform

LEMMA LegsStart ==
    ASSUME Sane, Init PROVE LegsInv
<1>1. PICK c \in Bars : StartBook({[t \in Tf |-> c]})
    BY DEF Init
<1>2. /\ now = [t \in Tf |-> 1] /\ candle = [t \in Tf |-> c]
      /\ held = {} /\ saved = {} /\ stream = <<>> /\ worker = {} /\ faults = 0 /\ dropped = {}
    BY <1>1 DEF StartBook
<1>3. /\ Mind.stream = <<>> /\ Mind.held = {} /\ Mind.saved = {} /\ Mind.dropped = {}
      /\ Recalls(Mind)
    BY <1>2 DEF Mind, Recalls
<1>4. Settled(worker, Mind.stream) = {}
    BY <1>2, <1>3, SettledDrained
<1>5. IsPlan(Mind.stream)
    BY <1>3, <<>> \in Seq({}) DEF IsPlan
<1>6. IsFiniteSet({}) /\ Cardinality({}) = 0
    BY FS_EmptySet, Zenon
<1>7. Capped(worker, Mind.stream, Preset.max)
    <2>1. Cardinality({}) <= Preset.max
        BY <1>6 DEF Sane
    <2> QED
        BY <1>2, <1>3, <1>6, <2>1, CappedDrained
<1>8. Matched(worker, Mind, now["15m"], Bar.close)
    BY <1>3, <1>4, <1>5, <1>6, <1>7, MindIsMind DEF Matched, Distinct, Ids
<1>9. Cached(Mind, now["15m"], Bar.close)
    BY <1>3, <1>6 DEF Cached, Distinct, Ids
<1> QED
    BY <1>1, <1>2, <1>8, <1>9 DEF LegsInv

LEMMA LegsNext ==
    ASSUME Sane, LegsInv, [Next]_book PROVE LegsInv'
<1>0. "15m" \in Tf /\ now \in [Tf -> Nat] /\ candle \in [Tf -> Bars]
    BY DEF Sane, LegsInv
<1>1. ASSUME NEW C \in SUBSET Bars, CandleCloses("15m", C) PROVE LegsInv'
    <2>1. /\ now' = [now EXCEPT !["15m"] = @ + 1]
          /\ \E c \in C : candle' = [candle EXCEPT !["15m"] = c]
          /\ UNCHANGED <<held, saved, stream, worker, faults, remembered, dropped>>
        BY <1>1 DEF CandleCloses
    <2>2. now' \in [Tf -> Nat] /\ candle' \in [Tf -> Bars] /\ now'["15m"] = now["15m"] + 1
        BY <1>0, <2>1
    <2> QED
        BY <1>0, <2>1, <2>2, LegsIdle
<1>2. CASE CandleCloses("15m", IF now["15m"] % 2 = 1 THEN Bars ELSE {Bar})
    <2>1. Bar \in Bars
        BY <1>0 DEF Bar
    <2> QED
        BY <1>1, <1>2, <2>1
<1>3. CASE ShouldScanM30
    <2>1. /\ now' = now /\ candle' = candle
          /\ UNCHANGED <<held, saved, stream, worker, faults, remembered, dropped>>
        BY <1>3 DEF ShouldScanM30, ShouldScanAfterEvent
    <2> QED
        BY <1>0, <2>1, LegsIdle
<1>4. CASE Scan \/ PriceAlert
    <2>1. PICK plan : Perform(plan) /\ (faults = 0 => LegsEnded(plan))
        BY <1>4, ScannedLegs
    <2> QED
        BY <2>1, LegsPerformed
<1>5. CASE WorkerTakes
    BY <1>5, LegsTaken
<1>6. CASE WorkerCloses
    <2>1. faults' = faults + 1 /\ now' = now /\ candle' = candle /\ faults \in Nat
        BY <1>6 DEF WorkerCloses, LegsInv
    <2> QED
        BY <1>0, <2>1 DEF LegsInv
<1>7. CASE Restart(Reloaded)
    BY <1>7, LegsReloaded
<1>8. CASE UNCHANGED book
    <2>1. /\ now' = now /\ candle' = candle
          /\ UNCHANGED <<held, saved, stream, worker, faults, remembered, dropped>>
        BY <1>8 DEF book
    <2> QED
        BY <1>0, <2>1, LegsIdle
<1> QED
    BY <1>2, <1>3, <1>4, <1>5, <1>6, <1>7, <1>8 DEF Next, Around

\* The scans of XauM30, its price alerts, restarts and the worker keep the legs
\* matched, for every preset: while no send failed, what the worker holds and will
\* hold is what the strategy holds, name by name, but for the legs whose OPEN a scan
\* after a restart repeated and the dispatcher dropped.
THEOREM XauM30Legs == ASSUME Sane PROVE Spec => []LegsInv
BY LegsStart, LegsNext, PTL DEF Spec

\* Without a failed send the worker never holds more legs than max_positions, LONG
\* and SHORT together, in any order of candles, price alerts, restarts and signals,
\* for the presets with one leg as for those with several.
THEOREM XauM30CapHeld == ASSUME Sane PROVE Spec => []CapHeld
<1>1. LegsInv => CapHeld
    <2> SUFFICES ASSUME LegsInv, faults = 0 PROVE Cardinality(worker) <= Preset.max
        BY DEF CapHeld
    <2>1. IsPlan(stream) /\ Capped(worker, stream, Preset.max)
        BY DEF LegsInv, Matched, Mind
    <2> QED
        BY <2>1, CappedEnds
<1> QED
    BY <1>1, XauM30Legs, PTL

\* Once the stream is drained and nothing failed, the worker holds the legs of
\* XauM30 and no other, but for those whose OPEN the dispatcher took for a repeat.
THEOREM XauM30Converges == ASSUME Sane PROVE Spec => []Converged
<1>1. LegsInv => Converged
    <2> SUFFICES ASSUME LegsInv, faults = 0, stream = <<>>
                 PROVE  Ids(worker) = Ids(held) \ dropped
        BY DEF Converged
    <2>1. /\ Matched(worker, Mind, now["15m"], Bar.close)
          /\ Mind.stream = <<>> /\ Mind.held = held /\ Mind.dropped = dropped
        BY DEF LegsInv, Mind
    <2>2. Settled(worker, Mind.stream) = worker
        BY <2>1, SettledDrained
    <2> QED
        BY <2>1, <2>2 DEF Matched
<1> QED
    BY <1>1, XauM30Legs, PTL

-----------------------------------------------------------------------------
(***************************************************************************)
(* 6. The same short plan for every element of a set.                      *)
(***************************************************************************)

\* The elements of S one by one, D those before, f the minds on the way to t.
Parade(S, s, g, t, n, q, f, D) ==
    /\ f[0] = s /\ f[n] = t /\ D[0] = {} /\ D[n] = S
    /\ \A i \in 1..n : /\ q[i] \in S \ D[i - 1] /\ D[i] = D[i - 1] \cup {q[i]}
                       /\ f[i] = AfterFrom(f[i - 1], g[q[i]])

LEMMA EachOfThem ==
    ASSUME NEW S, IsFiniteSet(S), NEW s, NEW g, \A x \in S : IsPlan(g[x]),
           NEW plans, plans = [i \in 1..Len(SetToSeq(S)) |-> g[SetToSeq(S)[i]]],
           NEW t, t = AfterFrom(s, FlattenSeq(plans))
    PROVE  /\ IsPlan(FlattenSeq(plans))
           /\ \E n \in Nat : \E q, f, D : Parade(S, s, g, t, n, q, f, D)
<1>1. PICK m \in Nat : /\ Len(SetToSeq(S)) = m
                       /\ SetToSeq(S) \in [1..m -> S]
    BY SetLaidOut
<1>2. plans \in [1..m -> {g[x] : x \in S}]
    BY <1>1
<1>3. IsPlan(plans) /\ Len(plans) = Len(SetToSeq(S)) /\ \A i \in 1..Len(plans) : IsPlan(plans[i])
    <2>1. IsPlan(plans) /\ Len(plans) = m
        BY <1>2, FunctionIsPlan
    <2>2. ASSUME NEW i \in 1..m PROVE IsPlan(plans[i])
        BY <1>1
    <2> QED
        BY <1>1, <2>1, <2>2
<1>4. \E n \in Nat : \E q, f : InTurn(S, s, plans, n, q, f)
    BY <1>3, EachInTurn
<1>n. PICK n \in Nat : \E q, f : InTurn(S, s, plans, n, q, f)
    BY <1>4
<1>5. PICK q, f : InTurn(S, s, plans, n, q, f)
    BY <1>n
<1>6. /\ q = SetToSeq(S) /\ q \in [1..n -> S]
      /\ \A i, j \in 1..n : q[i] = q[j] => i = j
      /\ \A x \in S : \E i \in 1..n : q[i] = x
      /\ f[0] = s /\ \A i \in 1..n : f[i] = AfterFrom(f[i - 1], plans[i])
      /\ IsPlan(FlattenSeq(plans)) /\ f[n] = t
    BY <1>5 DEF InTurn
<1>7. \A i \in 1..n : plans[i] = g[q[i]]
    <2>1. Len(q) = n
        BY <1>6, FunctionIsPlan
    <2> QED
        BY <1>6, <2>1
<1>8. PICK D : D = [i \in 0..n |-> {q[j] : j \in 1..i}]
    OBVIOUS
<1>9. D[0] = {} /\ D[n] = S
    BY <1>6, <1>8
<1>10. ASSUME NEW i \in 1..n
       PROVE  /\ q[i] \in S \ D[i - 1] /\ D[i] = D[i - 1] \cup {q[i]}
              /\ f[i] = AfterFrom(f[i - 1], g[q[i]])
    <2>0. i \in 0..n /\ i - 1 \in 0..n
        OBVIOUS
    <2>1. D[i - 1] = {q[j] : j \in 1..i - 1} /\ D[i] = {q[j] : j \in 1..i}
        BY <1>8, <2>0, Zenon
    <2>2. q[i] \notin D[i - 1]
        BY <1>6, <2>1
    <2>3. D[i] = D[i - 1] \cup {q[i]}
        BY <2>1
    <2> QED
        BY <1>6, <1>7, <2>2, <2>3
<1>11. Parade(S, s, g, t, n, q, f, D)
    BY <1>6, <1>9, <1>10 DEF Parade
<1> QED
    BY <1>6, <1>11

\* The signals of a stream.
Signals(q) == {q[k] : k \in 1..Len(q)}

LEMMA SignalsSent ==
    ASSUME NEW q, IsPlan(q), NEW e
    PROVE  IsPlan(Append(q, e)) /\ Signals(Append(q, e)) = Signals(q) \cup {e}
<1>1. PICK S : q \in Seq(S)
    BY DEF IsPlan
<1>2. PICK n \in Nat : n = Len(q)
    BY <1>1
<1>3. PICK c : c = Append(q, e)
    OBVIOUS
<1>4. q \in Seq(S \cup {e})
    BY <1>1, SeqMonotonic
<1>5. /\ c \in Seq(S \cup {e}) /\ Len(c) = n + 1 /\ c[n + 1] = e
      /\ \A k \in 1..n : c[k] = q[k]
    BY <1>2, <1>3, <1>4
<1>6. Signals(c) = Signals(q) \cup {e}
    BY <1>2, <1>5 DEF Signals
<1> QED
    BY <1>3, <1>5, <1>6 DEF IsPlan

LEMMA SignalsTaken ==
    ASSUME NEW q, IsPlan(q), q # <<>>
    PROVE  IsPlan(Tail(q)) /\ Signals(q) = Signals(Tail(q)) \cup {Head(q)}
<1>1. PICK S : q \in Seq(S)
    BY DEF IsPlan
<1>2. PICK n \in Nat : Len(q) = n + 1
    <2>1. Len(q) \in Nat /\ Len(q) # 0
        BY <1>1
    <2> QED
        BY <2>1, Len(q) - 1 \in Nat
<1>3. PICK c : c = Tail(q)
    OBVIOUS
<1>4. /\ c \in Seq(S) /\ Len(c) = n /\ Head(q) = q[1]
      /\ \A k \in 1..n : c[k] = q[k + 1]
    BY <1>1, <1>2, <1>3
<1>5. Signals(c) \subseteq Signals(q) /\ q[1] \in Signals(q)
    BY <1>2, <1>4 DEF Signals
<1>6. ASSUME NEW k \in 1..n + 1 PROVE q[k] \in Signals(c) \cup {q[1]}
    <2>1. CASE k = 1
        BY <2>1
    <2>2. CASE k # 1
        <3>1. k - 1 \in 1..n /\ c[k - 1] = q[k]
            BY <1>4, <2>2
        <3> QED
            BY <1>4, <3>1 DEF Signals
    <2> QED
        BY <2>1, <2>2
<1>7. Signals(q) = Signals(c) \cup {q[1]}
    BY <1>2, <1>5, <1>6 DEF Signals
<1> QED
    BY <1>3, <1>4, <1>7 DEF IsPlan

\* A mind whose positions can be laid out, of a strategy whose ids are random: nothing
\* it sends is a repeat.
Fine(s) ==
    /\ ~ HashedIds /\ s.dropped = {}
    /\ IsMind(s) /\ IsPlan(s.stream) /\ IsFiniteSet(s.held) /\ IsFiniteSet(s.saved)

LEMMA AfterSent ==
    ASSUME NEW s, Fine(s), NEW kind, NEW p
    PROVE  LET t == Performed(s, Send(kind, p))
           IN /\ IsMind(t) /\ t.held = s.held /\ t.saved = s.saved /\ t.dropped = {}
              /\ t.stream = Append(s.stream, Send(kind, p))
<1>1. PICK t : t = Performed(s, Send(kind, p))
    OBVIOUS
<1>2. /\ IsMind(t) /\ t.held = s.held /\ t.saved = s.saved
      /\ kind # "OPEN" => t.stream = Append(s.stream, Send(kind, p)) /\ SameMemory(s, t)
      /\ kind = "OPEN" => Goes(s, p, t) \/ Repeats(s, p, t)
    BY <1>1, AfterSend DEF Fine
<1>3. t.stream = Append(s.stream, Send(kind, p)) /\ t.dropped = {}
    BY <1>2 DEF Fine, SameMemory, Goes, Repeats
<1> QED
    BY <1>1, <1>2, <1>3

LEMMA AfterClear ==
    ASSUME NEW s, IsMind(s)
    PROVE  LET t == Performed(s, Clear)
           IN /\ IsMind(t) /\ SameMemory(s, t)
              /\ t.held = {} /\ t.stream = s.stream /\ t.saved = s.saved
<1>1. Performed(s, Clear) = [s EXCEPT !.held = {}]
    BY DEF Performed, Clear
<1> QED
    BY <1>1 DEF IsMind, SameMemory

\* Recording every position of a set.
LEMMA KeptEach ==
    ASSUME NEW s, Fine(s), NEW S, IsFiniteSet(S),
           NEW g, \A x \in S : g[x] = <<Keep(x)>>,
           NEW plans, plans = [i \in 1..Len(SetToSeq(S)) |-> g[SetToSeq(S)[i]]],
           NEW t, t = AfterFrom(s, FlattenSeq(plans))
    PROVE  /\ IsPlan(FlattenSeq(plans)) /\ Fine(t)
           /\ t.stream = s.stream /\ t.saved = s.saved
<1>1. \A x \in S : IsPlan(g[x])
    BY AfterOne
<1>2. IsPlan(FlattenSeq(plans)) /\ \E n \in Nat : \E q, f, D : Parade(S, s, g, t, n, q, f, D)
    BY <1>1, EachOfThem
<1>n. PICK n \in Nat : \E q, f, D : Parade(S, s, g, t, n, q, f, D)
    BY <1>2
<1>3. PICK q, f, D : Parade(S, s, g, t, n, q, f, D)
    BY <1>n
<1>4. /\ f[0] = s /\ f[n] = t /\ D[0] = {} /\ D[n] = S
      /\ \A i \in 1..n : /\ q[i] \in S \ D[i - 1] /\ D[i] = D[i - 1] \cup {q[i]}
                         /\ f[i] = AfterFrom(f[i - 1], g[q[i]])
    BY <1>3 DEF Parade
<1> DEFINE Good(m) == Fine(m) /\ m.stream = s.stream /\ m.saved = s.saved
           R == {i \in 0..n : Good(f[i])}
<1>5. ASSUME NEW i \in 1..n, Good(f[i - 1]) PROVE Good(f[i])
    <2>1. PICK a, x : a = f[i - 1] /\ x = q[i]
        OBVIOUS
    <2>2. f[i] = AfterFrom(a, <<Keep(x)>>)
        BY <1>4, <2>1
    <2>3. PICK b : b = Performed(a, Keep(x))
        OBVIOUS
    <2>4. f[i] = b
        BY <2>2, <2>3, AfterOne
    <2>5. Fine(a) /\ a.stream = s.stream /\ a.saved = s.saved
        BY <1>5, <2>1
    <2>6. /\ IsMind(b) /\ SameMemory(a, b)
          /\ b.held = Others(a.held, x) \cup {x} /\ b.stream = a.stream /\ b.saved = a.saved
        BY <2>3, <2>5, AfterKeep DEF Fine
    <2>7. IsFiniteSet(b.held)
        <3>1. IsFiniteSet(a.held) /\ Others(a.held, x) \in SUBSET a.held
            BY <2>5 DEF Fine, Others
        <3>2. IsFiniteSet(Others(a.held, x))
            BY <3>1, FS_Subset
        <3> QED
            BY <2>6, <3>2, FS_AddElement
    <2>8. Good(b)
        BY <2>5, <2>6, <2>7 DEF Fine, SameMemory
    <2> QED
        BY <2>4, <2>8
<1> HIDE DEF Good
<1>6. Good(f[0])
    BY <1>4 DEF Good
<1>7. 0 \in R /\ \A i \in 1..n : i - 1 \in R => i \in R
    BY <1>5, <1>6
<1> HIDE DEF R
<1>8. n \in R
    <2>1. \A i \in 0..n : i \in R
        BY <1>7, UpTo
    <2> QED
        BY <2>1
<1>9. Good(t)
    BY <1>4, <1>8 DEF R
<1> QED
    BY <1>2, <1>9 DEF Good

\* The signals that close or open every position of a set, and what is left of the
\* positions V without their names.
ClosesOf(S) == {Send("CLOSE", x) : x \in S}
OpensOf(S) == {Send("OPEN", x) : x \in S}
Unnamed(V, S) == {p \in V : p.id \notin Ids(S)}

\* From s to t, every position of S was closed, or opened.
Shut(s, S, t) ==
    /\ Fine(t) /\ t.held = s.held /\ t.saved = s.saved
    /\ Signals(t.stream) = Signals(s.stream) \cup ClosesOf(S)
    /\ \A W : Settled(W, t.stream) = Unnamed(Settled(W, s.stream), S)

Opened(s, S, t) ==
    /\ Fine(t) /\ t.held = S /\ t.saved = s.saved
    /\ Signals(t.stream) = Signals(s.stream) \cup OpensOf(S)
    /\ \A W : Settled(W, s.stream) = {} => Settled(W, t.stream) = S

\* A CLOSE for every position of a set: of what the worker will hold, the positions of
\* other names are left.
LEMMA ClosedEach ==
    ASSUME NEW s, Fine(s), NEW S, IsFiniteSet(S),
           NEW g, \A x \in S : g[x] = <<Send("CLOSE", x)>>,
           NEW plans, plans = [i \in 1..Len(SetToSeq(S)) |-> g[SetToSeq(S)[i]]],
           NEW t, t = AfterFrom(s, FlattenSeq(plans))
    PROVE  /\ IsPlan(FlattenSeq(plans)) /\ Shut(s, S, t)
<1> SUFFICES ASSUME NEW W
             PROVE  /\ IsPlan(FlattenSeq(plans)) /\ Fine(t)
                    /\ t.held = s.held /\ t.saved = s.saved
                    /\ Signals(t.stream) = Signals(s.stream) \cup ClosesOf(S)
                    /\ Settled(W, t.stream) = Unnamed(Settled(W, s.stream), S)
    BY DEF Shut
<1>1. \A x \in S : IsPlan(g[x])
    BY AfterOne
<1>2. IsPlan(FlattenSeq(plans)) /\ \E n \in Nat : \E q, f, D : Parade(S, s, g, t, n, q, f, D)
    BY <1>1, EachOfThem
<1>n. PICK n \in Nat : \E q, f, D : Parade(S, s, g, t, n, q, f, D)
    BY <1>2
<1>3. PICK q, f, D : Parade(S, s, g, t, n, q, f, D)
    BY <1>n
<1>4. /\ f[0] = s /\ f[n] = t /\ D[0] = {} /\ D[n] = S
      /\ \A i \in 1..n : /\ q[i] \in S \ D[i - 1] /\ D[i] = D[i - 1] \cup {q[i]}
                         /\ f[i] = AfterFrom(f[i - 1], g[q[i]])
    BY <1>3 DEF Parade
<1> DEFINE Good(m, E) == /\ Fine(m) /\ m.held = s.held /\ m.saved = s.saved
                         /\ Signals(m.stream)
                              = Signals(s.stream) \cup {Send("CLOSE", x) : x \in E}
                         /\ Settled(W, m.stream)
                              = {p \in Settled(W, s.stream) : p.id \notin Ids(E)}
           R == {i \in 0..n : Good(f[i], D[i])}
<1>5. ASSUME NEW a, NEW E, Good(a, E), NEW x, NEW b, b = AfterFrom(a, <<Send("CLOSE", x)>>),
             NEW F, F = E \cup {x}
      PROVE  Good(b, F)
    <2>1. PICK e : e = Send("CLOSE", x)
        OBVIOUS
    <2>2. b = Performed(a, e) /\ Fine(a) /\ IsMind(a) /\ IsPlan(a.stream)
        BY <1>5, <2>1, AfterOne DEF Fine
    <2>3. /\ IsMind(b) /\ b.held = a.held /\ b.saved = a.saved /\ b.dropped = {}
          /\ b.stream = Append(a.stream, e)
        BY <2>1, <2>2, AfterSent
    <2>4. IsPlan(b.stream) /\ Signals(b.stream) = Signals(a.stream) \cup {e}
        BY <2>2, <2>3, SignalsSent
    <2>5. Settled(W, b.stream) = Taken(Settled(W, a.stream), e)
        BY <2>2, <2>3, SettledSent
    <2>6. Taken(Settled(W, a.stream), e) = Others(Settled(W, a.stream), x)
        BY <2>1 DEF Taken, Send
    <2>7. Settled(W, a.stream) = {p \in Settled(W, s.stream) : p.id \notin Ids(E)}
        BY <1>5
    <2>8. Settled(W, b.stream) = {p \in Settled(W, s.stream) : p.id \notin Ids(F)}
        <3>1. Ids(F) = Ids(E) \cup {x.id}
            BY <1>5 DEF Ids
        <3>2. PICK V : V = Settled(W, s.stream)
            OBVIOUS
        <3>3. Settled(W, b.stream) = Others({p \in V : p.id \notin Ids(E)}, x)
            BY <2>5, <2>6, <2>7, <3>2
        <3>4. Others({p \in V : p.id \notin Ids(E)}, x) = {p \in V : p.id \notin Ids(F)}
            BY <3>1 DEF Others
        <3> QED
            BY <3>2, <3>3, <3>4
    <2>9. {Send("CLOSE", y) : y \in F} = {Send("CLOSE", y) : y \in E} \cup {e}
        BY <1>5, <2>1
    <2>10. Fine(b)
        BY <2>2, <2>3, <2>4 DEF Fine
    <2> QED
        BY <1>5, <2>3, <2>4, <2>8, <2>9, <2>10
<1>6. Good(f[0], D[0])
    <2>1. \A V : {p \in V : p.id \notin Ids({})} = V
        BY DEF Ids
    <2> QED
        BY <1>4, <2>1
<1> HIDE DEF Good
<1>7. 0 \in R /\ \A i \in 1..n : i - 1 \in R => i \in R
    <2>1. ASSUME NEW i \in 1..n, Good(f[i - 1], D[i - 1]) PROVE Good(f[i], D[i])
        <3>1. f[i] = AfterFrom(f[i - 1], <<Send("CLOSE", q[i])>>) /\ D[i] = D[i - 1] \cup {q[i]}
            BY <1>4
        <3> QED
            BY <1>5, <2>1, <3>1
    <2> QED
        BY <1>6, <2>1
<1> HIDE DEF R
<1>8. n \in R
    <2>1. \A i \in 0..n : i \in R
        BY <1>7, UpTo
    <2> QED
        BY <2>1
<1>9. Good(t, S)
    BY <1>4, <1>8 DEF R
<1> QED
    BY <1>2, <1>9 DEF Good, ClosesOf, Unnamed

\* Opening every position of a set, of distinct names and symbols, from nothing: the
\* worker accepts each OPEN.
LEMMA OpenedEach ==
    ASSUME NEW s, Fine(s), s.held = {}, NEW S, IsFiniteSet(S),
           \A x, y \in S : x.id = y.id \/ x.symbol = y.symbol => x = y,
           NEW g, \A x \in S : g[x] = <<Keep(x), Send("OPEN", x)>>,
           NEW plans, plans = [i \in 1..Len(SetToSeq(S)) |-> g[SetToSeq(S)[i]]],
           NEW t, t = AfterFrom(s, FlattenSeq(plans))
    PROVE  /\ IsPlan(FlattenSeq(plans)) /\ Opened(s, S, t)
<1> SUFFICES ASSUME NEW W
             PROVE  /\ IsPlan(FlattenSeq(plans)) /\ Fine(t)
                    /\ t.held = S /\ t.saved = s.saved
                    /\ Signals(t.stream) = Signals(s.stream) \cup OpensOf(S)
                    /\ Settled(W, s.stream) = {} => Settled(W, t.stream) = S
    BY DEF Opened
<1>1. ASSUME NEW x \in S PROVE IsPlan(g[x])
    <2>1. PICK a, b : a = Keep(x) /\ b = Send("OPEN", x)
        OBVIOUS
    <2>2. IsPlan(<<a, b>>)
        BY AfterTwo
    <2> QED
        BY <2>1, <2>2
<1>2. IsPlan(FlattenSeq(plans)) /\ \E n \in Nat : \E q, f, D : Parade(S, s, g, t, n, q, f, D)
    BY <1>1, EachOfThem
<1>n. PICK n \in Nat : \E q, f, D : Parade(S, s, g, t, n, q, f, D)
    BY <1>2
<1>3. PICK q, f, D : Parade(S, s, g, t, n, q, f, D)
    BY <1>n
<1>4. /\ f[0] = s /\ f[n] = t /\ D[0] = {} /\ D[n] = S
      /\ \A i \in 1..n : /\ q[i] \in S \ D[i - 1] /\ D[i] = D[i - 1] \cup {q[i]}
                         /\ f[i] = AfterFrom(f[i - 1], g[q[i]])
    BY <1>3 DEF Parade
<1> DEFINE Good(m, E) == /\ Fine(m) /\ E \in SUBSET S /\ m.held = E /\ m.saved = s.saved
                         /\ Signals(m.stream)
                              = Signals(s.stream) \cup {Send("OPEN", x) : x \in E}
                         /\ Settled(W, s.stream) = {} => Settled(W, m.stream) = E
           R == {i \in 0..n : Good(f[i], D[i])}
<1>5. ASSUME NEW a, NEW E, Good(a, E), NEW x \in S \ E,
             NEW b, b = AfterFrom(a, <<Keep(x), Send("OPEN", x)>>), NEW F, F = E \cup {x}
      PROVE  Good(b, F)
    <2>1. PICK e : e = Send("OPEN", x)
        OBVIOUS
    <2>2. PICK c : c = Performed(a, Keep(x))
        OBVIOUS
    <2>3. b = Performed(c, e)
        BY <1>5, <2>1, <2>2, AfterTwo
    <2>4. /\ Fine(a) /\ IsMind(a) /\ IsPlan(a.stream) /\ IsFiniteSet(a.held)
          /\ a.held = E /\ E \in SUBSET S
        BY <1>5 DEF Fine
    <2>5. /\ IsMind(c) /\ SameMemory(a, c)
          /\ c.held = Others(a.held, x) \cup {x} /\ c.saved = a.saved
          /\ c.stream = a.stream
        BY <2>2, <2>4, AfterKeep
    <2>6. /\ IsMind(b) /\ b.held = c.held /\ b.saved = a.saved /\ b.dropped = {}
          /\ b.stream = Append(a.stream, e)
        <3>n. IsFiniteSet(c.held)
            <4>1. Others(a.held, x) \in SUBSET a.held
                BY DEF Others
            <4> QED
                BY <2>4, <2>5, <4>1, FS_Subset, FS_AddElement
        <3>0. Fine(c) /\ b = Performed(c, Send("OPEN", x))
            BY <2>1, <2>3, <2>4, <2>5, <3>n DEF Fine, SameMemory
        <3>1. /\ IsMind(b) /\ b.held = c.held /\ b.saved = c.saved /\ b.dropped = {}
              /\ b.stream = Append(c.stream, e)
            BY <2>1, <3>0, AfterSent
        <3> QED
            BY <2>5, <3>1
    <2>7. Others(E, x) = E
        BY <1>5, <2>4 DEF Others
    <2>8. b.held = F
        BY <1>5, <2>4, <2>5, <2>6, <2>7
    <2>9. IsPlan(b.stream) /\ Signals(b.stream) = Signals(a.stream) \cup {e}
        BY <2>4, <2>6, SignalsSent
    <2>10. IsFiniteSet(F)
        BY <1>5, <2>4, FS_AddElement
    <2>11. Settled(W, s.stream) = {} => Settled(W, b.stream) = F
        <3>1. ASSUME Settled(W, s.stream) = {} PROVE Settled(W, b.stream) = F
            <4>1. Settled(W, a.stream) = E
                BY <1>5, <3>1
            <4>2. Settled(W, b.stream) = Taken(E, e)
                BY <2>4, <2>6, <4>1, SettledSent
            <4>3. x.symbol \notin {p.symbol : p \in E}
                BY <1>5, <2>4
            <4>4. Taken(E, e) = E \cup {x}
                BY <2>1, <4>3 DEF Taken, Send
            <4> QED
                BY <1>5, <4>2, <4>4
        <3> QED
            BY <3>1
    <2>12. {Send("OPEN", y) : y \in F} = {Send("OPEN", y) : y \in E} \cup {e}
        BY <1>5, <2>1
    <2>13. Fine(b)
        BY <2>4, <2>6, <2>8, <2>9, <2>10 DEF Fine
    <2>14. b.saved = s.saved /\ F \in SUBSET S
        BY <1>5, <2>6
    <2>15. Signals(b.stream) = Signals(s.stream) \cup {Send("OPEN", y) : y \in F}
        BY <1>5, <2>9, <2>12
    <2> QED
        BY <2>8, <2>11, <2>13, <2>14, <2>15
<1>6. Good(f[0], D[0])
    BY <1>4
<1> HIDE DEF Good
<1>7. 0 \in R /\ \A i \in 1..n : i - 1 \in R => i \in R
    <2>1. ASSUME NEW i \in 1..n, Good(f[i - 1], D[i - 1]) PROVE Good(f[i], D[i])
        <3>1. /\ f[i] = AfterFrom(f[i - 1], <<Keep(q[i]), Send("OPEN", q[i])>>)
              /\ D[i] = D[i - 1] \cup {q[i]} /\ q[i] \in S \ D[i - 1]
            BY <1>4
        <3> QED
            BY <1>5, <2>1, <3>1
    <2> QED
        BY <1>6, <2>1
<1> HIDE DEF R
<1>8. n \in R
    <2>1. \A i \in 0..n : i \in R
        BY <1>7, UpTo
    <2> QED
        BY <2>1
<1>9. Good(t, S)
    BY <1>4, <1>8 DEF R
<1> QED
    BY <1>2, <1>9 DEF Good, OpensOf

-----------------------------------------------------------------------------
(***************************************************************************)
(* 7. Plans that break off: whatever part of a plan is run, the positions  *)
(* can be laid out afterwards.                                             *)
(***************************************************************************)
KnownStep(e) ==
    \/ \E k, p : e = Send(k, p)
    \/ \E p : e = Keep(p)
    \/ \E p : e = Drop(p)
    \/ e = Clear
    \/ e = Save
    \/ \E f : e = Seen(f)
    \/ \E f : e = Done(f)

Steps(plan) == \E T : plan \in Seq(T) /\ \A e \in T : KnownStep(e)

LEMMA StepFine ==
    ASSUME NEW s, Fine(s), NEW e, KnownStep(e)
    PROVE  Fine(Performed(s, e))
<1>1. PICK t : t = Performed(s, e)
    OBVIOUS
<1>2. IsMind(s) /\ IsPlan(s.stream) /\ IsFiniteSet(s.held) /\ IsFiniteSet(s.saved)
    BY DEF Fine
<1>3. ASSUME NEW p PROVE IsFiniteSet(Others(s.held, p))
    <2>1. Others(s.held, p) \in SUBSET s.held
        BY DEF Others
    <2> QED
        BY <1>2, <2>1, FS_Subset
<1>4. ASSUME NEW k, NEW p, e = Send(k, p) PROVE Fine(t)
    <2>1. /\ IsMind(t) /\ t.stream = Append(s.stream, e)
          /\ t.held = s.held /\ t.saved = s.saved /\ t.dropped = {}
        BY <1>1, <1>4, AfterSent
    <2>2. IsPlan(t.stream)
        BY <1>2, <2>1, SignalsSent
    <2> QED
        BY <1>2, <2>1, <2>2 DEF Fine, SameMemory
<1>5. ASSUME NEW p, e = Keep(p) PROVE Fine(t)
    <2>1. /\ IsMind(t) /\ SameMemory(s, t) /\ t.held = Others(s.held, p) \cup {p}
          /\ t.stream = s.stream /\ t.saved = s.saved
        BY <1>1, <1>2, <1>5, AfterKeep
    <2>2. IsFiniteSet(t.held)
        BY <1>3, <2>1, FS_AddElement
    <2> QED
        BY <1>2, <2>1, <2>2 DEF Fine, SameMemory
<1>6. ASSUME NEW p, e = Drop(p) PROVE Fine(t)
    <2>1. /\ IsMind(t) /\ SameMemory(s, t) /\ t.held = Others(s.held, p)
          /\ t.stream = s.stream /\ t.saved = s.saved
        BY <1>1, <1>2, <1>6, AfterDrop
    <2> QED
        BY <1>2, <1>3, <2>1 DEF Fine, SameMemory
<1>7. ASSUME e = Clear PROVE Fine(t)
    <2>1. /\ IsMind(t) /\ SameMemory(s, t)
          /\ t.held = {} /\ t.stream = s.stream /\ t.saved = s.saved
        BY <1>1, <1>2, <1>7, AfterClear
    <2> QED
        BY <1>2, <2>1, FS_EmptySet DEF Fine, SameMemory
<1>8. ASSUME e = Save PROVE Fine(t)
    <2>1. /\ IsMind(t) /\ SameMemory(s, t)
          /\ t.saved = s.held /\ t.held = s.held /\ t.stream = s.stream
        BY <1>1, <1>2, <1>8, AfterSave
    <2> QED
        BY <1>2, <2>1 DEF Fine, SameMemory
<1>9. ASSUME NEW f, e = Seen(f) PROVE Fine(t)
    <2>1. /\ IsMind(t) /\ SameMemory(s, t)
          /\ t.held = s.held /\ t.stream = s.stream /\ t.saved = s.saved
        BY <1>1, <1>2, <1>9, AfterSeen
    <2> QED
        BY <1>2, <2>1 DEF Fine, SameMemory
<1>10. ASSUME NEW f, e = Done(f) PROVE Fine(t)
    <2>1. /\ IsMind(t) /\ SameMemory(s, t)
          /\ t.held = s.held /\ t.stream = s.stream /\ t.saved = s.saved
        BY <1>1, <1>2, <1>10, AfterDone
    <2> QED
        BY <1>2, <2>1 DEF Fine, SameMemory
<1>11. Fine(t)
    BY <1>4, <1>5, <1>6, <1>7, <1>8, <1>9, <1>10 DEF KnownStep
<1> QED
    BY <1>1, <1>11

LEMMA StepsFine ==
    ASSUME NEW s, Fine(s), NEW plan, Steps(plan)
    PROVE  IsPlan(plan) /\ Fine(AfterFrom(s, plan))
<1>1. PICK T : plan \in Seq(T) /\ \A e \in T : KnownStep(e)
    BY DEF Steps
<1>2. PICK n \in Nat : n = Len(plan)
    BY <1>1
<1>3. PICK f : Course(f, s, plan, n)
    BY CourseExists
<1>4. f[0] = s /\ \A k \in 1..n : f[k] = Performed(f[k - 1], plan[k])
    BY <1>3 DEF Course
<1>5. AfterFrom(s, plan) = f[n]
    <2>1. ASSUME NEW a, NEW h, h[0] = a, \A k \in 1..n : h[k] = Performed(h[k - 1], plan[k])
          PROVE  AfterFrom(a, plan) = h[n]
        BY <1>2, <2>1, Follows
    <2> QED
        BY <1>4, <2>1
<1>6. \A k \in 1..n : KnownStep(plan[k])
    BY <1>1, <1>2
<1> DEFINE R == {i \in 0..n : Fine(f[i])}
<1>7. 0 \in R /\ \A i \in 1..n : i - 1 \in R => i \in R
    <2>1. ASSUME NEW i \in 1..n, Fine(f[i - 1]) PROVE Fine(f[i])
        <3>1. f[i] = Performed(f[i - 1], plan[i]) /\ KnownStep(plan[i])
            BY <1>4, <1>6
        <3> QED
            BY <2>1, <3>1, StepFine
    <2> QED
        BY <1>4, <2>1
<1> HIDE DEF R
<1>8. n \in R
    <2>1. \A i \in 0..n : i \in R
        BY <1>7, UpTo
    <2> QED
        BY <2>1
<1>9. Fine(f[n])
    BY <1>8 DEF R
<1> QED
    BY <1>1, <1>5, <1>9 DEF IsPlan

LEMMA StepsBoth ==
    ASSUME NEW p, NEW q, Steps(p), Steps(q)
    PROVE  Steps(p \o q)
<1>1. PICK A : p \in Seq(A) /\ \A e \in A : KnownStep(e)
    BY DEF Steps
<1>2. PICK B : q \in Seq(B) /\ \A e \in B : KnownStep(e)
    BY DEF Steps
<1>3. PICK T : T = A \cup B
    OBVIOUS
<1>4. p \in Seq(T) /\ q \in Seq(T)
    BY <1>1, <1>2, <1>3, SeqMonotonic
<1>5. p \o q \in Seq(T) /\ \A e \in T : KnownStep(e)
    BY <1>1, <1>2, <1>3, <1>4
<1> QED
    BY <1>5 DEF Steps

\* What a fault leaves of a plan.
LEMMA StepsPart ==
    ASSUME NEW plan, Steps(plan), NEW k \in 1..Len(plan)
    PROVE  /\ Steps(SubSeq(plan, 1, k - 1))
           /\ Steps(RemoveAt(plan, k))
           /\ \A p : Steps([plan EXCEPT ![k] = Drop(p)])
<1>1. PICK T : plan \in Seq(T) /\ \A e \in T : KnownStep(e)
    BY DEF Steps
<1>2. PICK n \in Nat : n = Len(plan)
    BY <1>1
<1>3. k \in 1..n /\ k - 1 \in Nat /\ k + 1 \in Nat
    BY <1>2
<1>4. SubSeq(plan, 1, k - 1) \in Seq(T)
    BY <1>1, <1>2, <1>3, SubSeqProperties
<1>5. SubSeq(plan, k + 1, n) \in Seq(T)
    BY <1>1, <1>2, <1>3, SubSeqProperties
<1>6. Steps(SubSeq(plan, 1, k - 1))
    BY <1>1, <1>4 DEF Steps
<1>7. Steps(SubSeq(plan, k + 1, n))
    BY <1>1, <1>5 DEF Steps
<1>8. RemoveAt(plan, k) = SubSeq(plan, 1, k - 1) \o SubSeq(plan, k + 1, n)
    BY <1>2 DEF RemoveAt
<1>9. Steps(RemoveAt(plan, k))
    BY <1>6, <1>7, <1>8, StepsBoth
<1>10. ASSUME NEW p PROVE Steps([plan EXCEPT ![k] = Drop(p)])
    <2>1. PICK e : e = Drop(p)
        OBVIOUS
    <2>2. plan \in Seq(T \cup {e})
        BY <1>1, SeqMonotonic
    <2>3. [plan EXCEPT ![k] = e] \in Seq(T \cup {e})
        BY <2>2, ExceptSeq
    <2>4. \A x \in T \cup {e} : KnownStep(x)
        BY <1>1, <2>1 DEF KnownStep
    <2> QED
        BY <2>1, <2>3, <2>4 DEF Steps
<1> QED
    BY <1>6, <1>9, <1>10

LEMMA StepsFlat ==
    ASSUME NEW T, \A e \in T : KnownStep(e), NEW n \in Nat, NEW seqs \in [1..n -> Seq(T)]
    PROVE  Steps(FlattenSeq(seqs))
    BY FlattenType DEF Steps

LEMMA StepsEach ==
    ASSUME NEW S, IsFiniteSet(S), NEW T, \A e \in T : KnownStep(e),
           NEW g, \A x \in S : g[x] \in Seq(T),
           NEW seqs, seqs = [i \in 1..Len(SetToSeq(S)) |-> g[SetToSeq(S)[i]]]
    PROVE  Steps(FlattenSeq(seqs))
<1>1. PICK n \in Nat : /\ Len(SetToSeq(S)) = n
                       /\ SetToSeq(S) \in [1..n -> S]
    BY SetLaidOut
<1>2. seqs \in [1..n -> Seq(T)]
    BY <1>1
<1> QED
    BY <1>2, StepsFlat

-----------------------------------------------------------------------------
(***************************************************************************)
(* 8. BasketBook: the plan of a rebalance.                                 *)
(***************************************************************************)
CONSTANTS Side, Adopts
VARIABLES clean, spared, raised

Basket == INSTANCE BasketBook

LEMMA BasketSteps ==
    /\ \A k, p : Basket!Send(k, p) = Send(k, p)
    /\ \A p : Basket!Keep(p) = Keep(p)
    /\ \A p : Basket!Drop(p) = Drop(p)
    /\ Basket!Clear = Clear
    /\ \A t : Basket!Seen(t) = Seen(t)
    /\ \A t : Basket!Done(t) = Done(t)
    /\ Basket!Save = Save
    /\ \A p, k : Basket!RemoveAt(p, k) = RemoveAt(p, k)
<1>1. \A k, p : Basket!Send(k, p) = Send(k, p)
    BY Zenon DEF Basket!Send, Send
<1>2. \A p : Basket!Keep(p) = Keep(p)
    BY Zenon DEF Basket!Keep, Keep
<1>3. \A p : Basket!Drop(p) = Drop(p)
    BY Zenon DEF Basket!Drop, Drop
<1>4. Basket!Clear = Clear
    BY Zenon DEF Basket!Clear, Clear
<1>5. \A t : Basket!Seen(t) = Seen(t)
    BY Zenon DEF Basket!Seen, Seen
<1>6. \A t : Basket!Done(t) = Done(t)
    BY Zenon DEF Basket!Done, Done
<1>7. Basket!Save = Save
    BY Zenon DEF Basket!Save, Save
<1>8. \A p, k : Basket!RemoveAt(p, k) = RemoveAt(p, k)
    BY Zenon DEF Basket!RemoveAt, RemoveAt
<1> QED
    BY <1>1, <1>2, <1>3, <1>4, <1>5, <1>6, <1>7, <1>8

LEMMA BasketAfter ==
    ASSUME NEW plan PROVE Basket!AfterPlan(plan) = AfterFrom(Mind, plan)
<1>1. \A s : Basket!AfterFrom(s, plan) = AfterFrom(s, plan)
    BY Zenon DEF Basket!AfterFrom, AfterFrom, Basket!Performed, Performed, Basket!Others, Others,
                 Basket!Dispatched, Dispatched, Basket!Remembering, Remembering,
                 Basket!Repeated, Repeated
<1> QED
    BY <1>1 DEF Basket!AfterPlan, Basket!Mind, Mind

\* The plan g[x] of every x of S, one after the other.
Laid(S, g) == FlattenSeq([i \in 1..Len(SetToSeq(S)) |-> g[SetToSeq(S)[i]]])

LEMMA LaidKeeps ==
    ASSUME NEW S, IsFiniteSet(S), NEW g, g = [x \in S |-> <<Keep(x)>>],
           NEW q, q = SetToSeq(S)
    PROVE  Laid(S, g) = FlattenSeq([i \in 1..Len(q) |-> <<Keep(q[i])>>])
<1>1. \A i \in 1..Len(q) : q[i] \in S
    BY SetLaidOut
<1>2. [i \in 1..Len(q) |-> <<Keep(q[i])>>] = [i \in 1..Len(q) |-> g[q[i]]]
    BY <1>1
<1> QED
    BY <1>2, Zenon DEF Laid

LEMMA LaidCloses ==
    ASSUME NEW S, IsFiniteSet(S), NEW g, g = [x \in S |-> <<Send("CLOSE", x)>>],
           NEW q, q = SetToSeq(S)
    PROVE  Laid(S, g) = FlattenSeq([i \in 1..Len(q) |-> <<Send("CLOSE", q[i])>>])
<1>1. \A i \in 1..Len(q) : q[i] \in S
    BY SetLaidOut
<1>2. [i \in 1..Len(q) |-> <<Send("CLOSE", q[i])>>] = [i \in 1..Len(q) |-> g[q[i]]]
    BY <1>1
<1> QED
    BY <1>2, Zenon DEF Laid

LEMMA LaidOpens ==
    ASSUME NEW S, IsFiniteSet(S), NEW g, g = [x \in S |-> <<Keep(x), Send("OPEN", x)>>],
           NEW q, q = SetToSeq(S)
    PROVE  Laid(S, g) = FlattenSeq([i \in 1..Len(q) |-> <<Keep(q[i]), Send("OPEN", q[i])>>])
<1>1. \A i \in 1..Len(q) : q[i] \in S
    BY SetLaidOut
<1>2. [i \in 1..Len(q) |-> <<Keep(q[i]), Send("OPEN", q[i])>>] = [i \in 1..Len(q) |-> g[q[i]]]
    BY <1>1
<1> QED
    BY <1>2, Zenon DEF Laid

Kept(S) == Laid(S, [x \in S |-> <<Keep(x)>>])
Closed(S) == Laid(S, [x \in S |-> <<Send("CLOSE", x)>>])
Entered(S) == Laid(S, [x \in S |-> <<Keep(x), Send("OPEN", x)>>])

\* The positions a selection opens.
Chosen(w) == {Basket!NewPosition(x, w[x]) : x \in DOMAIN w}

LEMMA BasketLaid ==
    /\ \A q : Basket!FlattenSeq(q) = FlattenSeq(q)
    /\ \A S : Basket!SetToSeq(S) = SetToSeq(S)
<1>1. \A q : Basket!FlattenSeq(q) = FlattenSeq(q)
    BY Zenon DEF Basket!FlattenSeq, FlattenSeq
<1>2. \A S : Basket!SetToSeq(S) = SetToSeq(S)
    BY Zenon DEF Basket!SetToSeq, SetToSeq, Basket!IsInjective, IsInjective,
                 Basket!Cardinality, Cardinality
<1> QED
    BY <1>1, <1>2

\* What the plan closes: everything, but for the CLOSEs an earlier try of the candle lost.
Closable == (held \cup Basket!Orphans) \ Basket!Repeats

LEMMA BasketCloseAll ==
    ASSUME IsFiniteSet(held), IsFiniteSet(worker)
    PROVE  /\ Basket!CloseAll
                 = (Kept(Basket!Orphans) \o Closed(Closable)) \o <<Clear>>
           /\ IsFiniteSet(Basket!Orphans) /\ IsFiniteSet(Closable)
<1>1. PICK A, B : A = Basket!Orphans /\ B = Closable
    OBVIOUS
<1>2. IsFiniteSet(A) /\ IsFiniteSet(B)
    <2>1. A \in SUBSET worker
        BY <1>1 DEF Basket!Orphans
    <2>2. IsFiniteSet(A) /\ IsFiniteSet(held \cup A)
        BY <2>1, FS_Subset, FS_Union
    <2>3. B \in SUBSET (held \cup A)
        BY <1>1 DEF Closable
    <2> QED
        BY <2>2, <2>3, FS_Subset
<1>3. Basket!CloseAll
        = (FlattenSeq([i \in 1..Len(SetToSeq(A)) |-> <<Keep(SetToSeq(A)[i])>>])
           \o FlattenSeq([i \in 1..Len(SetToSeq(B)) |->
                             <<Send("CLOSE", SetToSeq(B)[i])>>])) \o <<Clear>>
    BY <1>1, BasketSteps, BasketLaid, Zenon DEF Basket!CloseAll, Basket!ForEach, Closable
<1>4. Kept(A) = FlattenSeq([i \in 1..Len(SetToSeq(A)) |-> <<Keep(SetToSeq(A)[i])>>])
    BY <1>2, LaidKeeps, Zenon DEF Kept
<1>5. Closed(B) = FlattenSeq([i \in 1..Len(SetToSeq(B)) |-> <<Send("CLOSE", SetToSeq(B)[i])>>])
    BY <1>2, LaidCloses, Zenon DEF Closed
<1> QED
    BY <1>1, <1>2, <1>3, <1>4, <1>5, Zenon

LEMMA BasketOpenAll ==
    ASSUME NEW w, IsFiniteSet(DOMAIN w)
    PROVE  /\ Basket!OpenAll(w) = Entered(Chosen(w)) /\ IsFiniteSet(Chosen(w))
           /\ \A x, y \in Chosen(w) : x.id = y.id \/ x.symbol = y.symbol => x = y
<1>1. PICK S : S = Chosen(w)
    OBVIOUS
<1>2. IsFiniteSet(S)
    <2>1. PICK f : f = [x \in DOMAIN w |-> Basket!NewPosition(x, w[x])]
        OBVIOUS
    <2>2. f \in Surjection(DOMAIN w, S)
        BY <1>1, <2>1 DEF Chosen, Surjection
    <2> QED
        BY <2>2, FS_Surjection
<1>3. Basket!OpenAll(w)
        = FlattenSeq([i \in 1..Len(SetToSeq(S)) |->
                        <<Keep(SetToSeq(S)[i]), Send("OPEN", SetToSeq(S)[i])>>])
    BY <1>1, BasketSteps, BasketLaid, Zenon DEF Basket!OpenAll, Basket!ForEach, Chosen
<1>4. Entered(S) = FlattenSeq([i \in 1..Len(SetToSeq(S)) |->
                        <<Keep(SetToSeq(S)[i]), Send("OPEN", SetToSeq(S)[i])>>])
    BY <1>2, LaidOpens, Zenon DEF Entered
<1>5. \A x, y \in S : x.id = y.id \/ x.symbol = y.symbol => x = y
    BY <1>1 DEF Chosen, Basket!NewPosition
<1> QED
    BY <1>1, <1>2, <1>3, <1>4, <1>5, Zenon

-----------------------------------------------------------------------------
(***************************************************************************)
(* 9. BasketBook: what a rebalance leaves.                                 *)
(***************************************************************************)
LEMMA AllKept ==
    ASSUME NEW s, Fine(s), NEW S, IsFiniteSet(S), NEW t, t = AfterFrom(s, Kept(S))
    PROVE  /\ IsPlan(Kept(S)) /\ Fine(t)
           /\ t.stream = s.stream /\ t.saved = s.saved
<1>1. PICK g : g = [x \in S |-> <<Keep(x)>>]
    OBVIOUS
<1>2. PICK plans : plans = [i \in 1..Len(SetToSeq(S)) |-> g[SetToSeq(S)[i]]]
    OBVIOUS
<1>3. Kept(S) = FlattenSeq(plans)
    <2>1. Kept(S) = Laid(S, g)
        BY <1>1, Zenon DEF Kept
    <2>2. Laid(S, g) = FlattenSeq(plans)
        BY <1>2, Zenon DEF Laid
    <2> QED
        BY <2>1, <2>2
<1>4. \A x \in S : g[x] = <<Keep(x)>>
    BY <1>1
<1>5. t = AfterFrom(s, FlattenSeq(plans))
    BY <1>3, Zenon
<1>6. /\ IsPlan(FlattenSeq(plans)) /\ Fine(t)
      /\ t.stream = s.stream /\ t.saved = s.saved
    BY <1>2, <1>4, <1>5, KeptEach
<1> QED
    BY <1>3, <1>6, Zenon

LEMMA AllClosed ==
    ASSUME NEW s, Fine(s), NEW S, IsFiniteSet(S), NEW t, t = AfterFrom(s, Closed(S))
    PROVE  /\ IsPlan(Closed(S)) /\ Shut(s, S, t)
<1>1. PICK g : g = [x \in S |-> <<Send("CLOSE", x)>>]
    OBVIOUS
<1>2. PICK plans : plans = [i \in 1..Len(SetToSeq(S)) |-> g[SetToSeq(S)[i]]]
    OBVIOUS
<1>3. Closed(S) = FlattenSeq(plans)
    <2>1. Closed(S) = Laid(S, g)
        BY <1>1, Zenon DEF Closed
    <2>2. Laid(S, g) = FlattenSeq(plans)
        BY <1>2, Zenon DEF Laid
    <2> QED
        BY <2>1, <2>2
<1>4. \A x \in S : g[x] = <<Send("CLOSE", x)>>
    BY <1>1
<1>5. t = AfterFrom(s, FlattenSeq(plans))
    BY <1>3, Zenon
<1>6. /\ IsPlan(FlattenSeq(plans)) /\ Shut(s, S, t)
    BY <1>2, <1>4, <1>5, ClosedEach
<1> QED
    BY <1>3, <1>6, Zenon

LEMMA AllEntered ==
    ASSUME NEW s, Fine(s), s.held = {}, NEW S, IsFiniteSet(S),
           \A x, y \in S : x.id = y.id \/ x.symbol = y.symbol => x = y,
           NEW t, t = AfterFrom(s, Entered(S))
    PROVE  /\ IsPlan(Entered(S)) /\ Opened(s, S, t)
<1>1. PICK g : g = [x \in S |-> <<Keep(x), Send("OPEN", x)>>]
    OBVIOUS
<1>2. PICK plans : plans = [i \in 1..Len(SetToSeq(S)) |-> g[SetToSeq(S)[i]]]
    OBVIOUS
<1>3. Entered(S) = FlattenSeq(plans)
    <2>1. Entered(S) = Laid(S, g)
        BY <1>1, Zenon DEF Entered
    <2>2. Laid(S, g) = FlattenSeq(plans)
        BY <1>2, Zenon DEF Laid
    <2> QED
        BY <2>1, <2>2
<1>4. \A x \in S : g[x] = <<Keep(x), Send("OPEN", x)>>
    BY <1>1
<1>5. t = AfterFrom(s, FlattenSeq(plans))
    BY <1>3, Zenon
<1>6. /\ IsPlan(FlattenSeq(plans)) /\ Opened(s, S, t)
    BY <1>2, <1>4, <1>5, OpenedEach
<1> QED
    BY <1>3, <1>6, Zenon

LEMMA FineMind ==
    /\ Mind.held = held /\ Mind.saved = saved /\ Mind.stream = stream /\ Mind.dropped = dropped
    /\ Fine(Mind) => /\ IsFiniteSet(held) /\ IsFiniteSet(saved) /\ IsPlan(stream)
                     /\ ~ HashedIds /\ dropped = {}
BY DEF Mind, Fine

LEMMA PlanJoined ==
    ASSUME NEW p, NEW q, IsPlan(p), IsPlan(q) PROVE IsPlan(p \o q)
<1>1. PICK A : p \in Seq(A)
    BY DEF IsPlan
<1>2. PICK B : q \in Seq(B)
    BY DEF IsPlan
<1>3. p \in Seq(A \cup B) /\ q \in Seq(A \cup B)
    BY <1>1, <1>2, SeqMonotonic
<1>4. p \o q \in Seq(A \cup B)
    BY <1>3
<1> QED
    BY <1>4 DEF IsPlan

\* Everything is forgotten, and closed but for the CLOSEs lost before.
LEMMA BasketClosed ==
    ASSUME Fine(Mind), IsFiniteSet(worker), NEW t, t = AfterFrom(Mind, Basket!CloseAll),
           NEW B, B = Closable
    PROVE  /\ IsPlan(Basket!CloseAll) /\ Fine(t)
           /\ t.held = {} /\ t.saved = saved
           /\ Signals(t.stream) = Signals(stream) \cup ClosesOf(B)
           /\ \A W : Settled(W, t.stream) = Unnamed(Settled(W, stream), B)
<1>1. PICK A : A = Basket!Orphans
    OBVIOUS
<1>2. /\ Basket!CloseAll = (Kept(A) \o Closed(B)) \o <<Clear>>
      /\ IsFiniteSet(A) /\ IsFiniteSet(B)
    BY <1>1, FineMind, BasketCloseAll
<1>3. PICK a : a = AfterFrom(Mind, Kept(A))
    OBVIOUS
<1>4. IsPlan(Kept(A)) /\ Fine(a) /\ a.stream = stream /\ a.saved = saved
    BY <1>2, <1>3, AllKept, FineMind
<1>5. PICK b : b = AfterFrom(a, Closed(B))
    OBVIOUS
<1>6. /\ IsPlan(Closed(B)) /\ Fine(b) /\ b.saved = saved
      /\ Signals(b.stream) = Signals(stream) \cup ClosesOf(B)
      /\ \A W : Settled(W, b.stream) = Unnamed(Settled(W, stream), B)
    <2>1. IsPlan(Closed(B)) /\ Shut(a, B, b)
        BY <1>2, <1>4, <1>5, AllClosed
    <2> QED
        BY <1>4, <2>1, Zenon DEF Shut
<1>m. PICK m, K, c : m = Mind /\ K = Kept(A) \o Closed(B) /\ c = <<Clear>>
    OBVIOUS
<1>7. IsPlan(K) /\ b = AfterFrom(m, K)
    BY <1>3, <1>4, <1>5, <1>6, <1>m, AfterBoth, PlanJoined
<1>8. IsPlan(c) /\ AfterFrom(b, c) = Performed(b, Clear)
    BY <1>m, AfterOne
<1>9. IsPlan(Basket!CloseAll) /\ t = Performed(b, Clear)
    <2>1. IsPlan(K \o c) /\ AfterFrom(m, K \o c) = Performed(b, Clear)
        BY <1>7, <1>8, AfterBoth, PlanJoined
    <2>2. Basket!CloseAll = K \o c
        BY <1>2, <1>m, Zenon
    <2> QED
        BY <1>m, <2>1, <2>2, Zenon
<1>10. /\ IsMind(t) /\ SameMemory(b, t)
       /\ t.held = {} /\ t.stream = b.stream /\ t.saved = b.saved
    BY <1>6, <1>9, AfterClear DEF Fine
<1>11. Fine(t)
    BY <1>6, <1>10, FS_EmptySet DEF Fine, SameMemory
<1> QED
    BY <1>6, <1>9, <1>10, <1>11, Zenon

\* The positions of the selection are opened.
LEMMA BasketOpened ==
    ASSUME NEW s, Fine(s), s.held = {}, NEW w, IsFiniteSet(DOMAIN w),
           NEW t, t = AfterFrom(s, Basket!OpenAll(w)), NEW S, S = Chosen(w)
    PROVE  /\ IsPlan(Basket!OpenAll(w)) /\ Opened(s, S, t)
<1>1. /\ Basket!OpenAll(w) = Entered(S) /\ IsFiniteSet(S)
      /\ \A x, y \in S : x.id = y.id \/ x.symbol = y.symbol => x = y
    BY BasketOpenAll, Zenon
<1>2. t = AfterFrom(s, Entered(S))
    BY <1>1, Zenon
<1> QED
    BY <1>1, <1>2, AllEntered

\* Saved, and the candle seen and done with.
LEMMA BasketSaved ==
    ASSUME NEW s, Fine(s), NEW t, t = AfterFrom(AfterFrom(s, <<Save>>), Basket!Processed)
    PROVE  /\ IsPlan(<<Save>>) /\ IsPlan(Basket!Processed) /\ Fine(t)
           /\ t.held = s.held /\ t.saved = s.held /\ t.stream = s.stream
<1>1. Basket!Processed = <<Seen("bar"), Done("bar")>>
    BY BasketSteps DEF Basket!Processed
<1>2. PICK a : a = Performed(s, Save)
    OBVIOUS
<1>3. PICK b : b = Performed(a, Seen("bar"))
    OBVIOUS
<1>4. IsPlan(<<Save>>) /\ AfterFrom(s, <<Save>>) = a
    BY <1>2, AfterOne
<1>5. IsPlan(Basket!Processed) /\ t = Performed(b, Done("bar"))
    <2>1. PICK d, e : d = Seen("bar") /\ e = Done("bar")
        OBVIOUS
    <2>2. IsPlan(<<d, e>>) /\ AfterFrom(a, <<d, e>>) = Performed(Performed(a, d), e)
        BY AfterTwo
    <2> QED
        BY <1>1, <1>3, <1>4, <2>1, <2>2, Zenon
<1>6. IsMind(a) /\ SameMemory(s, a) /\ a.saved = s.held /\ a.held = s.held /\ a.stream = s.stream
    BY <1>2, AfterSave DEF Fine
<1>7. IsMind(b) /\ SameMemory(a, b) /\ b.saved = s.held /\ b.held = s.held /\ b.stream = s.stream
    BY <1>3, <1>6, AfterSeen
<1>8. /\ IsMind(t) /\ t.dropped = s.dropped
      /\ t.saved = s.held /\ t.held = s.held /\ t.stream = s.stream
    BY <1>5, <1>6, <1>7, AfterDone DEF SameMemory
<1>9. Fine(t)
    BY <1>8 DEF Fine
<1> QED
    BY <1>4, <1>5, <1>8, <1>9

\* A skipped candle changes nothing but the marks.
LEMMA BasketProcessed ==
    ASSUME NEW s, Fine(s), NEW t, t = AfterFrom(s, Basket!Processed)
    PROVE  /\ Fine(t) /\ t.held = s.held /\ t.saved = s.saved /\ t.stream = s.stream
<1>1. Basket!Processed = <<Seen("bar"), Done("bar")>>
    BY BasketSteps DEF Basket!Processed
<1>2. PICK b : b = Performed(s, Seen("bar"))
    OBVIOUS
<1>3. t = Performed(b, Done("bar"))
    <2>1. PICK d, e : d = Seen("bar") /\ e = Done("bar")
        OBVIOUS
    <2>2. AfterFrom(s, <<d, e>>) = Performed(Performed(s, d), e)
        BY AfterTwo
    <2> QED
        BY <1>1, <1>2, <2>1, <2>2, Zenon
<1>4. IsMind(b) /\ SameMemory(s, b) /\ b.saved = s.saved /\ b.held = s.held /\ b.stream = s.stream
    BY <1>2, AfterSeen DEF Fine
<1>5. /\ IsMind(t) /\ t.dropped = s.dropped
      /\ t.saved = s.saved /\ t.held = s.held /\ t.stream = s.stream
    BY <1>3, <1>4, AfterDone DEF SameMemory
<1> QED
    BY <1>5 DEF Fine

-----------------------------------------------------------------------------
(***************************************************************************)
(* 10. BasketBook: one scan.                                               *)
(***************************************************************************)
BasketFine == IsFiniteSet(worker) /\ Fine(Mind)

\* A rebalance that lost nothing: the strategy holds the new positions S only, and so
\* does the worker in the end, unless a CLOSE was lost on an earlier try.
Rebalanced(t, S) ==
    /\ t.held = S /\ t.saved = S
    /\ Signals(t.stream)
         = (Signals(stream) \cup ClosesOf(Closable)) \cup OpensOf(S)
    /\ \A W : Basket!Repeats = {} /\ Settled(W, stream) = held => Settled(W, t.stream) = S

LEMMA BasketRebalanced ==
    ASSUME BasketFine, NEW w, IsFiniteSet(DOMAIN w),
           NEW t, t = AfterFrom(Mind, ((Basket!CloseAll \o Basket!OpenAll(w)) \o <<Save>>)
                                        \o Basket!Processed)
    PROVE  Rebalanced(t, Chosen(w))
<1>1. PICK C, O, V, P, m : /\ C = Basket!CloseAll /\ O = Basket!OpenAll(w) /\ V = <<Save>>
                           /\ P = Basket!Processed /\ m = Mind
    OBVIOUS
<1>2. PICK B : B = Closable
    OBVIOUS
<1>3. PICK S : S = Chosen(w)
    OBVIOUS
<1>4. PICK a : a = AfterFrom(m, C)
    OBVIOUS
<1>5. /\ IsPlan(C) /\ Fine(a) /\ a.held = {} /\ a.saved = saved
      /\ Signals(a.stream) = Signals(stream) \cup ClosesOf(B)
      /\ \A W : Settled(W, a.stream) = Unnamed(Settled(W, stream), B)
    BY <1>1, <1>2, <1>4, BasketClosed DEF BasketFine
<1>6. PICK b : b = AfterFrom(a, O)
    OBVIOUS
<1>7. IsPlan(O) /\ Opened(a, S, b)
    BY <1>1, <1>3, <1>5, <1>6, BasketOpened
<1>8. /\ Fine(b) /\ b.held = S
      /\ Signals(b.stream) = Signals(a.stream) \cup OpensOf(S)
      /\ \A W : Settled(W, a.stream) = {} => Settled(W, b.stream) = S
    BY <1>7 DEF Opened
<1>9. PICK c : c = AfterFrom(AfterFrom(b, V), P)
    OBVIOUS
<1>10. /\ IsPlan(V) /\ IsPlan(P)
       /\ c.held = b.held /\ c.saved = b.held /\ c.stream = b.stream
    BY <1>1, <1>8, <1>9, BasketSaved
<1>11. t = c
    <2>1. IsPlan(C \o O) /\ AfterFrom(m, C \o O) = b
        BY <1>4, <1>5, <1>6, <1>7, AfterBoth, PlanJoined
    <2>2. IsPlan((C \o O) \o V) /\ AfterFrom(m, (C \o O) \o V) = AfterFrom(b, V)
        BY <1>10, <2>1, AfterBoth, PlanJoined
    <2>3. AfterFrom(m, ((C \o O) \o V) \o P) = c
        BY <1>9, <1>10, <2>2, AfterBoth
    <2> QED
        BY <1>1, <2>3, Zenon
<1>12. ASSUME NEW W, Basket!Repeats = {}, Settled(W, stream) = held
       PROVE  Settled(W, t.stream) = S
    <2>1. Unnamed(held, B) = {}
        BY <1>2, <1>12 DEF Closable, Unnamed, Ids
    <2>2. Settled(W, a.stream) = {}
        BY <1>5, <1>12, <2>1
    <2> QED
        BY <1>8, <1>10, <1>11, <2>2
<1>13. Signals(t.stream) = (Signals(stream) \cup ClosesOf(B)) \cup OpensOf(S)
    BY <1>5, <1>8, <1>10, <1>11
<1>14. t.held = S /\ t.saved = S
    BY <1>8, <1>10, <1>11
<1>15. Rebalanced(t, S)
    BY <1>2, <1>12, <1>13, <1>14, Zenon DEF Rebalanced
<1> QED
    BY <1>3, <1>15, Zenon

LEMMA BasketEmptied ==
    ASSUME BasketFine,
           NEW t, t = AfterFrom(Mind, (Basket!CloseAll \o <<Save>>) \o Basket!Processed)
    PROVE  Rebalanced(t, {})
<1>1. PICK C, V, P, m : /\ C = Basket!CloseAll /\ V = <<Save>>
                        /\ P = Basket!Processed /\ m = Mind
    OBVIOUS
<1>2. PICK B : B = Closable
    OBVIOUS
<1>4. PICK a : a = AfterFrom(m, C)
    OBVIOUS
<1>5. /\ IsPlan(C) /\ Fine(a) /\ a.held = {} /\ a.saved = saved
      /\ Signals(a.stream) = Signals(stream) \cup ClosesOf(B)
      /\ \A W : Settled(W, a.stream) = Unnamed(Settled(W, stream), B)
    BY <1>1, <1>2, <1>4, BasketClosed DEF BasketFine
<1>9. PICK c : c = AfterFrom(AfterFrom(a, V), P)
    OBVIOUS
<1>10. /\ IsPlan(V) /\ IsPlan(P)
       /\ c.held = a.held /\ c.saved = a.held /\ c.stream = a.stream
    BY <1>1, <1>5, <1>9, BasketSaved
<1>11. t = c
    <2>2. IsPlan(C \o V) /\ AfterFrom(m, C \o V) = AfterFrom(a, V)
        BY <1>4, <1>5, <1>10, AfterBoth, PlanJoined
    <2>3. AfterFrom(m, (C \o V) \o P) = c
        BY <1>9, <1>10, <2>2, AfterBoth
    <2> QED
        BY <1>1, <2>3, Zenon
<1>12. ASSUME NEW W, Basket!Repeats = {}, Settled(W, stream) = held
       PROVE  Settled(W, t.stream) = {}
    <2>1. Unnamed(held, B) = {}
        BY <1>2, <1>12 DEF Closable, Unnamed, Ids
    <2> QED
        BY <1>5, <1>10, <1>11, <1>12, <2>1
<1>13. Signals(t.stream) = (Signals(stream) \cup ClosesOf(B)) \cup OpensOf({})
    BY <1>5, <1>10, <1>11 DEF OpensOf
<1>14. t.held = {} /\ t.saved = {}
    BY <1>5, <1>10, <1>11
<1> QED
    BY <1>2, <1>12, <1>13, <1>14, Zenon DEF Rebalanced

\* Every step of a rebalance is one of StrategyBook's.
LEMMA StepKinds ==
    /\ \A x : KnownStep(Keep(x)) /\ KnownStep(Drop(x))
    /\ \A k, x : KnownStep(Send(k, x))
    /\ \A x : KnownStep(Seen(x)) /\ KnownStep(Done(x))
    /\ KnownStep(Clear) /\ KnownStep(Save)
BY Zenon DEF KnownStep

LEMMA StepAlone ==
    ASSUME NEW e, KnownStep(e) PROVE Steps(<<e>>)
<1>1. PICK T, q : T = {e} /\ q = <<e>>
    OBVIOUS
<1>2. q \in Seq(T) /\ \A x \in T : KnownStep(x)
    BY <1>1
<1>3. Steps(q)
    BY <1>2, Zenon DEF Steps
<1> QED
    BY <1>1, <1>3, Zenon

LEMMA StepPair ==
    ASSUME NEW d, NEW e, KnownStep(d), KnownStep(e) PROVE Steps(<<d, e>>)
<1>1. PICK T, q : T = {d, e} /\ q = <<d, e>>
    OBVIOUS
<1>2. q \in Seq(T) /\ \A x \in T : KnownStep(x)
    BY <1>1
<1>3. Steps(q)
    BY <1>2, Zenon DEF Steps
<1> QED
    BY <1>1, <1>3, Zenon

LEMMA StepsLaid ==
    ASSUME NEW S, IsFiniteSet(S)
    PROVE  Steps(Kept(S)) /\ Steps(Closed(S)) /\ Steps(Entered(S))
<1>1. ASSUME NEW T, \A e \in T : KnownStep(e), NEW g, \A x \in S : g[x] \in Seq(T)
      PROVE  Steps(Laid(S, g))
    <2>1. PICK seqs : seqs = [i \in 1..Len(SetToSeq(S)) |-> g[SetToSeq(S)[i]]]
        OBVIOUS
    <2>2. Laid(S, g) = FlattenSeq(seqs)
        BY <2>1, Zenon DEF Laid
    <2>3. Steps(FlattenSeq(seqs))
        BY <1>1, <2>1, StepsEach
    <2> QED
        BY <2>2, <2>3, Zenon
<1>2. Steps(Kept(S))
    <2>1. PICK g : g = [x \in S |-> <<Keep(x)>>]
        OBVIOUS
    <2>2. PICK T : T = {Keep(x) : x \in S}
        OBVIOUS
    <2>3. \A e \in T : KnownStep(e)
        BY <2>2, StepKinds
    <2>4. \A x \in S : g[x] \in Seq(T)
        BY <2>1, <2>2
    <2>5. Steps(Laid(S, g))
        BY <1>1, <2>3, <2>4
    <2> QED
        BY <2>1, <2>5, Zenon DEF Kept
<1>3. Steps(Closed(S))
    <2>1. PICK g : g = [x \in S |-> <<Send("CLOSE", x)>>]
        OBVIOUS
    <2>2. PICK T : T = {Send("CLOSE", x) : x \in S}
        OBVIOUS
    <2>3. \A e \in T : KnownStep(e)
        BY <2>2, StepKinds
    <2>4. \A x \in S : g[x] \in Seq(T)
        BY <2>1, <2>2
    <2>5. Steps(Laid(S, g))
        BY <1>1, <2>3, <2>4
    <2> QED
        BY <2>1, <2>5, Zenon DEF Closed
<1>4. Steps(Entered(S))
    <2>1. PICK g : g = [x \in S |-> <<Keep(x), Send("OPEN", x)>>]
        OBVIOUS
    <2>2. PICK T : T = {Keep(x) : x \in S} \cup {Send("OPEN", x) : x \in S}
        OBVIOUS
    <2>3. \A e \in T : KnownStep(e)
        BY <2>2, StepKinds
    <2>4. \A x \in S : g[x] \in Seq(T)
        BY <2>1, <2>2
    <2>5. Steps(Laid(S, g))
        BY <1>1, <2>3, <2>4
    <2> QED
        BY <2>1, <2>5, Zenon DEF Entered
<1> QED
    BY <1>2, <1>3, <1>4

LEMMA BasketPlans ==
    ASSUME BasketFine
    PROVE  /\ Steps(Basket!Processed) /\ Steps(Basket!CloseAll \o <<Save>>)
           /\ \A w : IsFiniteSet(DOMAIN w)
                        => Steps((Basket!CloseAll \o Basket!OpenAll(w)) \o <<Save>>)
<1>1. Steps(<<Save>>) /\ Steps(<<Clear>>)
    BY StepKinds, StepAlone
<1>2. Steps(Basket!Processed)
    BY StepKinds, StepPair, BasketSteps DEF Basket!Processed
<1>3. Steps(Basket!CloseAll)
    <2>1. PICK A, B : A = Basket!Orphans /\ B = Closable
        OBVIOUS
    <2>2. /\ Basket!CloseAll = (Kept(A) \o Closed(B)) \o <<Clear>>
          /\ IsFiniteSet(A) /\ IsFiniteSet(B)
        BY <2>1, FineMind, BasketCloseAll DEF BasketFine
    <2>3. Steps(Kept(A) \o Closed(B))
        BY <2>2, StepsLaid, StepsBoth
    <2>4. Steps((Kept(A) \o Closed(B)) \o <<Clear>>)
        BY <1>1, <2>3, StepsBoth
    <2> QED
        BY <2>2, <2>4, Zenon
<1>4. Steps(Basket!CloseAll \o <<Save>>)
    BY <1>1, <1>3, StepsBoth
<1>5. ASSUME NEW w, IsFiniteSet(DOMAIN w)
      PROVE  Steps((Basket!CloseAll \o Basket!OpenAll(w)) \o <<Save>>)
    <2>1. Steps(Basket!OpenAll(w))
        BY <1>5, BasketOpenAll, StepsLaid
    <2>2. Steps(Basket!CloseAll \o Basket!OpenAll(w))
        BY <1>3, <2>1, StepsBoth
    <2> QED
        BY <1>1, <2>2, StepsBoth
<1> QED
    BY <1>2, <1>4, <1>5

-----------------------------------------------------------------------------
(***************************************************************************)
(* 11. BasketBook: the worker ends up with the basket, and orphans do not  *)
(* outlive a rebalance.                                                    *)
(***************************************************************************)

\* Until something fails, the worker will hold what the strategy holds and has saved.
Exact ==
    /\ faults \in Nat
    /\ faults = 0 => Settled(worker, stream) = held /\ saved = held /\ raised = {}

\* After a rebalance that lost nothing: whatever is opened is the strategy's, and a
\* position of the worker is the strategy's or will be closed.
Swept ==
    clean => /\ \A e \in Signals(stream) :
                    e.kind = "OPEN" => e.pos.symbol \in Basket!Named(held)
             /\ \A p \in worker :
                    \/ p.id \in spared \/ p.symbol \in Basket!Named(held)
                    \/ \E e \in Signals(stream) : e.kind = "CLOSE" /\ e.pos.id = p.id

BasketInv == BasketFine /\ Exact /\ Swept

LEMMA BasketBecomes ==
    ASSUME NEW s, Fine(s), Basket!Becomes(s)
    PROVE  Fine(Mind)' /\ held' = s.held /\ saved' = s.saved /\ stream' = s.stream
<1>1. held' = s.held /\ saved' = s.saved /\ stream' = s.stream /\ dropped' = s.dropped
    BY DEF Basket!Becomes
<1>2. IsMind(Mind)' /\ (Mind.held)' = held' /\ (Mind.saved)' = saved'
      /\ (Mind.stream)' = stream' /\ (Mind.dropped)' = dropped'
    BY DEF IsMind, Mind
<1> QED
    BY <1>1, <1>2 DEF Fine

\* However a scan breaks off, the positions can still be laid out.
LEMMA BasketBroken ==
    ASSUME BasketFine, NEW plan, Steps(plan), NEW k \in 1..Len(plan)
    PROVE  /\ Fine(AfterFrom(Mind, SubSeq(plan, 1, k - 1) \o <<Done("bar")>>))
           /\ Fine(AfterFrom(Mind, Basket!Refused(plan, k) \o Basket!Processed))
<1>1. /\ Steps(SubSeq(plan, 1, k - 1)) /\ Steps(RemoveAt(plan, k))
      /\ \A p : Steps([plan EXCEPT ![k] = Drop(p)])
    BY StepsPart
<1>2. Steps(<<Done("bar")>>) /\ Steps(Basket!Processed)
    BY StepKinds, StepAlone, BasketPlans
<1>3. Steps(Basket!Refused(plan, k))
    BY <1>1, BasketSteps DEF Basket!Refused
<1>4. Steps(SubSeq(plan, 1, k - 1) \o <<Done("bar")>>)
    BY <1>1, <1>2, StepsBoth
<1>5. Steps(Basket!Refused(plan, k) \o Basket!Processed)
    BY <1>2, <1>3, StepsBoth
<1> QED
    BY <1>4, <1>5, StepsFine DEF BasketFine

\* Whether or not the send that raised was remembered.
LEMMA BasketRaised ==
    ASSUME NEW s, Fine(s), NEW e, Basket!Raises(s, e)
    PROVE  \E r : Fine(r) /\ Basket!Becomes(r)
<1>1. PICK r : r = Basket!Remembering(s, e)
    OBVIOUS
<1>2. r = s \/ r = [s EXCEPT !.remembered = @ \cup {e.pos.id}]
    BY <1>1 DEF Basket!Remembering
<1>3. PICK h, sv, st, tr, pe, la, re, dr :
        s = [held |-> h, saved |-> sv, stream |-> st, trend |-> tr, pending |-> pe, last |-> la,
             remembered |-> re, dropped |-> dr]
    BY DEF Fine, IsMind
<1>4. /\ IsMind(r) /\ r.held = s.held /\ r.saved = s.saved /\ r.stream = s.stream
      /\ r.dropped = s.dropped
    BY <1>2, <1>3 DEF IsMind
<1>5. Fine(r) /\ Basket!Becomes(r)
    BY <1>1, <1>4 DEF Fine, Basket!Raises
<1> QED
    BY <1>5

\* A selection is applied in full, or something is lost and the fault is counted.
LEMMA BasketApplied ==
    ASSUME BasketFine, faults \in Nat, NEW plan, Steps(plan), Basket!ApplySelection(plan),
           NEW t, t = AfterFrom(Mind, plan \o Basket!Processed)
    PROVE  /\ BasketFine' /\ worker' = worker
           /\ \/ /\ faults' = faults /\ held' = t.held /\ saved' = t.saved /\ stream' = t.stream
                 /\ raised' = raised /\ clean' = (stream = <<>> /\ Basket!Repeats = {})
                 /\ spared' = {p.id : p \in worker \ (Basket!Orphans \cup held)}
              \/ faults' = faults + 1 /\ clean' = FALSE
<1>1. worker' = worker
    BY DEF Basket!ApplySelection
<1>2. Fine(t)
    <2>1. Steps(plan \o Basket!Processed)
        BY BasketPlans, StepsBoth
    <2> QED
        BY <2>1, StepsFine DEF BasketFine
<1>3. CASE /\ Basket!Becomes(Basket!AfterPlan(plan \o Basket!Processed))
           /\ UNCHANGED <<faults, raised>> /\ clean' = (stream = <<>> /\ Basket!Repeats = {})
           /\ spared' = {p.id : p \in worker \ (Basket!Orphans \cup held)}
    <2>1. Basket!Becomes(t)
        BY <1>3, BasketAfter
    <2> QED
        BY <1>1, <1>2, <1>3, <2>1, BasketBecomes DEF BasketFine
<1>4. CASE \E k \in 1..Len(plan) :
            /\ faults' = faults + 1 /\ clean' = FALSE
            /\ \/ Basket!Raises(Basket!AfterPlan(SubSeq(plan, 1, k - 1) \o <<Basket!Done("bar")>>),
                              plan[k])
               \/ Basket!Becomes(Basket!AfterPlan(Basket!Refused(plan, k) \o Basket!Processed))
    <2>1. PICK k \in 1..Len(plan) :
            /\ faults' = faults + 1 /\ clean' = FALSE
            /\ \/ Basket!Raises(Basket!AfterPlan(SubSeq(plan, 1, k - 1) \o <<Basket!Done("bar")>>),
                              plan[k])
               \/ Basket!Becomes(Basket!AfterPlan(Basket!Refused(plan, k) \o Basket!Processed))
        BY <1>4
    <2>2. \E s : Fine(s) /\ Basket!Becomes(s)
        BY <2>1, BasketBroken, BasketRaised, BasketAfter, BasketSteps
    <2>3. Fine(Mind)'
        BY <2>2, BasketBecomes
    <2> QED
        BY <1>1, <2>1, <2>3 DEF BasketFine
<1> QED
    BY <1>3, <1>4 DEF Basket!ApplySelection

LEMMA BasketSettles ==
    ASSUME BasketInv, NEW plan, Steps(plan), Basket!ApplySelection(plan), NEW S,
           Rebalanced(AfterFrom(Mind, plan \o Basket!Processed), S)
    PROVE  BasketInv'
<1>1. PICK t : t = AfterFrom(Mind, plan \o Basket!Processed)
    OBVIOUS
<1>2. PICK B : B = Closable
    OBVIOUS
<1>3. /\ t.held = S /\ t.saved = S
      /\ Signals(t.stream) = (Signals(stream) \cup ClosesOf(B)) \cup OpensOf(S)
      /\ \A W : Basket!Repeats = {} /\ Settled(W, stream) = held => Settled(W, t.stream) = S
    BY <1>1, <1>2 DEF Rebalanced
<1>4. /\ BasketFine' /\ worker' = worker
      /\ \/ /\ faults' = faults /\ held' = t.held /\ saved' = t.saved /\ stream' = t.stream
            /\ raised' = raised /\ clean' = (stream = <<>> /\ Basket!Repeats = {})
            /\ spared' = {p.id : p \in worker \ (Basket!Orphans \cup held)}
         \/ faults' = faults + 1 /\ clean' = FALSE
    BY <1>1, BasketApplied DEF BasketInv, Exact
<1>5. CASE faults' = faults + 1 /\ clean' = FALSE
    BY <1>4, <1>5 DEF BasketInv, Exact, Swept
<1>6. CASE /\ faults' = faults /\ held' = t.held /\ saved' = t.saved /\ stream' = t.stream
           /\ raised' = raised /\ clean' = (stream = <<>> /\ Basket!Repeats = {})
           /\ spared' = {p.id : p \in worker \ (Basket!Orphans \cup held)}
    <2>1. Exact'
        <3>1. faults = 0 => Basket!Repeats = {}
            BY DEF BasketInv, Exact, Basket!Repeats
        <3> QED
            BY <1>3, <1>4, <1>6, <3>1 DEF BasketInv, Exact
    <2>2. ASSUME stream = <<>> PROVE Signals(t.stream) = ClosesOf(B) \cup OpensOf(S)
        <3>1. Signals(stream) = {}
            BY <2>2 DEF Signals
        <3> QED
            BY <1>3, <3>1
    <2>3. ASSUME stream = <<>>, NEW e \in Signals(t.stream), e.kind = "OPEN"
          PROVE  e.pos.symbol \in Basket!Named(S)
        <3>1. e \in OpensOf(S)
            BY <2>2, <2>3 DEF ClosesOf, Send
        <3> QED
            BY <3>1 DEF OpensOf, Send, Basket!Named
    <2>4. ASSUME stream = <<>>, Basket!Repeats = {}, NEW p \in worker, p.id \notin spared'
          PROVE  \E e \in Signals(t.stream) : e.kind = "CLOSE" /\ e.pos.id = p.id
        <3>1. p \in B
            BY <1>2, <1>6, <2>4 DEF Closable
        <3>2. PICK e : e = Send("CLOSE", p)
            OBVIOUS
        <3>3. e \in Signals(t.stream) /\ e.kind = "CLOSE" /\ e.pos.id = p.id
            BY <2>2, <2>4, <3>1, <3>2 DEF ClosesOf, Send
        <3> QED
            BY <3>3
    <2>5. Swept'
        <3>1. (Basket!Named(held))' = Basket!Named(S) /\ Signals(stream)' = Signals(t.stream)
            BY <1>3, <1>6 DEF Basket!Named, Signals
        <3> QED
            BY <1>4, <1>6, <2>3, <2>4, <3>1 DEF Swept
    <2> QED
        BY <1>4, <2>1, <2>5 DEF BasketInv
<1> QED
    BY <1>4, <1>5, <1>6

\* Between scans.
LEMMA BasketUnmoved ==
    ASSUME BasketInv, UNCHANGED <<held, saved, stream, worker, faults, clean, spared, raised>>,
           Fine(Mind)'
    PROVE  BasketInv'
<1>1. BasketFine' /\ Exact'
    BY DEF BasketInv, BasketFine, Exact
<1>2. Swept'
    BY DEF BasketInv, Swept, Basket!Named
<1> QED
    BY <1>1, <1>2 DEF BasketInv

LEMMA MindMoved ==
    /\ (Mind.held)' = held' /\ (Mind.saved)' = saved' /\ (Mind.stream)' = stream'
    /\ (Mind.dropped)' = dropped' /\ IsMind(Mind)'
BY DEF Mind, IsMind

LEMMA BasketScan ==
    ASSUME IsFiniteSet(Basket!Symbols), BasketInv, Basket!Scan
    PROVE  BasketInv'
<1>0. BasketFine
    BY DEF BasketInv
<1>1. CASE Basket!Rebalance
    <2>1. PICK w \in Basket!Selections :
             \E v \in Basket!Pairings(w) :
                Basket!ApplySelection((Basket!CloseAll \o Basket!OpenAll(v)) \o <<Basket!Save>>)
        BY <1>1 DEF Basket!Rebalance
    <2>2. PICK v \in Basket!Pairings(w) :
             Basket!ApplySelection((Basket!CloseAll \o Basket!OpenAll(v)) \o <<Basket!Save>>)
        BY <2>1
    <2>3. DOMAIN v \in SUBSET Basket!Symbols
        <3>1. DOMAIN w \in SUBSET Basket!Symbols
            BY DEF Basket!Selections, Basket!Picked
        <3>2. v = w \/ \E drop : v = Basket!Trimmed(w, drop)
            BY <2>2 DEF Basket!Pairings
        <3> QED
            BY <3>1, <3>2 DEF Basket!Trimmed
    <2>4. IsFiniteSet(DOMAIN v)
        BY <2>3, FS_Subset
    <2>5. PICK plan : plan = (Basket!CloseAll \o Basket!OpenAll(v)) \o <<Save>>
        OBVIOUS
    <2>6. Steps(plan) /\ Basket!ApplySelection(plan)
        BY <1>0, <2>2, <2>4, <2>5, BasketPlans, BasketSteps
    <2>7. Rebalanced(AfterFrom(Mind, plan \o Basket!Processed), Chosen(v))
        BY <1>0, <2>4, <2>5, BasketRebalanced
    <2> QED
        BY <2>6, <2>7, BasketSettles
<1>2. CASE Basket!CloseOnly
    <2>1. PICK plan : plan = Basket!CloseAll \o <<Save>>
        OBVIOUS
    <2>2. Steps(plan) /\ Basket!ApplySelection(plan)
        BY <1>0, <1>2, <2>1, BasketPlans, BasketSteps DEF Basket!CloseOnly
    <2>3. Rebalanced(AfterFrom(Mind, plan \o Basket!Processed), {})
        BY <1>0, <2>1, BasketEmptied
    <2> QED
        BY <2>2, <2>3, BasketSettles
<1>3. CASE Basket!SkipCandle
    <2>1. PICK P : P = Basket!Processed
        OBVIOUS
    <2>2. Basket!Perform(P) /\ UNCHANGED <<clean, spared, raised>>
        BY <1>3, <2>1 DEF Basket!SkipCandle
    <2>3. P = <<Seen("bar"), Done("bar")>>
        BY <2>1, BasketSteps DEF Basket!Processed
    <2>4. \A k \in 1..Len(P) : P[k].do # "send"
        <3>1. PICK d, e : d = Seen("bar") /\ e = Done("bar")
            OBVIOUS
        <3>2. P = <<d, e>> /\ d.do # "send" /\ e.do # "send"
            BY <2>3, <3>1 DEF Seen, Done
        <3> QED
            BY <3>2
    <2>5. Basket!Becomes(Basket!AfterPlan(P)) /\ UNCHANGED <<worker, faults>>
        BY <2>2, <2>4, Zenon DEF Basket!Perform
    <2>6. PICK t : t = AfterFrom(Mind, P)
        OBVIOUS
    <2>7. Fine(t) /\ t.held = held /\ t.saved = saved /\ t.stream = stream
        BY <1>0, <2>1, <2>6, BasketProcessed, FineMind DEF BasketFine
    <2>8. Fine(Mind)' /\ UNCHANGED <<held, saved, stream>>
        BY <2>5, <2>6, <2>7, BasketAfter, BasketBecomes
    <2> QED
        BY <2>2, <2>5, <2>8, BasketUnmoved
<1> QED
    BY <1>1, <1>2, <1>3, Zenon DEF Basket!Scan

LEMMA BasketTakes ==
    ASSUME BasketInv, Basket!WorkerTakes, UNCHANGED <<clean, spared, raised>>
    PROVE  BasketInv'
<1>1. /\ stream # <<>> /\ worker' = Taken(worker, Head(stream)) /\ stream' = Tail(stream)
      /\ UNCHANGED <<held, saved, faults, dropped>>
    BY DEF Basket!WorkerTakes, Basket!Taken, Taken, Basket!Others, Others
<1>2. /\ IsPlan(stream) /\ IsFiniteSet(worker) /\ IsFiniteSet(held) /\ IsFiniteSet(saved)
      /\ ~ HashedIds /\ dropped = {}
    BY FineMind DEF BasketInv, BasketFine
<1>3. /\ IsPlan(stream') /\ Signals(stream) = Signals(stream') \cup {Head(stream)}
      /\ Settled(worker', stream') = Settled(worker, stream)
    BY <1>1, <1>2, SignalsTaken, SettledTaken
<1>4. PICK e : e = Head(stream)
    OBVIOUS
<1>5. /\ worker' \in SUBSET (worker \cup {e.pos})
      /\ \A p \in worker' : p \in worker \/ (e.kind = "OPEN" /\ p = e.pos)
      /\ e.kind = "CLOSE" => \A p \in worker' : p.id # e.pos.id
    BY <1>1, <1>4 DEF Taken, Others
<1>6. IsFiniteSet(worker')
    BY <1>2, <1>5, FS_AddElement, FS_Subset
<1>7. Fine(Mind)'
    BY <1>1, <1>2, <1>3, MindMoved DEF Fine
<1>8. Exact'
    BY <1>1, <1>3 DEF BasketInv, Exact
<1>9. Swept'
    <2>1. SUFFICES ASSUME clean PROVE
              /\ \A s \in Signals(stream') : s.kind = "OPEN" => s.pos.symbol \in Basket!Named(held)
              /\ \A p \in worker' :
                    \/ p.id \in spared \/ p.symbol \in Basket!Named(held)
                    \/ \E s \in Signals(stream') : s.kind = "CLOSE" /\ s.pos.id = p.id
        BY <1>1 DEF Swept, Basket!Named, Signals
    <2>2. /\ \A s \in Signals(stream) : s.kind = "OPEN" => s.pos.symbol \in Basket!Named(held)
          /\ \A p \in worker :
                \/ p.id \in spared \/ p.symbol \in Basket!Named(held)
                \/ \E s \in Signals(stream) : s.kind = "CLOSE" /\ s.pos.id = p.id
        BY <2>1 DEF BasketInv, Swept
    <2> QED
        BY <1>3, <1>4, <1>5, <2>2
<1> QED
    BY <1>6, <1>7, <1>8, <1>9 DEF BasketInv, BasketFine

LEMMA BasketWorkerCloses ==
    ASSUME BasketInv, Basket!WorkerCloses, UNCHANGED <<clean, spared, raised>>
    PROVE  BasketInv'
<1>1. /\ worker' \in SUBSET worker /\ faults' = faults + 1
      /\ UNCHANGED <<held, saved, stream, dropped>>
    BY DEF Basket!WorkerCloses
<1>2. IsFiniteSet(worker') /\ Fine(Mind)'
    <2>1. IsFiniteSet(worker) /\ Fine(Mind)
        BY DEF BasketInv, BasketFine
    <2> QED
        BY <1>1, <2>1, FS_Subset, FineMind, MindMoved DEF Fine
<1>3. Exact'
    BY <1>1 DEF BasketInv, Exact
<1>4. Swept'
    BY <1>1 DEF BasketInv, Swept, Basket!Named, Signals
<1> QED
    BY <1>2, <1>3, <1>4 DEF BasketInv, BasketFine

LEMMA BasketRestarts ==
    ASSUME BasketInv, Basket!Restart(Basket!LoadPositions), clean' = FALSE, UNCHANGED raised
    PROVE  BasketInv'
<1>1. /\ held' \in {worker, saved} /\ UNCHANGED <<saved, stream, worker, dropped>>
      /\ \/ stream = <<>> /\ faults' = faults
         \/ faults' = faults + 1
    BY DEF Basket!Restart, Basket!LoadPositions
<1>2. BasketFine'
    <2>1. /\ IsFiniteSet(worker) /\ IsFiniteSet(saved) /\ IsPlan(stream)
          /\ ~ HashedIds /\ dropped = {}
        BY FineMind DEF BasketInv, BasketFine
    <2> QED
        BY <1>1, <2>1, MindMoved DEF BasketFine, Fine
<1>3. Exact'
    <2>1. CASE faults' = faults + 1
        BY <2>1 DEF BasketInv, Exact
    <2>2. CASE stream = <<>> /\ faults' = faults
        <3>1. Settled(worker, stream) = worker
            BY <2>2, SettledDrained
        <3>2. faults = 0 => held = worker /\ saved = worker
            BY <3>1 DEF BasketInv, Exact
        <3> QED
            BY <1>1, <2>2, <3>1, <3>2 DEF BasketInv, Exact
    <2> QED
        BY <1>1, <2>1, <2>2
<1>4. Swept'
    BY DEF Swept
<1> QED
    BY <1>2, <1>3, <1>4 DEF BasketInv

LEMMA BasketInit ==
    ASSUME ~ HashedIds, Basket!Init PROVE BasketInv
<1>1. /\ clean = FALSE /\ raised = {} /\ faults = 0 /\ dropped = {}
      /\ held = {} /\ saved = {} /\ stream = <<>> /\ worker = {}
    BY DEF Basket!Init, Basket!StartBook
<1>2. IsPlan(stream)
    <2>1. \A q : q = <<>> => q \in Seq({})
        OBVIOUS
    <2> QED
        BY <1>1, <2>1 DEF IsPlan
<1>3. BasketFine
    BY <1>1, <1>2, FS_EmptySet, MindIsMind, FineMind DEF BasketFine, Fine
<1>4. Exact
    BY <1>1, SettledDrained DEF Exact
<1>5. Swept
    BY <1>1 DEF Swept
<1> QED
    BY <1>3, <1>4, <1>5 DEF BasketInv

LEMMA BasketNext ==
    ASSUME IsFiniteSet(Basket!Symbols), BasketInv, [Basket!Next]_Basket!basket
    PROVE  BasketInv'
<1>0. Fine(Mind)
    BY DEF BasketInv, BasketFine
<1>1. ASSUME UNCHANGED <<held, saved, stream, dropped>> PROVE Fine(Mind)'
    BY <1>0, <1>1, FineMind, MindMoved DEF Fine
<1>2. CASE UNCHANGED Basket!basket
    BY <1>1, <1>2, BasketUnmoved DEF Basket!basket, Basket!book
<1>3. CASE Basket!CandleCloses("bar", Basket!Bars) /\ UNCHANGED <<clean, spared, raised>>
    BY <1>1, <1>3, BasketUnmoved DEF Basket!CandleCloses
<1>4. CASE Basket!ShouldScan
    BY <1>1, <1>4, BasketUnmoved DEF Basket!ShouldScan, Basket!ShouldScanAfterEvent
<1> QED
    BY <1>2, <1>3, <1>4, BasketScan, BasketTakes, BasketWorkerCloses, BasketRestarts, Zenon
       DEF Basket!Next

\* Unless a send failed, a restart overtook a signal or the worker closed a position
\* itself, the worker holds exactly the basket once it has taken every signal: whatever
\* the selections and their pairing, each rebalance closes everything before it opens.
\* The ids of the basket strategies are random (uuid4).
THEOREM BasketConverges ==
    ASSUME IsFiniteSet(Basket!Symbols), ~ HashedIds PROVE Basket!Spec => []Converged
<1>1. BasketInv => Converged
    <2>1. ASSUME BasketInv, stream = <<>>, faults = 0 PROVE Ids(worker) = Ids(held) \ dropped
        <3>1. worker = held
            BY <2>1, SettledDrained DEF BasketInv, Exact
        <3>2. dropped = {}
            BY <2>1, FineMind DEF BasketInv, BasketFine
        <3> QED
            BY <3>1, <3>2
    <2> QED
        BY <2>1 DEF Converged
<1> QED
    BY <1>1, BasketInit, BasketNext, PTL DEF Basket!Spec

\* Whatever was lost before, once the signals of a rebalance that lost nothing (and no
\* CLOSE on an earlier try of its candle) are taken the worker holds no position of a symbol the strategy does not hold, but for those the
\* strategy then held under another name; the worker may close positions meanwhile.
THEOREM BasketNoOrphan ==
    ASSUME IsFiniteSet(Basket!Symbols), ~ HashedIds
    PROVE  Basket!Spec => []Basket!NoOrphanAfterRebalance
<1>1. BasketInv => Basket!NoOrphanAfterRebalance
    <2>1. ASSUME BasketInv, clean, stream = <<>>, NEW p \in worker, p.id \notin spared
          PROVE  p.symbol \in Basket!Named(held)
        <3>1. Signals(stream) = {}
            BY <2>1 DEF Signals
        <3> QED
            BY <2>1, <3>1 DEF BasketInv, Swept
    <2> QED
        BY <2>1 DEF Basket!NoOrphanAfterRebalance, Basket!Named
<1> QED
    BY <1>1, BasketInit, BasketNext, PTL DEF Basket!Spec

=============================================================================
