------------------------ MODULE StrategyBook_proofs ------------------------
(***************************************************************************)
(* What running a plan does, whatever the strategy: the facts about plans  *)
(* and about the signals the worker has yet to take that the proofs of the *)
(* strategies need.  A plan is run by a recursive function; that the       *)
(* function exists for every plan, and what it is worth for the parts of a *)
(* plan, is induction over the length, done here by the least              *)
(* counterexample.  The last section is about plans that may break off at  *)
(* any step: which entries they can have ordered by then.                  *)
(***************************************************************************)
EXTENDS StrategyBook, FiniteSetTheorems, SequenceTheorems, WellFoundedInduction, TLAPS

\* A nonempty set of natural numbers has a least element.
LEMMA LeastNat ==
    ASSUME NEW S \in SUBSET Nat, S # {}
    PROVE  \E n \in S : \A m \in S : n <= m
<1>1. PICK n \in S : \A m \in S : ~ (<<m, n>> \in OpToRel(<, Nat))
    BY NatLessThanWellFounded, WFMin, Zenon
<1>2. \A m \in S : ~ (m < n)
    BY <1>1 DEF OpToRel
<1> QED
    BY <1>2
-----------------------------------------------------------------------------
\* The course of a plan: the states of mind after each of its first n steps.
Course(f, s, plan, n) ==
    f = [k \in 0..n |-> IF k = 0 THEN s ELSE Performed(f[k - 1], plan[k])]

\* Every plan has a course, of every length.
LEMMA CourseExists ==
    ASSUME NEW s, NEW plan
    PROVE  \A n \in Nat : \E f : Course(f, s, plan, n)
<1> DEFINE bad == {n \in Nat : ~ \E f : Course(f, s, plan, n)}
<1>1. SUFFICES ASSUME bad # {} PROVE FALSE
    OBVIOUS
<1>2. PICK n \in bad : \A m \in bad : n <= m
    BY <1>1, LeastNat
<1>3. CASE n = 0
    <2> DEFINE f == [k \in 0..0 |-> s]
    <2>1. Course(f, s, plan, 0)
        BY DEF Course
    <2> QED
        BY <1>2, <1>3, <2>1
<1>4. CASE n # 0
    <2>1. n - 1 \in Nat /\ n - 1 \notin bad
        BY <1>2, <1>4
    <2>2. PICK g : Course(g, s, plan, n - 1)
        BY <2>1
    <2> DEFINE f == [k \in 0..n |-> IF k = n THEN Performed(g[n - 1], plan[n]) ELSE g[k]]
               h == [k \in 0..n |-> IF k = 0 THEN s ELSE Performed(f[k - 1], plan[k])]
    <2>3. \A k \in 0..n - 1 : g[k] = IF k = 0 THEN s ELSE Performed(g[k - 1], plan[k])
        BY <2>2 DEF Course
    <2>4. ASSUME NEW k \in 0..n PROVE f[k] = h[k]
        BY <2>3, <1>4
    <2>5. Course(f, s, plan, n)
        BY <2>4, Zenon DEF Course
    <2> QED
        BY <1>2, <2>5
<1> QED
    BY <1>3, <1>4

\* A function that follows the steps of a plan ends in what the plan ends in.
LEMMA Follows ==
    ASSUME NEW s, NEW plan, NEW n \in Nat, Len(plan) = n, NEW f,
           f[0] = s, \A k \in 1..n : f[k] = Performed(f[k - 1], plan[k])
    PROVE  AfterFrom(s, plan) = f[n]
<1> DEFINE g == CHOOSE c : Course(c, s, plan, n)
           bad == {k \in 0..n : g[k] # f[k]}
<1>1. Course(g, s, plan, n)
    BY CourseExists
<1>2. AfterFrom(s, plan) = g[n]
    BY DEF AfterFrom, Course
<1>3. \A k \in 0..n : g[k] = IF k = 0 THEN s ELSE Performed(g[k - 1], plan[k])
    BY <1>1 DEF Course
<1> HIDE DEF g
<1>4. ASSUME bad # {} PROVE FALSE
    <2>1. bad \in SUBSET Nat
        OBVIOUS
    <2>2. PICK k \in bad : \A m \in bad : k <= m
        BY <1>4, <2>1, LeastNat
    <2>3. k # 0
        BY <1>3, <2>2
    <2>4. k - 1 \in 0..n /\ k - 1 \notin bad
        BY <2>2, <2>3
    <2>5. g[k - 1] = f[k - 1] /\ k \in 1..n
        BY <2>4, <2>2, <2>3
    <2> QED
        BY <1>3, <2>2, <2>5
<1> QED
    BY <1>2, <1>4

-----------------------------------------------------------------------------
\* A sequence of steps, of whatever kind.
IsPlan(plan) == \E S : plan \in Seq(S)

\* A plan has a length, and the parts of a concatenation lie side by side in it.
LEMMA PlanParts ==
    ASSUME NEW p, NEW q, IsPlan(p), IsPlan(q)
    PROVE  /\ IsPlan(p \o q)
           /\ Len(p) \in Nat /\ Len(q) \in Nat /\ Len(p \o q) = Len(p) + Len(q)
           /\ \A k \in 1..Len(p) : (p \o q)[k] = p[k]
           /\ \A k \in 1..Len(q) : (p \o q)[Len(p) + k] = q[k]
<1>1. PICK A : p \in Seq(A)
    BY DEF IsPlan
<1>2. PICK B : q \in Seq(B)
    BY DEF IsPlan
<1>3. p \in Seq(A \cup B) /\ q \in Seq(A \cup B)
    BY <1>1, <1>2, SeqMonotonic
<1>4. p \o q \in Seq(A \cup B)
    BY <1>3
<1>5. /\ Len(p) \in Nat /\ Len(q) \in Nat /\ Len(p \o q) = Len(p) + Len(q)
      /\ \A k \in 1..Len(p) : (p \o q)[k] = p[k]
      /\ \A k \in 1..Len(q) : (p \o q)[Len(p) + k] = q[k]
    BY <1>3
<1> QED
    BY <1>4, <1>5 DEF IsPlan

\* A scan that does nothing leaves the mind as it is; running two plans one after
\* the other is running their concatenation.
LEMMA AfterNothing ==
    ASSUME NEW s PROVE AfterFrom(s, <<>>) = s
<1> DEFINE f == [k \in 0..0 |-> s]
<1>1. f[0] = s /\ (\A k \in 1..0 : f[k] = Performed(f[k - 1], <<>>[k])) /\ Len(<<>>) = 0
    OBVIOUS
<1> HIDE DEF f
<1> QED
    BY <1>1, Follows

LEMMA AfterBoth ==
    ASSUME NEW s, NEW p, NEW q, IsPlan(p), IsPlan(q)
    PROVE  AfterFrom(s, p \o q) = AfterFrom(AfterFrom(s, p), q)
<1> DEFINE m == Len(p)
           n == Len(q)
<1>1. m \in Nat /\ n \in Nat
    BY PlanParts
<1>2. PICK f : Course(f, s, p, m)
    BY <1>1, CourseExists
<1>3. \A k \in 0..m : f[k] = IF k = 0 THEN s ELSE Performed(f[k - 1], p[k])
    BY <1>1, <1>2 DEF Course
<1>4. AfterFrom(s, p) = f[m]
    <2>1. f[0] = s /\ \A k \in 1..m : f[k] = Performed(f[k - 1], p[k])
        BY <1>1, <1>3
    <2> QED
        BY <1>1, <2>1, Follows
<1>5. PICK g : Course(g, f[m], q, n)
    BY <1>1, CourseExists
<1>6. \A k \in 0..n : g[k] = IF k = 0 THEN f[m] ELSE Performed(g[k - 1], q[k])
    BY <1>1, <1>5 DEF Course
<1>7. AfterFrom(f[m], q) = g[n]
    <2>1. g[0] = f[m] /\ \A k \in 1..n : g[k] = Performed(g[k - 1], q[k])
        BY <1>1, <1>6
    <2> QED
        BY <1>1, <2>1, Follows
<1>h. PICK h : h = [k \in 0..m + n |-> IF k <= m THEN f[k] ELSE g[k - m]]
    OBVIOUS
<1>8. h[0] = s
    BY <1>1, <1>3, <1>h
<1>9. ASSUME NEW k \in 1..m + n PROVE h[k] = Performed(h[k - 1], (p \o q)[k])
    <2>1. CASE k <= m
        <3>1. h[k] = f[k] /\ h[k - 1] = f[k - 1] /\ k \in 1..m
            BY <1>1, <2>1, <1>h
        <3> QED
            BY <1>1, <1>3, <3>1, PlanParts
    <2>2. CASE k > m
        <3>1. k - m \in 1..n /\ h[k] = g[k - m]
            BY <1>1, <2>2, <1>h
        <3>2. h[k - 1] = g[k - m - 1]
            <4>1. CASE k = m + 1
                BY <1>1, <1>6, <4>1, <1>h
            <4>2. CASE k # m + 1
                BY <1>1, <2>2, <4>2, <1>h
            <4> QED
                BY <4>1, <4>2
        <3>3. (p \o q)[k] = q[k - m]
            <4>1. (p \o q)[m + (k - m)] = q[k - m]
                BY <3>1, PlanParts
            <4> QED
                BY <1>1, <4>1
        <3>4. g[k - m] = Performed(g[k - m - 1], q[k - m])
            BY <1>1, <1>6, <3>1
        <3> QED
            BY <3>1, <3>2, <3>3, <3>4
    <2> QED
        BY <1>1, <2>1, <2>2
<1>10. h[m + n] = g[n]
    BY <1>1, <1>6, <1>h
<1>11. m + n \in Nat /\ Len(p \o q) = m + n
    BY <1>1, PlanParts
<1> HIDE DEF m, n
<1>12. AfterFrom(s, p \o q) = h[m + n]
    <2>1. PICK c : c = p \o q
        OBVIOUS
    <2>2. Len(c) = m + n /\ \A k \in 1..m + n : h[k] = Performed(h[k - 1], c[k])
        BY <1>9, <1>11, <2>1, Zenon
    <2>3. AfterFrom(s, c) = h[m + n]
        BY <1>8, <1>11, <2>2, Follows
    <2> QED
        BY <2>1, <2>3, Zenon
<1> QED
    BY <1>4, <1>7, <1>10, <1>12

\* The plans of one step and of two.
LEMMA AfterOne ==
    ASSUME NEW s, NEW a
    PROVE  IsPlan(<<a>>) /\ AfterFrom(s, <<a>>) = Performed(s, a)
<1>0. PICK f : f = [k \in 0..1 |-> IF k = 0 THEN s ELSE Performed(s, a)]
    OBVIOUS
<1>c. PICK c : c = <<a>>
    OBVIOUS
<1>n. PICK n \in Nat : n = 1
    OBVIOUS
<1>1. /\ f[0] = s /\ Len(c) = n /\ f[1] = Performed(s, a)
      /\ \A k \in 1..n : f[k] = Performed(f[k - 1], c[k])
    BY <1>0, <1>c, <1>n
<1>2. IsPlan(<<a>>)
    BY <<a>> \in Seq({a}) DEF IsPlan
<1>3. AfterFrom(s, c) = f[n]
    BY <1>1, Follows
<1> QED
    BY <1>c, <1>n, <1>1, <1>2, <1>3, Zenon

LEMMA AfterTwo ==
    ASSUME NEW s, NEW a, NEW b
    PROVE  IsPlan(<<a, b>>) /\ AfterFrom(s, <<a, b>>) = Performed(Performed(s, a), b)
<1>0. PICK f : f = [k \in 0..2 |-> IF k = 0 THEN s ELSE IF k = 1 THEN Performed(s, a)
                                   ELSE Performed(Performed(s, a), b)]
    OBVIOUS
<1>c. PICK c : c = <<a, b>>
    OBVIOUS
<1>n. PICK n \in Nat : n = 2
    OBVIOUS
<1>1. /\ f[0] = s /\ Len(c) = n /\ f[2] = Performed(Performed(s, a), b)
      /\ \A k \in 1..n : f[k] = Performed(f[k - 1], c[k])
    BY <1>0, <1>c, <1>n
<1>2. IsPlan(<<a, b>>)
    BY <<a, b>> \in Seq({a, b}) DEF IsPlan
<1>3. AfterFrom(s, c) = f[n]
    BY <1>1, Follows
<1> QED
    BY <1>c, <1>n, <1>1, <1>2, <1>3, Zenon

\* A plan written out is the plan without its last step, then that step.
LEMMA TwoInTurn ==
    ASSUME NEW a, NEW b
    PROVE  <<a, b>> = <<a>> \o <<b>>
<1>1. PICK S : S = {a, b}
    OBVIOUS
<1>2. PICK p : p = <<a>>
    OBVIOUS
<1>3. PICK q : q = <<b>>
    OBVIOUS
<1>5. PICK t : t = <<a, b>>
    OBVIOUS
<1>6. t \in Seq(S) /\ Len(t) = 2 /\ t[1] = a /\ t[2] = b
    BY <1>1, <1>5
<1>7. p \in Seq(S) /\ Len(p) = 1 /\ p[1] = a
    BY <1>1, <1>2
<1>8. q \in Seq(S) /\ Len(q) = 1 /\ q[1] = b
    BY <1>1, <1>3
<1>4. /\ p \o q \in Seq(S) /\ Len(p \o q) = 2
      /\ (p \o q)[1] = a /\ (p \o q)[2] = b
    BY <1>7, <1>8, ConcatProperties, SMT
<1>9. t = p \o q
    BY <1>6, <1>4, SeqEqual
<1> QED
    BY <1>2, <1>3, <1>5, <1>9

LEMMA ThreeInTurn ==
    ASSUME NEW a, NEW b, NEW c
    PROVE  <<a, b, c>> = <<a, b>> \o <<c>>
<1> DEFINE S == {a, b, c}
<1>1. <<a, b, c>> \in Seq(S) /\ <<a, b>> \in Seq(S) /\ <<c>> \in Seq(S)
    OBVIOUS
<1>2. PICK p : p = <<a, b>>
    OBVIOUS
<1>3. PICK q : q = <<c>>
    OBVIOUS
<1>4. /\ p \o q \in Seq(S) /\ Len(p \o q) = 3
      /\ (p \o q)[1] = a /\ (p \o q)[2] = b /\ (p \o q)[3] = c
    BY <1>1, <1>2, <1>3, ConcatProperties, SMT
<1> QED
    BY <1>1, <1>2, <1>3, <1>4, SeqEqual

LEMMA FourInTurn ==
    ASSUME NEW a, NEW b, NEW c, NEW d
    PROVE  <<a, b, c, d>> = <<a, b>> \o <<c, d>>
<1> DEFINE S == {a, b, c, d}
<1>1. <<a, b, c, d>> \in Seq(S) /\ <<a, b>> \in Seq(S) /\ <<c, d>> \in Seq(S)
    OBVIOUS
<1>2. PICK p : p = <<a, b>>
    OBVIOUS
<1>3. PICK q : q = <<c, d>>
    OBVIOUS
<1>4. /\ p \o q \in Seq(S) /\ Len(p \o q) = 4
      /\ (p \o q)[1] = a /\ (p \o q)[2] = b /\ (p \o q)[3] = c /\ (p \o q)[4] = d
    BY <1>1, <1>2, <1>3, ConcatProperties, SMT
<1> QED
    BY <1>1, <1>2, <1>3, <1>4, SeqEqual
-----------------------------------------------------------------------------
\* What the worker will hold once it has taken every signal of q.
Settled(W, q) ==
    LET after[k \in 0..Len(q)] == IF k = 0 THEN W ELSE Taken(after[k - 1], q[k])
    IN after[Len(q)]

Taking(f, W, q, n) == f = [k \in 0..n |-> IF k = 0 THEN W ELSE Taken(f[k - 1], q[k])]

LEMMA TakingExists ==
    ASSUME NEW W, NEW q
    PROVE  \A n \in Nat : \E f : Taking(f, W, q, n)
<1> DEFINE bad == {n \in Nat : ~ \E f : Taking(f, W, q, n)}
<1>1. SUFFICES ASSUME bad # {} PROVE FALSE
    OBVIOUS
<1>2. PICK n \in bad : \A m \in bad : n <= m
    BY <1>1, LeastNat
<1>3. CASE n = 0
    <2> DEFINE f == [k \in 0..0 |-> W]
    <2>1. Taking(f, W, q, 0)
        BY DEF Taking
    <2> QED
        BY <1>2, <1>3, <2>1
<1>4. CASE n # 0
    <2>1. n - 1 \in Nat /\ n - 1 \notin bad
        BY <1>2, <1>4
    <2>2. PICK g : Taking(g, W, q, n - 1)
        BY <2>1
    <2> DEFINE f == [k \in 0..n |-> IF k = n THEN Taken(g[n - 1], q[n]) ELSE g[k]]
               h == [k \in 0..n |-> IF k = 0 THEN W ELSE Taken(f[k - 1], q[k])]
    <2>3. \A k \in 0..n - 1 : g[k] = IF k = 0 THEN W ELSE Taken(g[k - 1], q[k])
        BY <2>2 DEF Taking
    <2>4. ASSUME NEW k \in 0..n PROVE f[k] = h[k]
        BY <2>3, <1>4
    <2>5. Taking(f, W, q, n)
        BY <2>4, Zenon DEF Taking
    <2> QED
        BY <1>2, <2>5
<1> QED
    BY <1>3, <1>4

\* A function that follows the signals ends in what they settle in.
LEMMA Settles ==
    ASSUME NEW W, NEW q, NEW n \in Nat, Len(q) = n, NEW f,
           f[0] = W, \A k \in 1..n : f[k] = Taken(f[k - 1], q[k])
    PROVE  Settled(W, q) = f[n]
<1> DEFINE g == CHOOSE c : Taking(c, W, q, n)
           bad == {k \in 0..n : g[k] # f[k]}
<1>1. Taking(g, W, q, n)
    BY TakingExists
<1>2. Settled(W, q) = g[n]
    BY DEF Settled, Taking
<1>3. \A k \in 0..n : g[k] = IF k = 0 THEN W ELSE Taken(g[k - 1], q[k])
    BY <1>1 DEF Taking
<1> HIDE DEF g
<1>4. ASSUME bad # {} PROVE FALSE
    <2>1. bad \in SUBSET Nat
        OBVIOUS
    <2>2. PICK k \in bad : \A m \in bad : k <= m
        BY <1>4, <2>1, LeastNat
    <2>3. k # 0
        BY <1>3, <2>2
    <2>4. k - 1 \in 0..n /\ k - 1 \notin bad
        BY <2>2, <2>3
    <2>5. g[k - 1] = f[k - 1] /\ k \in 1..n
        BY <2>4, <2>2, <2>3
    <2> QED
        BY <1>3, <2>2, <2>5
<1> QED
    BY <1>2, <1>4

\* The worker has settled once the stream is drained.
LEMMA SettledDrained ==
    ASSUME NEW W PROVE Settled(W, <<>>) = W
<1>0. PICK f : f = [k \in 0..0 |-> W]
    OBVIOUS
<1>c. PICK c : c = <<>>
    OBVIOUS
<1>1. f[0] = W /\ (\A k \in 1..0 : f[k] = Taken(f[k - 1], c[k])) /\ Len(c) = 0
    BY <1>0, <1>c
<1>2. Settled(W, c) = f[0]
    BY <1>1, Settles
<1> QED
    BY <1>c, <1>1, <1>2, Zenon

\* A signal sent now is the last one the worker takes.
LEMMA SettledSent ==
    ASSUME NEW W, NEW q, IsPlan(q), NEW e
    PROVE  IsPlan(Append(q, e)) /\ Settled(W, Append(q, e)) = Taken(Settled(W, q), e)
<1>1. PICK S : q \in Seq(S)
    BY DEF IsPlan
<1>2. PICK n \in Nat : n = Len(q)
    BY <1>1
<1>3. PICK c : c = Append(q, e)
    OBVIOUS
<1>4. q \in Seq(S \cup {e})
    BY <1>1, SeqMonotonic
<1>5. /\ c \in Seq(S \cup {e}) /\ Len(c) = n + 1 /\ c[n + 1] = e
      /\ \A k \in 1..n : c[k] = q[k]
    BY <1>2, <1>3, <1>4
<1>6. PICK f : Taking(f, W, q, n)
    BY TakingExists
<1>7. \A k \in 0..n : f[k] = IF k = 0 THEN W ELSE Taken(f[k - 1], q[k])
    BY <1>6 DEF Taking
<1>8. Settled(W, q) = f[n]
    <2>1. f[0] = W /\ \A k \in 1..n : f[k] = Taken(f[k - 1], q[k])
        BY <1>7
    <2> QED
        BY <1>2, <2>1, Settles
<1>9. PICK h : h = [k \in 0..n + 1 |-> IF k <= n THEN f[k] ELSE Taken(f[n], e)]
    OBVIOUS
<1>10. PICK m \in Nat : m = n + 1
    OBVIOUS
<1>11. h[0] = W /\ h[m] = Taken(f[n], e)
    BY <1>7, <1>9, <1>10
<1>12. ASSUME NEW k \in 1..m PROVE h[k] = Taken(h[k - 1], c[k])
    <2>1. CASE k <= n
        <3>1. h[k] = f[k] /\ h[k - 1] = f[k - 1] /\ c[k] = q[k] /\ k \in 1..n
            BY <1>5, <1>9, <1>10, <2>1
        <3> QED
            BY <1>7, <3>1
    <2>2. CASE k = n + 1
        <3>1. h[k] = Taken(f[n], e) /\ h[k - 1] = f[n] /\ c[k] = e
            BY <1>5, <1>9, <1>10, <2>2
        <3> QED
            BY <3>1
    <2> QED
        BY <1>10, <2>1, <2>2
<1>13. Settled(W, c) = h[m]
    BY <1>5, <1>10, <1>11, <1>12, Settles
<1> QED
    BY <1>3, <1>5, <1>8, <1>11, <1>13, Zenon DEF IsPlan

\* What the worker settles in does not change when it takes the next signal.
LEMMA SettledTaken ==
    ASSUME NEW W, NEW q, IsPlan(q), q # <<>>
    PROVE  IsPlan(Tail(q)) /\ Settled(Taken(W, Head(q)), Tail(q)) = Settled(W, q)
<1>1. PICK S : q \in Seq(S)
    BY DEF IsPlan
<1>2. PICK n \in Nat : Len(q) = n + 1
    <2>1. Len(q) \in Nat /\ Len(q) # 0
        BY <1>1
    <2> QED
        BY <2>1, Len(q) - 1 \in Nat
<1>3. PICK c : c = Tail(q)
    OBVIOUS
<1>4. /\ c \in Seq(S) /\ Len(c) = n /\ Head(q) = q[1]
      /\ \A k \in 1..n : c[k] = q[k + 1]
    BY <1>1, <1>2, <1>3
<1>5. PICK m \in Nat : m = n + 1
    OBVIOUS
<1>6. PICK f : Taking(f, W, q, m)
    BY TakingExists
<1>7. \A k \in 0..m : f[k] = IF k = 0 THEN W ELSE Taken(f[k - 1], q[k])
    BY <1>6 DEF Taking
<1>8. Settled(W, q) = f[m]
    <2>1. f[0] = W /\ \A k \in 1..m : f[k] = Taken(f[k - 1], q[k])
        BY <1>7
    <2>2. Len(q) = m
        BY <1>2, <1>5
    <2> QED
        BY <2>1, <2>2, Settles
<1>9. PICK h : h = [k \in 0..n |-> f[k + 1]]
    OBVIOUS
<1>10. PICK V : V = Taken(W, Head(q))
    OBVIOUS
<1>11. h[0] = V /\ h[n] = f[m]
    <2>1. f[0] = W /\ 1 \in 0..m /\ f[1] = Taken(f[0], q[1])
        BY <1>5, <1>7
    <2>2. f[1] = V
        BY <1>4, <1>10, <2>1, Zenon
    <2> QED
        BY <1>5, <1>9, <2>2
<1>12. ASSUME NEW k \in 1..n PROVE h[k] = Taken(h[k - 1], c[k])
    <2>1. h[k] = f[k + 1] /\ h[k - 1] = f[k] /\ c[k] = q[k + 1] /\ k + 1 \in 1..m
        BY <1>4, <1>5, <1>9
    <2>2. f[k + 1] = Taken(f[k], q[k + 1])
        BY <1>7, <2>1
    <2> QED
        BY <2>1, <2>2
<1>13. Settled(V, c) = h[n]
    <2>1. Len(c) = n /\ h[0] = V /\ \A k \in 1..n : h[k] = Taken(h[k - 1], c[k])
        BY <1>4, <1>11, <1>12, Zenon
    <2>2. ASSUME NEW U, NEW d, Len(d) = n, NEW g, g[0] = U,
                 \A k \in 1..n : g[k] = Taken(g[k - 1], d[k])
          PROVE  Settled(U, d) = g[n]
        BY <2>2, Settles
    <2> QED
        BY <2>1, <2>2
<1> QED
    BY <1>3, <1>4, <1>8, <1>10, <1>11, <1>13, Zenon DEF IsPlan

-----------------------------------------------------------------------------
\* The mind of a strategy is one record, whatever it holds.
IsMind(s) ==
    \E h, sv, st, tr, pe, la, re, dr :
        s = [held |-> h, saved |-> sv, stream |-> st, trend |-> tr, pending |-> pe, last |-> la,
             remembered |-> re, dropped |-> dr]

\* Nothing was sent in between that the dispatcher remembers.
SameMemory(s, t) == t.remembered = s.remembered /\ t.dropped = s.dropped

\* The OPEN of p goes to the stream and is remembered, or it is a repeat.
Goes(s, p, t) ==
    /\ t.stream = Append(s.stream, Send("OPEN", p))
    /\ HashedIds => p.id \notin s.remembered
    /\ t.remembered = s.remembered \cup {p.id} /\ t.dropped = s.dropped
Repeats(s, p, t) ==
    /\ t.stream = s.stream /\ HashedIds /\ p.id \in s.remembered
    /\ t.remembered = s.remembered /\ t.dropped = s.dropped \cup {p.id}

LEMMA MindIsMind == IsMind(Mind)
BY DEF IsMind, Mind

\* What each step does to the mind.
LEMMA AfterSend ==
    ASSUME NEW s, IsMind(s), NEW kind, NEW p
    PROVE  LET t == Performed(s, Send(kind, p))
           IN /\ IsMind(t)
              /\ t.held = s.held /\ t.saved = s.saved /\ t.trend = s.trend
              /\ t.last = s.last /\ t.pending = s.pending
              /\ kind # "OPEN" => t.stream = Append(s.stream, Send(kind, p)) /\ SameMemory(s, t)
              /\ kind = "OPEN" => Goes(s, p, t) \/ Repeats(s, p, t)
<1>1. PICK e : e = Send(kind, p)
    OBVIOUS
<1>2. e.do = "send" /\ e.kind = kind /\ e.pos = p
    BY <1>1 DEF Send
<1>3. PICK t : t = Performed(s, e)
    OBVIOUS
<1>4. t = Dispatched(s, e)
    BY <1>2, <1>3 DEF Performed
<1>5. CASE Repeated(s, e)
    <2>1. kind = "OPEN" /\ HashedIds /\ p.id \in s.remembered
        BY <1>2, <1>5 DEF Repeated
    <2>2. t = [s EXCEPT !.dropped = @ \cup {p.id}]
        BY <1>2, <1>4, <1>5 DEF Dispatched
    <2>3. IsMind(t) /\ t.held = s.held /\ t.saved = s.saved /\ t.trend = s.trend
          /\ t.last = s.last /\ t.pending = s.pending
          /\ t.stream = s.stream /\ t.remembered = s.remembered
          /\ t.dropped = s.dropped \cup {p.id}
        BY <2>2 DEF IsMind
    <2> QED
        BY <1>1, <1>3, <2>1, <2>3 DEF Repeats
<1>6. CASE ~ Repeated(s, e) /\ kind = "OPEN"
    <2>1. HashedIds => p.id \notin s.remembered
        BY <1>2, <1>6 DEF Repeated
    <2>2. t = [[s EXCEPT !.remembered = @ \cup {p.id}] EXCEPT !.stream = Append(@, e)]
        BY <1>2, <1>4, <1>6 DEF Dispatched, Remembering
    <2>3. IsMind(t) /\ t.held = s.held /\ t.saved = s.saved /\ t.trend = s.trend
          /\ t.last = s.last /\ t.pending = s.pending
          /\ t.stream = Append(s.stream, e) /\ t.remembered = s.remembered \cup {p.id}
          /\ t.dropped = s.dropped
        BY <2>2 DEF IsMind
    <2> QED
        BY <1>1, <1>3, <1>6, <2>1, <2>3 DEF Goes
<1>7. CASE ~ Repeated(s, e) /\ kind # "OPEN"
    <2>1. t = [s EXCEPT !.stream = Append(@, e)]
        BY <1>2, <1>4, <1>7 DEF Dispatched, Remembering
    <2>2. IsMind(t) /\ t.held = s.held /\ t.saved = s.saved /\ t.trend = s.trend
          /\ t.last = s.last /\ t.pending = s.pending
          /\ t.stream = Append(s.stream, e) /\ SameMemory(s, t)
        BY <2>1 DEF IsMind, SameMemory
    <2> QED
        BY <1>1, <1>3, <1>7, <2>2
<1> QED
    BY <1>5, <1>6, <1>7

LEMMA AfterKeep ==
    ASSUME NEW s, IsMind(s), NEW p
    PROVE  LET t == Performed(s, Keep(p))
           IN /\ IsMind(t) /\ SameMemory(s, t) /\ t.held = Others(s.held, p) \cup {p}
              /\ t.stream = s.stream /\ t.saved = s.saved /\ t.trend = s.trend
<1>1. Performed(s, Keep(p)) = [s EXCEPT !.held = Others(@, p) \cup {p}]
    BY DEF Performed, Keep
<1> QED
    BY <1>1 DEF IsMind, SameMemory

LEMMA AfterDrop ==
    ASSUME NEW s, IsMind(s), NEW p
    PROVE  LET t == Performed(s, Drop(p))
           IN /\ IsMind(t) /\ SameMemory(s, t) /\ t.held = Others(s.held, p)
              /\ t.stream = s.stream /\ t.saved = s.saved /\ t.trend = s.trend
<1>1. Performed(s, Drop(p)) = [s EXCEPT !.held = Others(@, p)]
    BY DEF Performed, Drop
<1> QED
    BY <1>1 DEF IsMind, SameMemory

LEMMA AfterTurn ==
    ASSUME NEW s, IsMind(s), NEW d
    PROVE  LET t == Performed(s, Turn(d))
           IN /\ IsMind(t) /\ SameMemory(s, t) /\ t.trend = d
              /\ t.held = s.held /\ t.stream = s.stream /\ t.saved = s.saved
<1>1. Performed(s, Turn(d)) = [s EXCEPT !.trend = d]
    BY DEF Performed, Turn
<1> QED
    BY <1>1 DEF IsMind, SameMemory

\* A candle seen or a request done changes nothing of the book.
LEMMA AfterSeen ==
    ASSUME NEW s, IsMind(s), NEW f
    PROVE  LET t == Performed(s, Seen(f))
           IN /\ IsMind(t) /\ SameMemory(s, t) /\ t.trend = s.trend
              /\ t.held = s.held /\ t.stream = s.stream /\ t.saved = s.saved
<1>1. PICK v : Performed(s, Seen(f)) = [s EXCEPT !.last = v]
    BY DEF Performed, Seen
<1> QED
    BY <1>1 DEF IsMind, SameMemory

LEMMA AfterDone ==
    ASSUME NEW s, IsMind(s), NEW f
    PROVE  LET t == Performed(s, Done(f))
           IN /\ IsMind(t) /\ SameMemory(s, t) /\ t.trend = s.trend
              /\ t.held = s.held /\ t.stream = s.stream /\ t.saved = s.saved
<1>1. PICK v : Performed(s, Done(f)) = [s EXCEPT !.pending = v]
    BY DEF Performed, Done
<1> QED
    BY <1>1 DEF IsMind, SameMemory

LEMMA AfterSave ==
    ASSUME NEW s, IsMind(s)
    PROVE  LET t == Performed(s, Save)
           IN /\ IsMind(t) /\ SameMemory(s, t) /\ t.saved = s.held
              /\ t.held = s.held /\ t.stream = s.stream /\ t.trend = s.trend
<1>1. Performed(s, Save) = [s EXCEPT !.saved = s.held]
    BY DEF Performed, Save
<1> QED
    BY <1>1 DEF IsMind, SameMemory
-----------------------------------------------------------------------------
Single(S) == \A p, q \in S : p = q

\* A position of the symbol sym, whatever else it records.
Named(p, sym) == {"id", "symbol", "side"} \subseteq DOMAIN p /\ p.symbol = sym

\* What was taken for a repeat is remembered.
Recalls(s) == s.dropped \subseteq s.remembered /\ (HashedIds \/ s.dropped = {})

\* A mind that the worker W will agree with: once it has taken the stream, W holds
\* one position at most, of the symbol sym, and it is the one the strategy holds,
\* unless that was taken for a repeat.
Agreed(W, s, sym) ==
    /\ IsMind(s) /\ IsPlan(s.stream) /\ Recalls(s)
    /\ Single(s.held) /\ Single(Settled(W, s.stream))
    /\ Ids(s.held) \ s.dropped = Ids(Settled(W, s.stream))
    /\ \A p \in s.held \cup Settled(W, s.stream) : Named(p, sym)

\* A turn of the trend, a candle seen and a request done leave the agreement alone.
LEMMA QuietAgreed ==
    ASSUME NEW W, NEW sym, NEW s, Agreed(W, s, sym),
           NEW t, IsMind(t), SameMemory(s, t), t.held = s.held, t.stream = s.stream
    PROVE  Agreed(W, t, sym)
BY DEF Agreed, SameMemory, Recalls

\* The runtime of the position the strategy holds may change, not its name.
LEMMA KeepAgreed ==
    ASSUME NEW W, NEW sym, NEW s, Agreed(W, s, sym),
           NEW p \in s.held, NEW q, q.id = p.id, Named(q, sym)
    PROVE  LET t == AfterFrom(s, <<Keep(q)>>)
           IN /\ Agreed(W, t, sym) /\ t.held = {q}
              /\ t.trend = s.trend /\ t.saved = s.saved
<1>1. PICK t : t = Performed(s, Keep(q))
    OBVIOUS
<1>2. /\ IsMind(t) /\ SameMemory(s, t) /\ t.held = Others(s.held, q) \cup {q}
      /\ t.stream = s.stream /\ t.saved = s.saved /\ t.trend = s.trend
    <2>1. IsMind(s)
        BY DEF Agreed
    <2> QED
        BY <1>1, <2>1, AfterKeep
<1>3. s.held = {p}
    BY DEF Agreed, Single
<1>4. t.held = {q}
    BY <1>2, <1>3 DEF Others
<1>5. Ids(t.held) = Ids(s.held)
    BY <1>3, <1>4 DEF Ids
<1>6. Agreed(W, t, sym)
    BY <1>2, <1>3, <1>4, <1>5 DEF Agreed, Single, SameMemory, Recalls
<1>7. AfterFrom(s, <<Keep(q)>>) = t
    BY <1>1, AfterOne
<1> QED
    BY <1>2, <1>4, <1>6, <1>7

\* A MODIFY changes neither the positions of the strategy nor those of the worker.
LEMMA ModifyAgreed ==
    ASSUME NEW W, NEW sym, NEW s, Agreed(W, s, sym), NEW p
    PROVE  LET t == AfterFrom(s, <<Send("MODIFY", p)>>)
           IN /\ Agreed(W, t, sym) /\ t.held = s.held
              /\ t.trend = s.trend /\ t.saved = s.saved
<1>0. IsMind(s) /\ IsPlan(s.stream)
    BY DEF Agreed
<1>1. PICK t : t = Performed(s, Send("MODIFY", p))
    OBVIOUS
<1>2. /\ IsMind(t) /\ SameMemory(s, t) /\ t.stream = Append(s.stream, Send("MODIFY", p))
      /\ t.held = s.held /\ t.saved = s.saved /\ t.trend = s.trend
    BY <1>0, <1>1, AfterSend
<1>3. Taken(Settled(W, s.stream), Send("MODIFY", p)) = Settled(W, s.stream)
    BY DEF Taken, Send
<1>4. IsPlan(t.stream) /\ Settled(W, t.stream) = Settled(W, s.stream)
    <2>1. PICK e : e = Send("MODIFY", p)
        OBVIOUS
    <2> QED
        BY <1>0, <1>2, <1>3, <2>1, SettledSent
<1>5. Agreed(W, t, sym)
    BY <1>2, <1>4 DEF Agreed, SameMemory, Recalls
<1>6. AfterFrom(s, <<Send("MODIFY", p)>>) = t
    BY <1>1, AfterOne
<1> QED
    BY <1>2, <1>5, <1>6

\* A CLOSE that is followed by forgetting the position.
LEMMA CloseAgreed ==
    ASSUME NEW W, NEW sym, NEW s, Agreed(W, s, sym), NEW p
    PROVE  LET t == AfterFrom(s, <<Send("CLOSE", p), Drop(p)>>)
           IN /\ Agreed(W, t, sym) /\ t.held = Others(s.held, p)
              /\ t.trend = s.trend /\ t.saved = s.saved
<1>0. IsMind(s) /\ IsPlan(s.stream)
    BY DEF Agreed
<1>1. PICK u : u = Performed(s, Send("CLOSE", p))
    OBVIOUS
<1>2. PICK t : t = Performed(u, Drop(p))
    OBVIOUS
<1>3. /\ IsMind(u) /\ SameMemory(s, u) /\ u.stream = Append(s.stream, Send("CLOSE", p))
      /\ u.held = s.held /\ u.saved = s.saved /\ u.trend = s.trend
    BY <1>0, <1>1, AfterSend
<1>4. /\ IsMind(t) /\ SameMemory(s, t) /\ t.held = Others(s.held, p)
      /\ t.stream = u.stream /\ t.saved = s.saved /\ t.trend = s.trend
    BY <1>2, <1>3, AfterDrop DEF SameMemory
<1>5. Taken(Settled(W, s.stream), Send("CLOSE", p)) = Others(Settled(W, s.stream), p)
    BY DEF Taken, Send
<1>6. IsPlan(t.stream) /\ Settled(W, t.stream) = Others(Settled(W, s.stream), p)
    <2>1. PICK e : e = Send("CLOSE", p)
        OBVIOUS
    <2> QED
        BY <1>0, <1>3, <1>4, <1>5, <2>1, SettledSent
<1>7. Ids(Others(s.held, p)) \ s.dropped = Ids(Others(Settled(W, s.stream), p))
    BY DEF Agreed, Ids, Others
<1>8. Agreed(W, t, sym)
    BY <1>4, <1>6, <1>7 DEF Agreed, Single, Others, SameMemory, Recalls
<1>9. AfterFrom(s, <<Send("CLOSE", p), Drop(p)>>) = t
    BY <1>1, <1>2, AfterTwo
<1> QED
    BY <1>4, <1>8, <1>9

\* An OPEN of a flat strategy, recorded.
LEMMA OpenAgreed ==
    ASSUME NEW W, NEW sym, NEW s, Agreed(W, s, sym), s.held = {}, NEW p, Named(p, sym)
    PROVE  LET t == AfterFrom(s, <<Send("OPEN", p), Keep(p)>>)
           IN /\ Agreed(W, t, sym) /\ t.held = {p}
              /\ t.trend = s.trend /\ t.saved = s.saved
<1>0. IsMind(s) /\ IsPlan(s.stream) /\ Recalls(s)
    BY DEF Agreed
<1>1. PICK u : u = Performed(s, Send("OPEN", p))
    OBVIOUS
<1>2. PICK t : t = Performed(u, Keep(p))
    OBVIOUS
<1>3. /\ IsMind(u) /\ u.held = s.held /\ u.saved = s.saved /\ u.trend = s.trend
      /\ Goes(s, p, u) \/ Repeats(s, p, u)
    BY <1>0, <1>1, AfterSend
<1>4. /\ IsMind(t) /\ SameMemory(u, t) /\ t.held = Others(u.held, p) \cup {p}
      /\ t.stream = u.stream /\ t.saved = s.saved /\ t.trend = s.trend
    BY <1>2, <1>3, AfterKeep
<1>5. t.held = {p} /\ Ids(t.held) = {p.id}
    BY <1>3, <1>4 DEF Others, Ids
<1>6. Settled(W, s.stream) = {}
    BY DEF Agreed, Ids
<1>7. ASSUME Goes(s, p, u) PROVE Agreed(W, t, sym)
    <2>1. Taken(Settled(W, s.stream), Send("OPEN", p)) = {p}
        BY <1>6 DEF Taken, Send
    <2>2. IsPlan(t.stream) /\ Settled(W, t.stream) = {p}
        <3>1. PICK e : e = Send("OPEN", p)
            OBVIOUS
        <3> QED
            BY <1>0, <1>4, <1>7, <2>1, <3>1, SettledSent DEF Goes
    <2>3. Recalls(t) /\ p.id \notin t.dropped
        BY <1>0, <1>4, <1>7 DEF Goes, Recalls, SameMemory
    <2>4. Ids(t.held) \ t.dropped = Ids(Settled(W, t.stream))
        BY <1>5, <2>2, <2>3 DEF Ids
    <2> QED
        BY <1>4, <1>5, <2>2, <2>3, <2>4 DEF Agreed, Single
<1>8. ASSUME Repeats(s, p, u) PROVE Agreed(W, t, sym)
    <2>1. t.stream = s.stream /\ t.dropped = s.dropped \cup {p.id} /\ Recalls(t)
        BY <1>0, <1>4, <1>8 DEF Repeats, Recalls, SameMemory
    <2>2. Ids(t.held) \ t.dropped = Ids(Settled(W, t.stream))
        BY <1>5, <1>6, <2>1 DEF Ids
    <2> QED
        BY <1>0, <1>4, <1>5, <1>6, <2>1, <2>2 DEF Agreed, Single
<1>9. Agreed(W, t, sym)
    BY <1>3, <1>7, <1>8
<1>10. AfterFrom(s, <<Send("OPEN", p), Keep(p)>>) = t
    BY <1>1, <1>2, AfterTwo
<1> QED
    BY <1>4, <1>5, <1>9, <1>10

-----------------------------------------------------------------------------
\* The mind and the worker agree, and the cache of the positions names them too.
Concord(W, s, sym) ==
    /\ Agreed(W, s, sym)
    /\ Single(s.saved) /\ Ids(s.saved) \ s.dropped = Ids(s.held) \ s.dropped
    /\ \A p \in s.saved : Named(p, sym)

\* The inductive invariant of a strategy that holds one position of the symbol sym.
Mirrored(sym) == faults \in Nat /\ (faults = 0 => Concord(worker, Mind, sym))

LEMMA MirroredConverges ==
    ASSUME NEW sym, Mirrored(sym) PROVE Converged
<1> SUFFICES ASSUME stream = <<>>, faults = 0 PROVE Ids(worker) = Ids(held) \ dropped
    BY DEF Converged
<1>1. /\ Agreed(worker, Mind, sym) /\ Mind.stream = <<>> /\ Mind.held = held
      /\ Mind.dropped = dropped
    BY DEF Mirrored, Concord, Mind
<1>2. Settled(worker, Mind.stream) = worker
    BY <1>1, SettledDrained
<1> QED
    BY <1>1, <1>2 DEF Agreed

LEMMA StartMirrored ==
    ASSUME NEW sym, NEW C, StartBook(C) PROVE Mirrored(sym) /\ SideFollowsTrend
<1>1. /\ held = {} /\ saved = {} /\ stream = <<>> /\ worker = {} /\ faults = 0 /\ trend = 0
      /\ dropped = {}
    BY DEF StartBook
<1>2. Mind.stream = <<>> /\ Mind.held = {} /\ Mind.saved = {} /\ Recalls(Mind)
    BY <1>1 DEF Mind, Recalls
<1>3. Settled(worker, Mind.stream) = {}
    BY <1>1, <1>2, SettledDrained
<1>4. IsPlan(Mind.stream)
    BY <1>2, <<>> \in Seq({}) DEF IsPlan
<1>5. Concord(worker, Mind, sym)
    BY <1>2, <1>3, <1>4, MindIsMind DEF Concord, Agreed, Single, Ids
<1> QED
    BY <1>1, <1>5 DEF Mirrored, SideFollowsTrend

\* Steps that leave the positions, the stream and the worker alone.
LEMMA IdleMirrored ==
    ASSUME NEW sym, Mirrored(sym),
           UNCHANGED <<held, saved, stream, worker, faults, remembered, dropped>>
    PROVE  Mirrored(sym)'
<1>1. /\ Mind'.held = Mind.held /\ Mind'.saved = Mind.saved /\ Mind'.stream = Mind.stream
      /\ SameMemory(Mind, Mind')
    BY DEF Mind, SameMemory
<1>2. IsMind(Mind')
    BY DEF IsMind, Mind
<1>3. ASSUME faults = 0 PROVE Concord(worker', Mind', sym)
    <2>1. Concord(worker, Mind, sym) /\ worker' = worker
        BY <1>3 DEF Mirrored
    <2> QED
        BY <1>1, <1>2, <2>1 DEF Concord, Agreed, SameMemory, Recalls
<1> QED
    BY <1>3 DEF Mirrored

LEMMA TakesMirrored ==
    ASSUME NEW sym, Mirrored(sym), WorkerTakes PROVE Mirrored(sym)'
<1>1. /\ Mind'.held = Mind.held /\ Mind'.saved = Mind.saved /\ IsMind(Mind')
      /\ Mind.stream = stream /\ Mind'.stream = Tail(stream)
      /\ stream # <<>> /\ worker' = Taken(worker, Head(stream)) /\ faults' = faults
      /\ SameMemory(Mind, Mind')
    BY DEF Mind, WorkerTakes, IsMind, SameMemory
<1>2. ASSUME faults = 0 PROVE Concord(worker', Mind', sym)
    <2>1. Concord(worker, Mind, sym)
        BY <1>2 DEF Mirrored
    <2>2. IsPlan(stream)
        BY <1>1, <2>1 DEF Concord, Agreed, SameMemory, Recalls
    <2>3. IsPlan(Mind'.stream) /\ Settled(worker', Mind'.stream) = Settled(worker, Mind.stream)
        BY <1>1, <2>2, SettledTaken
    <2> QED
        BY <1>1, <2>1, <2>3 DEF Concord, Agreed, SameMemory, Recalls
<1> QED
    BY <1>1, <1>2 DEF Mirrored

LEMMA RestartMirrored ==
    ASSUME NEW sym, Mirrored(sym), Restart({p \in LoadPositions : p.symbol = sym})
    PROVE  Mirrored(sym)'
<1> DEFINE P == {p \in LoadPositions : p.symbol = sym}
<1>1. /\ held' = P /\ saved' = saved /\ stream' = stream /\ worker' = worker
      /\ remembered' = remembered /\ dropped' = dropped /\ faults \in Nat
      /\ \/ stream = <<>> /\ faults' = faults
         \/ faults' = faults + 1
    BY DEF Restart, Mirrored
<1>2. CASE faults' = faults + 1
    BY <1>1, <1>2 DEF Mirrored
<1>3. CASE stream = <<>> /\ faults' = faults
    <2>1. ASSUME faults = 0 PROVE Concord(worker', Mind', sym)
        <3>1. /\ Concord(worker, Mind, sym)
              /\ Mind.stream = stream /\ Mind.held = held /\ Mind.saved = saved
              /\ Mind.dropped = dropped
            BY <2>1 DEF Mirrored, Mind
        <3>2. Settled(worker, Mind.stream) = worker
            BY <1>3, <3>1, SettledDrained
        <3>3. /\ Single(worker) /\ \A p \in worker : Named(p, sym)
              /\ Single(saved) /\ \A p \in saved : Named(p, sym)
              /\ Ids(worker) = Ids(held) \ dropped /\ Ids(saved) \ dropped = Ids(held) \ dropped
            BY <3>1, <3>2 DEF Concord, Agreed
        <3>4. P = worker \/ P = saved
            BY <3>3 DEF LoadPositions, Named
        <3>5. /\ Mind'.held = P /\ Mind'.saved = saved /\ Mind'.stream = Mind.stream /\ IsMind(Mind')
              /\ Mind'.dropped = dropped /\ SameMemory(Mind, Mind')
            BY <1>1 DEF Mind, IsMind, SameMemory
        <3>6. IsPlan(Mind'.stream) /\ Recalls(Mind') /\ Settled(worker', Mind'.stream) = worker
            BY <1>1, <3>1, <3>2, <3>5 DEF Concord, Agreed, SameMemory, Recalls
        <3>7. Single(P) /\ Ids(P) \ dropped = Ids(worker) /\ Ids(P) \ dropped = Ids(saved) \ dropped
            BY <3>3, <3>4
        <3> HIDE DEF P
        <3>8. Agreed(worker', Mind', sym)
            BY <3>3, <3>4, <3>5, <3>6, <3>7 DEF Agreed
        <3> QED
            BY <3>3, <3>5, <3>7, <3>8 DEF Concord
    <2> QED
        BY <1>1, <1>3, <2>1 DEF Mirrored
<1> QED
    BY <1>1, <1>2, <1>3

\* A scan keeps the invariant when its plan, run to its end, does.
LEMMA PerformMirrored ==
    ASSUME NEW sym, Mirrored(sym), NEW plan, Perform(plan),
           faults = 0 => Concord(worker, AfterPlan(plan), sym)
    PROVE  Mirrored(sym)'
<1>1. faults \in Nat /\ worker' = worker
    BY DEF Mirrored, Perform
<1>2. CASE Becomes(AfterPlan(plan)) /\ faults' = faults
    <2>1. PICK t : t = AfterPlan(plan)
        OBVIOUS
    <2>2. /\ Mind'.held = t.held /\ Mind'.saved = t.saved /\ Mind'.stream = t.stream
          /\ SameMemory(t, Mind')
        BY <1>2, <2>1 DEF Becomes, Mind, SameMemory
    <2>3. IsMind(Mind')
        BY DEF Mind, IsMind
    <2>4. faults = 0 => Concord(worker, t, sym)
        BY <2>1
    <2> QED
        BY <1>1, <1>2, <2>2, <2>3, <2>4 DEF Mirrored, Concord, Agreed, SameMemory, Recalls
<1>3. CASE faults' = faults + 1
    BY <1>1, <1>3 DEF Mirrored
<1> QED
    BY <1>2, <1>3 DEF Perform

-----------------------------------------------------------------------------
\* The plans of a sequence of plans, run one after the other.
LEMMA FlattenExists ==
    ASSUME NEW seqs
    PROVE  \A n \in Nat : \E g : g = [i \in 1..n |-> IF i = 1 THEN seqs[i] ELSE g[i - 1] \o seqs[i]]
<1> DEFINE Good(g, n) == g = [i \in 1..n |-> IF i = 1 THEN seqs[i] ELSE g[i - 1] \o seqs[i]]
           bad == {n \in Nat : ~ \E g : Good(g, n)}
<1>1. SUFFICES ASSUME bad # {} PROVE FALSE
    OBVIOUS
<1> HIDE DEF Good
<1>2. PICK n \in bad : \A m \in bad : n <= m
    BY <1>1, LeastNat
<1>3. CASE n = 0
    <2> DEFINE g == [i \in 1..0 |-> seqs[i]]
    <2>1. Good(g, 0)
        BY DEF Good
    <2> QED
        BY <1>2, <1>3, <2>1
<1>4. CASE n # 0
    <2>1. n - 1 \in Nat /\ n - 1 \notin bad
        BY <1>2, <1>4
    <2>2. PICK h : Good(h, n - 1)
        BY <2>1
    <2> DEFINE g == [i \in 1..n |-> IF i = 1 THEN seqs[i]
                                    ELSE IF i = n THEN h[n - 1] \o seqs[n] ELSE h[i]]
               k == [i \in 1..n |-> IF i = 1 THEN seqs[i] ELSE g[i - 1] \o seqs[i]]
    <2>3. \A i \in 1..n - 1 : h[i] = IF i = 1 THEN seqs[i] ELSE h[i - 1] \o seqs[i]
        BY <2>2 DEF Good
    <2>4. ASSUME NEW i \in 1..n PROVE g[i] = k[i]
        <3>1. CASE i = 1
            BY <3>1
        <3>2. CASE i # 1
            <4>0. k[i] = g[i - 1] \o seqs[i]
                BY <3>2, Zenon
            <4>1. i - 1 \in 1..n - 1 /\ i - 1 \in 1..n
                BY <3>2
            <4>2. g[i - 1] = h[i - 1]
                <5>1. CASE i - 1 = 1
                    <6>1. h[1] = seqs[1] /\ g[1] = seqs[1]
                        BY <2>3, <4>1, <5>1
                    <6> QED
                        BY <5>1, <6>1
                <5>2. CASE i - 1 # 1
                    BY <4>1, <5>2
                <5> QED
                    BY <5>1, <5>2
            <4>3. CASE i = n
                BY <3>2, <4>0, <4>2, <4>3
            <4>4. CASE i # n
                <5>1. i \in 1..n - 1 /\ g[i] = h[i]
                    BY <3>2, <4>4
                <5> QED
                    BY <2>3, <3>2, <4>0, <4>2, <5>1
            <4> QED
                BY <4>3, <4>4
        <3> QED
            BY <3>1, <3>2
    <2>5. Good(g, n)
        BY <2>4, Zenon DEF Good
    <2> QED
        BY <1>2, <2>5
<1> QED
    BY <1>3, <1>4

LEMMA FlattenRuns ==
    ASSUME NEW s, NEW seqs, IsPlan(seqs), NEW n \in Nat, Len(seqs) = n,
           \A i \in 1..n : IsPlan(seqs[i]),
           NEW f, f[0] = s, \A i \in 1..n : f[i] = AfterFrom(f[i - 1], seqs[i])
    PROVE  IsPlan(FlattenSeq(seqs)) /\ AfterFrom(s, FlattenSeq(seqs)) = f[n]
<1>1. CASE n = 0
    <2>1. FlattenSeq(seqs) = seqs
        BY <1>1 DEF FlattenSeq
    <2>2. AfterFrom(s, seqs) = f[0]
        <3>1. Len(seqs) = 0 /\ \A k \in 1..0 : f[k] = Performed(f[k - 1], seqs[k])
            BY <1>1
        <3> QED
            BY <3>1, Follows
    <2> QED
        BY <1>1, <2>1, <2>2
<1>2. CASE n # 0
    <2> DEFINE Flat(g) == g = [i \in 1..n |-> IF i = 1 THEN seqs[i] ELSE g[i - 1] \o seqs[i]]
    <2>1. PICK g : Flat(g) /\ FlattenSeq(seqs) = g[n]
        <3>1. \E g : Flat(g)
            BY FlattenExists
        <3>2. FlattenSeq(seqs) = (CHOOSE g : Flat(g))[n]
            BY <1>2 DEF FlattenSeq
        <3> QED
            BY <3>1, <3>2
    <2>2. \A i \in 1..n : g[i] = IF i = 1 THEN seqs[i] ELSE g[i - 1] \o seqs[i]
        BY <2>1
    <2> HIDE DEF Flat
    <2> DEFINE bad == {i \in 1..n : ~ (IsPlan(g[i]) /\ AfterFrom(s, g[i]) = f[i])}
    <2>3. ASSUME bad # {} PROVE FALSE
        <3>1. bad \in SUBSET Nat
            OBVIOUS
        <3>2. PICK i \in bad : \A j \in bad : i <= j
            BY <2>3, <3>1, LeastNat
        <3>3. CASE i = 1
            <4>1. f[1] = AfterFrom(f[0], seqs[1]) /\ g[1] = seqs[1] /\ IsPlan(seqs[1])
                BY <2>2, <3>2, <3>3
            <4> QED
                BY <3>2, <3>3, <4>1
        <3>4. CASE i # 1
            <4>1. i \in 1..n /\ i - 1 \in 1..n /\ i - 1 \notin bad
                BY <3>2, <3>4
            <4>2. IsPlan(g[i - 1]) /\ AfterFrom(s, g[i - 1]) = f[i - 1]
                BY <4>1
            <4>3. g[i] = g[i - 1] \o seqs[i] /\ IsPlan(seqs[i]) /\ f[i] = AfterFrom(f[i - 1], seqs[i])
                BY <2>2, <3>4, <4>1
            <4>4. IsPlan(g[i]) /\ AfterFrom(s, g[i]) = f[i]
                BY <4>2, <4>3, PlanParts, AfterBoth
            <4> QED
                BY <3>2, <4>4
        <3> QED
            BY <3>3, <3>4
    <2> QED
        BY <1>2, <2>1, <2>3
<1> QED
    BY <1>1, <1>2

\* A finite set laid out as a sequence: every element once.
LEMMA SetLaidOut ==
    ASSUME NEW S, IsFiniteSet(S)
    PROVE  LET q == SetToSeq(S)
           IN /\ q \in [1..Cardinality(S) -> S] /\ Cardinality(S) \in Nat
              /\ Len(q) = Cardinality(S)
              /\ \A i, j \in 1..Cardinality(S) : q[i] = q[j] => i = j
              /\ \A x \in S : \E i \in 1..Cardinality(S) : q[i] = x
<1> DEFINE n == Cardinality(S)
<1>1. n \in Nat
    BY FS_CardinalityType
<1>2. ExistsBijection(1..n, S)
    BY FS_CardinalityType
<1>3. \E f \in [1..n -> S] : IsInjective(f)
    <2>1. PICK f : f \in Bijection(1..n, S)
        BY <1>2 DEF ExistsBijection
    <2>2. f \in [1..n -> S] /\ IsInjective(f)
        BY <2>1 DEF Bijection, Injection
    <2> QED
        BY <2>2
<1>4. PICK q : q = SetToSeq(S)
    OBVIOUS
<1>5. q \in [1..n -> S] /\ IsInjective(q)
    BY <1>3, <1>4 DEF SetToSeq
<1>6. \A i, j \in 1..n : q[i] = q[j] => i = j
    BY <1>5 DEF IsInjective
<1>7. \A x \in S : \E i \in 1..n : q[i] = x
    <2>1. q \in Injection(1..n, S)
        BY <1>5 DEF Injection
    <2>2. IsFiniteSet(1..n) /\ Cardinality(1..n) = n
        BY <1>1, FS_Interval
    <2>3. q \in Surjection(1..n, S)
        BY <2>1, <2>2, FS_Injection
    <2> QED
        BY <2>3 DEF Surjection
<1>8. Len(q) = n
    <2>1. q \in Seq(S)
        BY <1>1, <1>5, SeqDef
    <2>2. Len(q) \in Nat /\ 1..Len(q) = 1..n
        BY <1>5, <2>1, LenProperties
    <2> QED
        BY <1>1, <2>2
<1> QED
    BY <1>1, <1>4, <1>5, <1>6, <1>7, <1>8

\* A function on 1..n is a plan of n steps.
LEMMA FunctionIsPlan ==
    ASSUME NEW n \in Nat, NEW T, NEW f \in [1..n -> T]
    PROVE  IsPlan(f) /\ Len(f) = n
<1>1. f \in Seq(T)
    BY SeqDef
<1>2. Len(f) \in Nat /\ 1..Len(f) = 1..n
    BY <1>1, LenProperties
<1>3. Len(f) = n
    BY <1>2
<1> QED
    BY <1>1, <1>3 DEF IsPlan

\* Closing some of the positions a single-position strategy holds, one by one.
CloseEach(C) == ForEach(C, LAMBDA p : <<Send("CLOSE", p), Drop(p)>>)

LEMMA CloseEachAgreed ==
    ASSUME NEW W, NEW sym, NEW s, Agreed(W, s, sym), NEW C \in SUBSET s.held
    PROVE  LET plan == CloseEach(C)
               t == AfterFrom(s, plan)
           IN /\ IsPlan(plan)
              /\ Agreed(W, t, sym) /\ t.held = s.held \ C
              /\ t.trend = s.trend /\ t.saved = s.saved
<1> DEFINE q == SetToSeq(C)
           n == Cardinality(C)
           plan == CloseEach(C)
<1>1. Single(C)
    BY DEF Agreed, Single
<1>2. IsFiniteSet(C) /\ n \in {0, 1} /\ (n = 0 => C = {}) /\ (n = 1 => C = s.held)
    <2>1. CASE C = {}
        <3>1. IsFiniteSet(C) /\ n = 0
            BY <2>1, FS_EmptySet, Zenon
        <3> QED
            BY <2>1, <3>1
    <2>2. CASE C # {}
        <3>1. PICK p : C = {p} /\ s.held = {p}
            BY <2>2, <1>1 DEF Agreed, Single
        <3>2. IsFiniteSet(C) /\ n = 1
            BY <3>1, FS_Singleton, Zenon
        <3> QED
            BY <3>1, <3>2
    <2> QED
        BY <2>1, <2>2
<1>3. q \in [1..n -> C] /\ n \in Nat /\ Len(q) = n
    BY <1>2, SetLaidOut
<1>4. PICK seqs : seqs = [i \in 1..n |-> <<Send("CLOSE", q[i]), Drop(q[i])>>]
    OBVIOUS
<1>5. plan = FlattenSeq(seqs)
    BY <1>3, <1>4 DEF CloseEach, ForEach
<1>6. IsPlan(seqs) /\ Len(seqs) = n
    <2>1. seqs \in [1..n -> {<<Send("CLOSE", p), Drop(p)>> : p \in C}]
        BY <1>3, <1>4
    <2> QED
        BY <1>3, <2>1, FunctionIsPlan
<1>7. \A i \in 1..n : IsPlan(seqs[i])
    BY <1>4, AfterTwo
<1>8. PICK u : u = AfterFrom(s, <<Send("CLOSE", q[1]), Drop(q[1])>>)
    OBVIOUS
<1>9. /\ Agreed(W, u, sym) /\ u.held = Others(s.held, q[1])
      /\ u.trend = s.trend /\ u.saved = s.saved
    BY <1>8, CloseAgreed
<1>10. PICK f : f = [i \in 0..n |-> IF i = 0 THEN s ELSE u]
    OBVIOUS
<1>11. f[0] = s /\ \A i \in 1..n : f[i] = AfterFrom(f[i - 1], seqs[i])
    <2>1. f[0] = s
        BY <1>2, <1>10
    <2>2. ASSUME NEW i \in 1..n PROVE f[i] = AfterFrom(f[i - 1], seqs[i])
        <3>1. i = 1 /\ f[i] = u /\ f[i - 1] = s /\ seqs[i] = <<Send("CLOSE", q[1]), Drop(q[1])>>
            BY <1>2, <1>4, <1>10
        <3> QED
            BY <1>8, <3>1, Zenon
    <2> QED
        BY <2>1, <2>2
<1>12. IsPlan(plan) /\ AfterFrom(s, plan) = f[n]
    <2>1. PICK m \in Nat : m = n
        BY <1>3
    <2>2. /\ Len(seqs) = m /\ \A i \in 1..m : IsPlan(seqs[i])
          /\ f[0] = s /\ \A i \in 1..m : f[i] = AfterFrom(f[i - 1], seqs[i])
        BY <1>6, <1>7, <1>11, <2>1, Zenon
    <2> HIDE DEF n, q, plan
    <2>3. ASSUME NEW a, NEW g, g[0] = a, \A i \in 1..m : g[i] = AfterFrom(g[i - 1], seqs[i])
          PROVE  IsPlan(FlattenSeq(seqs)) /\ AfterFrom(a, FlattenSeq(seqs)) = g[m]
        BY <1>6, <2>2, <2>3, FlattenRuns
    <2>4. IsPlan(FlattenSeq(seqs)) /\ AfterFrom(s, FlattenSeq(seqs)) = f[m]
        BY <2>2, <2>3
    <2> QED
        BY <1>5, <2>1, <2>4, Zenon
<1>13. CASE n = 0
    <2>1. f[n] = s
        BY <1>10, <1>13
    <2> QED
        BY <1>2, <1>12, <1>13, <2>1
<1>14. CASE n = 1
    <2>1. f[n] = u /\ C = s.held /\ q[1] \in C
        BY <1>2, <1>3, <1>10, <1>14
    <2>2. Others(s.held, q[1]) = {}
        BY <2>1 DEF Agreed, Single, Others
    <2> QED
        BY <1>9, <1>12, <2>1, <2>2
<1> QED
    BY <1>2, <1>13, <1>14

-----------------------------------------------------------------------------
\* The steps of a plan that are neither signals nor positions.
LEMMA SeenAgreed ==
    ASSUME NEW W, NEW sym, NEW s, Agreed(W, s, sym), NEW f
    PROVE  LET t == AfterFrom(s, <<Seen(f)>>)
           IN /\ Agreed(W, t, sym) /\ SameMemory(s, t)
              /\ t.held = s.held /\ t.trend = s.trend /\ t.saved = s.saved
<1>0. IsMind(s)
    BY DEF Agreed
<1>1. PICK t : t = Performed(s, Seen(f))
    OBVIOUS
<1>2. /\ IsMind(t) /\ SameMemory(s, t) /\ t.trend = s.trend
      /\ t.held = s.held /\ t.stream = s.stream /\ t.saved = s.saved
    BY <1>0, <1>1, AfterSeen
<1>3. Agreed(W, t, sym)
    BY <1>2, QuietAgreed
<1>4. AfterFrom(s, <<Seen(f)>>) = t
    BY <1>1, AfterOne
<1> QED
    BY <1>2, <1>3, <1>4

LEMMA DoneAgreed ==
    ASSUME NEW W, NEW sym, NEW s, Agreed(W, s, sym), NEW f
    PROVE  LET t == AfterFrom(s, <<Done(f)>>)
           IN /\ Agreed(W, t, sym) /\ SameMemory(s, t)
              /\ t.held = s.held /\ t.trend = s.trend /\ t.saved = s.saved
<1>0. IsMind(s)
    BY DEF Agreed
<1>1. PICK t : t = Performed(s, Done(f))
    OBVIOUS
<1>2. /\ IsMind(t) /\ SameMemory(s, t) /\ t.trend = s.trend
      /\ t.held = s.held /\ t.stream = s.stream /\ t.saved = s.saved
    BY <1>0, <1>1, AfterDone
<1>3. Agreed(W, t, sym)
    BY <1>2, QuietAgreed
<1>4. AfterFrom(s, <<Done(f)>>) = t
    BY <1>1, AfterOne
<1> QED
    BY <1>2, <1>3, <1>4

LEMMA TurnAgreed ==
    ASSUME NEW W, NEW sym, NEW s, Agreed(W, s, sym), NEW d
    PROVE  LET t == AfterFrom(s, <<Turn(d)>>)
           IN Agreed(W, t, sym) /\ t.held = s.held /\ t.trend = d /\ t.saved = s.saved
<1>0. IsMind(s)
    BY DEF Agreed
<1>1. PICK t : t = Performed(s, Turn(d))
    OBVIOUS
<1>2. /\ IsMind(t) /\ SameMemory(s, t) /\ t.trend = d
      /\ t.held = s.held /\ t.stream = s.stream /\ t.saved = s.saved
    BY <1>0, <1>1, AfterTurn
<1>3. Agreed(W, t, sym)
    BY <1>2, QuietAgreed
<1>4. AfterFrom(s, <<Turn(d)>>) = t
    BY <1>1, AfterOne
<1> QED
    BY <1>2, <1>3, <1>4

\* A scan ends with a save.
LEMMA SaveConcord ==
    ASSUME NEW W, NEW sym, NEW s, Agreed(W, s, sym)
    PROVE  LET t == AfterFrom(s, <<Save>>)
           IN Concord(W, t, sym) /\ t.held = s.held /\ t.trend = s.trend
<1>0. IsMind(s)
    BY DEF Agreed
<1>1. PICK t : t = Performed(s, Save)
    OBVIOUS
<1>2. /\ IsMind(t) /\ SameMemory(s, t) /\ t.saved = s.held
      /\ t.held = s.held /\ t.stream = s.stream /\ t.trend = s.trend
    BY <1>0, <1>1, AfterSave
<1>3. Agreed(W, t, sym)
    BY <1>2, QuietAgreed
<1>4. Concord(W, t, sym)
    BY <1>2, <1>3 DEF Concord, Agreed
<1>5. AfterFrom(s, <<Save>>) = t
    BY <1>1, AfterOne
<1> QED
    BY <1>2, <1>4, <1>5

\* No position faces away from the trend the mind believes in.
Facing(s) == s.trend # 0 => \A p \in s.held : Toward(p.side) = s.trend

\* Whatever happens around a strategy that follows one symbol keeps the invariant.
LEMMA AroundMirrored ==
    ASSUME NEW sym, Mirrored(sym),
           \/ Around({p \in LoadPositions : p.symbol = sym})
           \/ \E t, C : CandleCloses(t, C)
           \/ \E t : ShouldScanAfterEvent(t)
           \/ UNCHANGED book
    PROVE  Mirrored(sym)' /\ (SideFollowsTrend => SideFollowsTrend')
<1>1. CASE WorkerTakes
    <2>1. UNCHANGED <<held, trend, faults>>
        BY <1>1 DEF WorkerTakes
    <2> QED
        BY <1>1, <2>1, TakesMirrored DEF SideFollowsTrend
<1>2. CASE WorkerCloses
    <2>1. faults \in Nat /\ faults' = faults + 1
        BY <1>2 DEF WorkerCloses, Mirrored
    <2> QED
        BY <2>1 DEF Mirrored, SideFollowsTrend
<1>3. CASE Restart({p \in LoadPositions : p.symbol = sym})
    <2>1. trend' = 0
        BY <1>3 DEF Restart
    <2> QED
        BY <1>3, <2>1, RestartMirrored DEF SideFollowsTrend
<1>4. CASE \/ \E t, C : CandleCloses(t, C)
           \/ \E t : ShouldScanAfterEvent(t)
           \/ UNCHANGED book
    <2>1. UNCHANGED <<held, saved, stream, worker, faults, trend, remembered, dropped>>
        BY <1>4 DEF CandleCloses, ShouldScanAfterEvent, book
    <2> QED
        BY <2>1, IdleMirrored DEF SideFollowsTrend
<1> QED
    BY <1>1, <1>2, <1>3, <1>4 DEF Around

LEMMA PerformFaces ==
    ASSUME NEW sym, Mirrored(sym), NEW plan, Perform(plan),
           faults = 0 => Facing(AfterPlan(plan))
    PROVE  SideFollowsTrend'
<1>1. faults \in Nat
    BY DEF Mirrored
<1>2. CASE Becomes(AfterPlan(plan)) /\ faults' = faults
    <2>1. PICK t : t = AfterPlan(plan)
        OBVIOUS
    <2>2. held' = t.held /\ trend' = t.trend
        BY <1>2, <2>1 DEF Becomes
    <2>3. faults = 0 => Facing(t)
        BY <2>1
    <2> QED
        BY <1>2, <2>2, <2>3 DEF SideFollowsTrend, Facing
<1>3. CASE faults' = faults + 1
    BY <1>1, <1>3 DEF SideFollowsTrend
<1> QED
    BY <1>2, <1>3 DEF Perform

-----------------------------------------------------------------------------
\* The plan leads from the mind s to the mind t, and the worker will agree with t.
Moved(s, plan, t, sym) == IsPlan(plan) /\ AfterFrom(s, plan) = t /\ Agreed(worker, t, sym)

\* The same at the end of a scan, once the positions are saved.
Ended(s, plan, t, sym) == IsPlan(plan) /\ AfterFrom(s, plan) = t /\ Concord(worker, t, sym)

\* Plans follow one another.
LEMMA MovedOn ==
    ASSUME NEW sym, NEW s, NEW t, NEW u, NEW p, NEW q, Moved(s, p, t, sym)
    PROVE  /\ Moved(t, q, u, sym) => Moved(s, p \o q, u, sym)
           /\ Ended(t, q, u, sym) => Ended(s, p \o q, u, sym)
<1>1. IsPlan(p) /\ AfterFrom(s, p) = t
    BY DEF Moved
<1>2. ASSUME IsPlan(q), AfterFrom(t, q) = u PROVE IsPlan(p \o q) /\ AfterFrom(s, p \o q) = u
    <2>1. IsPlan(p \o q)
        BY <1>1, <1>2, PlanParts
    <2>2. AfterFrom(s, p \o q) = AfterFrom(AfterFrom(s, p), q)
        BY <1>1, <1>2, AfterBoth
    <2>3. AfterFrom(s, p \o q) = u
        BY <1>1, <1>2, <2>2, Zenon
    <2> QED
        BY <2>1, <2>3
<1> QED
    BY <1>2 DEF Moved, Ended

LEMMA TwoMoved ==
    ASSUME NEW sym, NEW s, NEW t, NEW u, NEW a, NEW b,
           Moved(s, <<a>>, t, sym), Moved(t, <<b>>, u, sym)
    PROVE  Moved(s, <<a, b>>, u, sym)
<1>1. Moved(s, <<a>> \o <<b>>, u, sym)
    BY MovedOn
<1>2. <<a>> \o <<b>> = <<a, b>>
    BY TwoInTurn
<1> QED
    BY <1>1, <1>2, Zenon

LEMMA ThreeMoved ==
    ASSUME NEW sym, NEW s, NEW t, NEW u, NEW a, NEW b, NEW c,
           Moved(s, <<a, b>>, t, sym), Moved(t, <<c>>, u, sym)
    PROVE  Moved(s, <<a, b, c>>, u, sym)
<1>1. Moved(s, <<a, b>> \o <<c>>, u, sym)
    BY MovedOn
<1>2. <<a, b>> \o <<c>> = <<a, b, c>>
    BY ThreeInTurn
<1> QED
    BY <1>1, <1>2, Zenon

LEMMA StayMoved ==
    ASSUME NEW sym, NEW s, Agreed(worker, s, sym) PROVE Moved(s, <<>>, s, sym)
<1>1. IsPlan(<<>>)
    BY DEF IsPlan
<1> QED
    BY <1>1, AfterNothing DEF Moved

\* What the marks of a scan and a turn of the trend lead to.
LEMMA MarksMoved ==
    ASSUME NEW sym, NEW s, Agreed(worker, s, sym)
    PROVE  /\ \A f : \E t : /\ Moved(s, <<Seen(f)>>, t, sym)
                            /\ t.held = s.held /\ t.trend = s.trend
           /\ \A f : \E t : /\ Moved(s, <<Done(f)>>, t, sym)
                            /\ t.held = s.held /\ t.trend = s.trend
           /\ \A d : \E t : /\ Moved(s, <<Turn(d)>>, t, sym)
                            /\ t.held = s.held /\ t.trend = d
<1>1. ASSUME NEW f
      PROVE  \E t : Moved(s, <<Seen(f)>>, t, sym) /\ t.held = s.held /\ t.trend = s.trend
    <2>1. PICK t : t = AfterFrom(s, <<Seen(f)>>)
        OBVIOUS
    <2>2. Agreed(worker, t, sym) /\ t.held = s.held /\ t.trend = s.trend
        BY <2>1, SeenAgreed
    <2>3. IsPlan(<<Seen(f)>>)
        BY AfterOne
    <2> QED
        BY <2>1, <2>2, <2>3 DEF Moved
<1>2. ASSUME NEW f
      PROVE  \E t : Moved(s, <<Done(f)>>, t, sym) /\ t.held = s.held /\ t.trend = s.trend
    <2>1. PICK t : t = AfterFrom(s, <<Done(f)>>)
        OBVIOUS
    <2>2. Agreed(worker, t, sym) /\ t.held = s.held /\ t.trend = s.trend
        BY <2>1, DoneAgreed
    <2>3. IsPlan(<<Done(f)>>)
        BY AfterOne
    <2> QED
        BY <2>1, <2>2, <2>3 DEF Moved
<1>3. ASSUME NEW d
      PROVE  \E t : Moved(s, <<Turn(d)>>, t, sym) /\ t.held = s.held /\ t.trend = d
    <2>1. PICK t : t = AfterFrom(s, <<Turn(d)>>)
        OBVIOUS
    <2>2. Agreed(worker, t, sym) /\ t.held = s.held /\ t.trend = d
        BY <2>1, TurnAgreed
    <2>3. IsPlan(<<Turn(d)>>)
        BY AfterOne
    <2> QED
        BY <2>1, <2>2, <2>3 DEF Moved
<1> QED
    BY <1>1, <1>2, <1>3

\* A position that only changes what it records, and telling the worker of it.
LEMMA KeepMoved ==
    ASSUME NEW sym, NEW s, Agreed(worker, s, sym),
           NEW p \in s.held, NEW q, q.id = p.id, Named(q, sym)
    PROVE  \E t : /\ Moved(s, <<Keep(q)>>, t, sym)
                  /\ t.held = {q} /\ t.trend = s.trend
<1>1. PICK t : t = AfterFrom(s, <<Keep(q)>>)
    OBVIOUS
<1>2. Agreed(worker, t, sym) /\ t.held = {q} /\ t.trend = s.trend
    BY <1>1, KeepAgreed
<1>3. IsPlan(<<Keep(q)>>)
    BY AfterOne
<1> QED
    BY <1>1, <1>2, <1>3 DEF Moved

LEMMA ModifyMoved ==
    ASSUME NEW sym, NEW s, Agreed(worker, s, sym), NEW p
    PROVE  \E t : /\ Moved(s, <<Send("MODIFY", p)>>, t, sym)
                  /\ t.held = s.held /\ t.trend = s.trend
<1>1. PICK t : t = AfterFrom(s, <<Send("MODIFY", p)>>)
    OBVIOUS
<1>2. Agreed(worker, t, sym) /\ t.held = s.held /\ t.trend = s.trend
    BY <1>1, ModifyAgreed
<1>3. IsPlan(<<Send("MODIFY", p)>>)
    BY AfterOne
<1> QED
    BY <1>1, <1>2, <1>3 DEF Moved

\* Closing the position, under its name, and opening one when there is none.
LEMMA CloseMoved ==
    ASSUME NEW sym, NEW s, Agreed(worker, s, sym), NEW p \in s.held, NEW c, c.id = p.id
    PROVE  \E t : /\ Moved(s, <<Send("CLOSE", c), Drop(c)>>, t, sym)
                  /\ t.held = {} /\ t.trend = s.trend
<1>1. PICK t : t = AfterFrom(s, <<Send("CLOSE", c), Drop(c)>>)
    OBVIOUS
<1>2. Agreed(worker, t, sym) /\ t.held = Others(s.held, c) /\ t.trend = s.trend
    BY <1>1, CloseAgreed
<1>3. Others(s.held, c) = {}
    BY DEF Agreed, Single, Others
<1>4. IsPlan(<<Send("CLOSE", c), Drop(c)>>)
    BY AfterTwo
<1> QED
    BY <1>1, <1>2, <1>3, <1>4 DEF Moved

LEMMA OpenMoved ==
    ASSUME NEW sym, NEW s, Agreed(worker, s, sym), s.held = {}, NEW p, Named(p, sym)
    PROVE  \E t : /\ Moved(s, <<Send("OPEN", p), Keep(p)>>, t, sym)
                  /\ t.held = {p} /\ t.trend = s.trend
<1>1. PICK t : t = AfterFrom(s, <<Send("OPEN", p), Keep(p)>>)
    OBVIOUS
<1>2. Agreed(worker, t, sym) /\ t.held = {p} /\ t.trend = s.trend
    BY <1>1, OpenAgreed
<1>3. IsPlan(<<Send("OPEN", p), Keep(p)>>)
    BY AfterTwo
<1> QED
    BY <1>1, <1>2, <1>3 DEF Moved

LEMMA CloseEachMoved ==
    ASSUME NEW sym, NEW s, Agreed(worker, s, sym), NEW C \in SUBSET s.held
    PROVE  \E t : /\ Moved(s, CloseEach(C), t, sym)
                  /\ t.held = s.held \ C /\ t.trend = s.trend
<1>1. PICK t : t = AfterFrom(s, CloseEach(C))
    OBVIOUS
<1>2. IsPlan(CloseEach(C)) /\ Agreed(worker, t, sym) /\ t.held = s.held \ C /\ t.trend = s.trend
    BY <1>1, CloseEachAgreed
<1> QED
    BY <1>1, <1>2 DEF Moved

\* A scan ends with the positions saved.
LEMMA SaveEnded ==
    ASSUME NEW sym, NEW s, Agreed(worker, s, sym)
    PROVE  /\ \E t : /\ Ended(s, <<Save>>, t, sym)
                     /\ t.held = s.held /\ t.trend = s.trend
           /\ \A f : \E t : /\ Ended(s, <<Done(f), Save>>, t, sym)
                            /\ t.held = s.held /\ t.trend = s.trend
<1>1. ASSUME NEW u, Agreed(worker, u, sym)
      PROVE  \E t : Ended(u, <<Save>>, t, sym) /\ t.held = u.held /\ t.trend = u.trend
    <2>1. PICK t : t = AfterFrom(u, <<Save>>)
        OBVIOUS
    <2>2. Concord(worker, t, sym) /\ t.held = u.held /\ t.trend = u.trend
        BY <1>1, <2>1, SaveConcord
    <2>3. IsPlan(<<Save>>)
        BY AfterOne
    <2> QED
        BY <2>1, <2>2, <2>3 DEF Ended
<1>2. ASSUME NEW f
      PROVE  \E t : Ended(s, <<Done(f), Save>>, t, sym) /\ t.held = s.held /\ t.trend = s.trend
    <2>1. PICK u : Moved(s, <<Done(f)>>, u, sym) /\ u.held = s.held /\ u.trend = s.trend
        BY MarksMoved
    <2>2. PICK t : Ended(u, <<Save>>, t, sym) /\ t.held = u.held /\ t.trend = u.trend
        BY <1>1, <2>1 DEF Moved
    <2>3. PICK a, b : a = Done(f) /\ b = Save
        OBVIOUS
    <2>4. Ended(s, <<a>> \o <<b>>, t, sym)
        BY <2>1, <2>2, <2>3, MovedOn
    <2>5. Ended(s, <<a, b>>, t, sym)
        BY <2>4, TwoInTurn, Zenon
    <2> QED
        BY <2>1, <2>2, <2>3, <2>5
<1> QED
    BY <1>1, <1>2

\* What a scan finds.
LEMMA MirroredMind ==
    ASSUME NEW sym, Mirrored(sym), faults = 0
    PROVE  Agreed(worker, Mind, sym) /\ Mind.held = held /\ Mind.trend = trend
BY DEF Mirrored, Concord, Mind

\* What a scan has to show: without a fault its plan ends in concord.
LEMMA ScanMirrored ==
    ASSUME NEW sym, Mirrored(sym), NEW plan, Perform(plan),
           faults = 0 => \E t : Ended(Mind, plan, t, sym)
    PROVE  Mirrored(sym)'
<1>1. faults = 0 => Concord(worker, AfterPlan(plan), sym)
    BY DEF Ended, AfterPlan
<1> QED
    BY <1>1, PerformMirrored

LEMMA ScanFaces ==
    ASSUME NEW sym, Mirrored(sym), NEW plan, Perform(plan),
           faults = 0 => \E t : Ended(Mind, plan, t, sym) /\ Facing(t)
    PROVE  SideFollowsTrend'
<1>1. faults = 0 => Facing(AfterPlan(plan))
    BY DEF Ended, AfterPlan
<1> QED
    BY <1>1, PerformFaces

\* Without a fault the plan ends in concord and, where J holds, facing the trend.
Well(plan, sym, J) ==
    faults = 0 => \E t : Ended(Mind, plan, t, sym) /\ (J => Facing(t))

LEMMA WellDone ==
    ASSUME NEW sym, Mirrored(sym), NEW J, NEW plan, Perform(plan), Well(plan, sym, J)
    PROVE  Mirrored(sym)' /\ (J => SideFollowsTrend')
<1>1. faults = 0 => \E t : Ended(Mind, plan, t, sym)
    BY DEF Well
<1>2. ASSUME J PROVE faults = 0 => \E t : Ended(Mind, plan, t, sym) /\ Facing(t)
    BY <1>2 DEF Well
<1> QED
    BY <1>1, <1>2, ScanMirrored, ScanFaces

\* The first scan of a life takes the side of the position it found.
LEMMA FirstMoved ==
    ASSUME NEW sym, Mirrored(sym), faults = 0, NEW f, NEW dir
    PROVE  \E t : Moved(Mind, <<Seen(f), Turn(Adopted(dir))>>, t, sym) /\ Facing(t)
<1>1. Agreed(worker, Mind, sym) /\ Mind.held = held
    BY MirroredMind
<1>2. PICK a : Moved(Mind, <<Seen(f)>>, a, sym) /\ a.held = held
    BY <1>1, MarksMoved
<1>3. PICK b : /\ Moved(a, <<Turn(Adopted(dir))>>, b, sym)
               /\ b.held = a.held /\ b.trend = Adopted(dir)
    BY <1>2, MarksMoved DEF Moved
<1>4. PICK e, g : e = Seen(f) /\ g = Turn(Adopted(dir))
    OBVIOUS
<1>5. Moved(Mind, <<e, g>>, b, sym)
    BY <1>2, <1>3, <1>4, TwoMoved
<1>6. \A p \in held : Existing(held) = p
    BY <1>1 DEF Agreed, Single, Existing
<1>7. Facing(b)
    BY <1>2, <1>3, <1>6 DEF Facing, Adopted
<1> QED
    BY <1>4, <1>5, <1>7

\* How a plan ends.
LEMMA WellEnded ==
    ASSUME NEW sym, NEW J, NEW p, NEW t, Moved(Mind, p, t, sym), J => Facing(t)
    PROVE  /\ Well(p \o <<Save>>, sym, J)
           /\ \A f : Well(p \o <<Done(f), Save>>, sym, J)
<1>1. Agreed(worker, t, sym)
    BY DEF Moved
<1>2. PICK u : Ended(t, <<Save>>, u, sym) /\ u.held = t.held /\ u.trend = t.trend
    BY <1>1, SaveEnded
<1>3. Well(p \o <<Save>>, sym, J)
    BY <1>2, MovedOn DEF Well, Facing
<1>4. ASSUME NEW f PROVE Well(p \o <<Done(f), Save>>, sym, J)
    <2>1. PICK v : /\ Ended(t, <<Done(f), Save>>, v, sym)
                   /\ v.held = t.held /\ v.trend = t.trend
        BY <1>1, SaveEnded
    <2> QED
        BY <2>1, MovedOn DEF Well, Facing
<1> QED
    BY <1>3, <1>4

-----------------------------------------------------------------------------
\* A scan begins with the candle it saw.
LEMMA SeenMoved ==
    ASSUME NEW sym, Mirrored(sym), faults = 0, NEW f
    PROVE  \E t : /\ Moved(Mind, <<Seen(f)>>, t, sym)
                  /\ t.held = held /\ t.trend = trend
<1>1. Agreed(worker, Mind, sym) /\ Mind.held = held /\ Mind.trend = trend
    BY MirroredMind
<1> QED
    BY <1>1, MarksMoved

\* Managing the position: it is left alone, changed, closed, or changed and closed.
Managed(plan, q, c) ==
    \/ plan = <<>>
    \/ plan = <<Keep(q)>>
    \/ plan = <<Keep(q)>> \o <<>>
    \/ plan = <<Send("CLOSE", c), Drop(c)>>
    \/ plan = <<Keep(q)>> \o <<Send("CLOSE", c), Drop(c)>>

LEMMA ManagedMoved ==
    ASSUME NEW sym, NEW s, Agreed(worker, s, sym), NEW p \in s.held,
           NEW q, q.id = p.id, q.side = p.side, Named(q, sym),
           NEW c, c.id = p.id, NEW plan, Managed(plan, q, c)
    PROVE  \E t : /\ Moved(s, plan, t, sym)
                  /\ t.trend = s.trend /\ \A r \in t.held : r.side = p.side
<1>1. s.held = {p}
    BY DEF Agreed, Single
<1>2. CASE plan = <<>>
    BY <1>1, <1>2, StayMoved
<1>3. PICK t : Moved(s, <<Keep(q)>>, t, sym) /\ t.held = {q} /\ t.trend = s.trend
    BY KeepMoved
<1>4. CASE plan = <<Keep(q)>>
    BY <1>3, <1>4
<1>7. CASE plan = <<Keep(q)>> \o <<>>
    <2>1. Moved(t, <<>>, t, sym)
        BY <1>3, StayMoved DEF Moved
    <2> QED
        BY <1>3, <1>7, <2>1, MovedOn
<1>5. CASE plan = <<Send("CLOSE", c), Drop(c)>>
    BY <1>5, CloseMoved
<1>6. CASE plan = <<Keep(q)>> \o <<Send("CLOSE", c), Drop(c)>>
    <2>1. Agreed(worker, t, sym) /\ q \in t.held /\ c.id = q.id
        BY <1>3 DEF Moved
    <2>2. PICK u : /\ Moved(t, <<Send("CLOSE", c), Drop(c)>>, u, sym)
                   /\ u.held = {} /\ u.trend = t.trend
        BY <2>1, CloseMoved
    <2> QED
        BY <1>3, <1>6, <2>2, MovedOn
<1> QED
    BY <1>2, <1>4, <1>5, <1>6, <1>7 DEF Managed

\* The positions that face away from a direction, and leaving the one there is.
Opposed(S, dir) == {p \in S : Toward(p.side) # dir}
Leaving(S) == IF S = {} THEN <<>> ELSE <<Send("CLOSE", Existing(S)), Drop(Existing(S))>>

\* Opening a position of a side when nothing is left, or not at all.
Entering(plan, S, p) == plan = <<>> \/ (S = {} /\ plan = <<Send("OPEN", p), Keep(p)>>)

\* A flip after the steps p: leave the opposite position, then open if nothing is left.
LEMMA FlipMoved ==
    ASSUME NEW sym, NEW s, NEW t, NEW p, Moved(s, p, t, sym),
           NEW dir, t.trend = dir,
           NEW new, Named(new, sym), new.side = SideOf(dir),
           NEW open, Entering(open, t.held \ Opposed(t.held, dir), new)
    PROVE  \E u : /\ Moved(s, (p \o Leaving(Opposed(t.held, dir))) \o open, u, sym)
                  /\ u.trend = dir
                  /\ dir \in {Up, Down} => \A q \in u.held : Toward(q.side) = dir
<1> DEFINE opp == Opposed(t.held, dir)
<1>1. Agreed(worker, t, sym)
    BY DEF Moved
<1>2. PICK a : Moved(t, Leaving(opp), a, sym) /\ a.held = t.held \ opp /\ a.trend = dir
    <2>1. CASE opp = {}
        BY <1>1, <2>1, StayMoved DEF Leaving
    <2>2. CASE opp # {}
        <3>1. PICK q \in t.held : q = Existing(opp)
            BY <2>2 DEF Existing, Opposed
        <3>2. t.held = {q} /\ opp = {q}
            BY <1>1, <2>2 DEF Agreed, Single, Opposed
        <3>3. PICK a : /\ Moved(t, <<Send("CLOSE", q), Drop(q)>>, a, sym)
                       /\ a.held = {} /\ a.trend = t.trend
            BY <1>1, CloseMoved
        <3> QED
            BY <2>2, <3>1, <3>2, <3>3 DEF Leaving
    <2> QED
        BY <2>1, <2>2
<1>3. Moved(s, p \o Leaving(opp), a, sym) /\ Agreed(worker, a, sym)
    BY <1>2, MovedOn DEF Moved
<1>4. \A q \in a.held : Toward(q.side) = dir
    BY <1>2 DEF Opposed
<1>5. CASE open = <<>>
    <2>1. Moved(a, <<>>, a, sym)
        BY <1>3, StayMoved
    <2> QED
        BY <1>2, <1>3, <1>4, <1>5, <2>1, MovedOn
<1>6. CASE a.held = {} /\ open = <<Send("OPEN", new), Keep(new)>>
    <2>1. PICK b : /\ Moved(a, <<Send("OPEN", new), Keep(new)>>, b, sym)
                   /\ b.held = {new} /\ b.trend = a.trend
        BY <1>3, <1>6, OpenMoved
    <2>2. dir \in {Up, Down} => Toward(new.side) = dir
        BY DEF SideOf, Toward, Up, Down
    <2> QED
        BY <1>2, <1>3, <1>6, <2>1, <2>2, MovedOn
<1> QED
    BY <1>2, <1>5, <1>6 DEF Entering

-----------------------------------------------------------------------------
\* Without regard to a trend: leave the position, or take one when there is none, or both.
Swapped(plan, S, c, p) ==
    \/ plan = <<>>
    \/ S = {} /\ plan = <<Send("OPEN", p), Keep(p)>>
    \/ c \in S /\ plan = <<Send("CLOSE", c), Drop(c)>>
    \/ c \in S /\ plan = <<Send("CLOSE", c), Drop(c)>> \o <<Send("OPEN", p), Keep(p)>>

LEMMA SwappedMoved ==
    ASSUME NEW sym, NEW s, Agreed(worker, s, sym), NEW c, NEW p, Named(p, sym),
           NEW plan, Swapped(plan, s.held, c, p)
    PROVE  \E t : Moved(s, plan, t, sym)
<1>1. CASE plan = <<>>
    BY <1>1, StayMoved
<1>2. CASE s.held = {} /\ plan = <<Send("OPEN", p), Keep(p)>>
    BY <1>2, OpenMoved
<1>3. CASE c \in s.held /\ plan = <<Send("CLOSE", c), Drop(c)>>
    BY <1>3, CloseMoved
<1>4. CASE c \in s.held /\ plan = <<Send("CLOSE", c), Drop(c)>> \o <<Send("OPEN", p), Keep(p)>>
    <2>1. PICK t : Moved(s, <<Send("CLOSE", c), Drop(c)>>, t, sym) /\ t.held = {}
        BY <1>4, CloseMoved
    <2>2. Agreed(worker, t, sym)
        BY <2>1 DEF Moved
    <2>3. PICK u : Moved(t, <<Send("OPEN", p), Keep(p)>>, u, sym)
        BY <2>1, <2>2, OpenMoved
    <2> QED
        BY <1>4, <2>1, <2>3, MovedOn
<1> QED
    BY <1>1, <1>2, <1>3, <1>4 DEF Swapped

\* A scan that neither saves nor changes anything leaves the cache in concord.
LEMMA QuietEnded ==
    ASSUME NEW sym, NEW s, Concord(worker, s, sym), NEW f
    PROVE  /\ \E t : Ended(s, <<Done(f)>>, t, sym)
           /\ \E t : Ended(s, <<Seen(f), Done(f)>>, t, sym)
<1>0. Agreed(worker, s, sym)
    BY DEF Concord
<1>1. PICK t : t = AfterFrom(s, <<Done(f)>>)
    OBVIOUS
<1>2. Agreed(worker, t, sym) /\ SameMemory(s, t) /\ t.held = s.held /\ t.saved = s.saved
    BY <1>0, <1>1, DoneAgreed
<1>3. PICK u : u = AfterFrom(s, <<Seen(f)>>)
    OBVIOUS
<1>4. Agreed(worker, u, sym) /\ SameMemory(s, u) /\ u.held = s.held /\ u.saved = s.saved
    BY <1>0, <1>3, SeenAgreed
<1>5. PICK v : v = AfterFrom(u, <<Done(f)>>)
    OBVIOUS
<1>6. Agreed(worker, v, sym) /\ SameMemory(u, v) /\ v.held = u.held /\ v.saved = u.saved
    BY <1>4, <1>5, DoneAgreed
<1>7. IsPlan(<<Seen(f)>>) /\ IsPlan(<<Done(f)>>)
    BY AfterOne
<1>8. Moved(s, <<Seen(f)>>, u, sym) /\ Moved(u, <<Done(f)>>, v, sym)
    BY <1>3, <1>4, <1>5, <1>6, <1>7 DEF Moved
<1>9. Moved(s, <<Seen(f), Done(f)>>, v, sym)
    <2>1. PICK a, b : a = Seen(f) /\ b = Done(f)
        OBVIOUS
    <2>2. Moved(s, <<a, b>>, v, sym)
        BY <1>8, <2>1, TwoMoved
    <2> QED
        BY <2>1, <2>2
<1>10. Concord(worker, t, sym) /\ Concord(worker, v, sym)
    BY <1>2, <1>4, <1>6 DEF Concord, SameMemory
<1> QED
    BY <1>1, <1>7, <1>9, <1>10 DEF Ended, Moved

\* One sequence, flattened.
LEMMA FlattenSingle ==
    ASSUME NEW seqs, Len(seqs) = 1 PROVE FlattenSeq(seqs) = seqs[1]
<1>1. ASSUME NEW n \in Nat, n = 1, Len(seqs) = n PROVE FlattenSeq(seqs) = seqs[n]
    <2> DEFINE Flat(h) == h = [i \in 1..n |-> IF i = 1 THEN seqs[i] ELSE h[i - 1] \o seqs[i]]
    <2>1. \E h : Flat(h)
        BY FlattenExists
    <2>2. FlattenSeq(seqs) = (CHOOSE h : Flat(h))[n]
        BY <1>1 DEF FlattenSeq
    <2>3. PICK h : Flat(h) /\ FlattenSeq(seqs) = h[n]
        BY <2>1, <2>2
    <2>4. h[n] = seqs[n]
        BY <1>1, <2>3
    <2> QED
        BY <2>3, <2>4
<1> QED
    BY <1>1

\* The plans of every position, when there is one position or none.
LEMMA ForEachOne ==
    ASSUME NEW S, NEW g, NEW seqs,
           seqs = [i \in 1..Len(SetToSeq(S)) |-> g[SetToSeq(S)[i]]]
    PROVE  /\ S = {} => FlattenSeq(seqs) = <<>>
           /\ \A p \in S : Single(S) => FlattenSeq(seqs) = g[p]
<1>1. ASSUME S = {} PROVE FlattenSeq(seqs) = <<>>
    <2>1. IsFiniteSet(S) /\ Cardinality(S) = 0
        BY <1>1, FS_EmptySet, Zenon
    <2>2. Len(SetToSeq(S)) = 0
        BY <2>1, SetLaidOut
    <2>3. seqs = <<>>
        BY <2>2
    <2> QED
        BY <2>3 DEF FlattenSeq
<1>2. ASSUME NEW p \in S, Single(S) PROVE FlattenSeq(seqs) = g[p]
    <2>0. S = {p}
        BY <1>2 DEF Single
    <2>1. IsFiniteSet(S) /\ Cardinality(S) = 1
        BY <2>0, FS_Singleton, Zenon
    <2>2. PICK q : q = SetToSeq(S)
        OBVIOUS
    <2>3. q \in [1..1 -> S] /\ Len(q) = 1
        BY <2>1, <2>2, SetLaidOut
    <2>4. q[1] = p
        BY <2>0, <2>3
    <2>5. seqs = [i \in 1..1 |-> g[q[i]]]
        BY <2>2, <2>3
    <2>6. Len(seqs) = 1 /\ seqs[1] = g[p]
        BY <2>4, <2>5
    <2> QED
        BY <2>6, FlattenSingle
<1> QED
    BY <1>1, <1>2

-----------------------------------------------------------------------------
(* Entries: a plan takes a position the strategy did not hold only after the *)
(* trend has turned, and of the new side, whatever part of the plan is run.  *)

\* What holds at 0 and goes on from one number to the next holds up to n.
LEMMA UpTo ==
    ASSUME NEW n \in Nat, NEW S, 0 \in S, \A i \in 1..n : i - 1 \in S => i \in S
    PROVE  \A i \in 0..n : i \in S
<1> DEFINE bad == {i \in 0..n : i \notin S}
<1>1. SUFFICES ASSUME bad # {} PROVE FALSE
    OBVIOUS
<1>2. bad \in SUBSET Nat
    OBVIOUS
<1>3. PICK i \in bad : \A j \in bad : i <= j
    BY <1>1, <1>2, LeastNat
<1>4. i # 0 /\ i \in 1..n /\ i - 1 \in 0..n /\ i - 1 \notin bad
    BY <1>3
<1> QED
    BY <1>3, <1>4

\* Sequences of the same steps, flattened.
LEMMA FlattenType ==
    ASSUME NEW T, NEW n \in Nat, NEW seqs \in [1..n -> Seq(T)]
    PROVE  FlattenSeq(seqs) \in Seq(T)
<1>3. Len(seqs) = n
    BY FunctionIsPlan
<1>4. CASE n = 0
    <2>1. FlattenSeq(seqs) = seqs
        BY <1>3, <1>4 DEF FlattenSeq
    <2>2. seqs \in Seq(T)
        <3>1. seqs = <<>>
            BY <1>4
        <3> QED
            BY <3>1
    <2> QED
        BY <2>1, <2>2
<1>5. CASE n # 0
    <2> DEFINE Flat(h) == h = [i \in 1..n |-> IF i = 1 THEN seqs[i] ELSE h[i - 1] \o seqs[i]]
    <2>1. PICK h : Flat(h) /\ FlattenSeq(seqs) = h[n]
        <3>1. \E h : Flat(h)
            BY FlattenExists
        <3>2. FlattenSeq(seqs) = (CHOOSE h : Flat(h))[n]
            BY <1>3, <1>5 DEF FlattenSeq
        <3> QED
            BY <3>1, <3>2
    <2>2. \A i \in 1..n : h[i] = IF i = 1 THEN seqs[i] ELSE h[i - 1] \o seqs[i]
        BY <2>1
    <2> HIDE DEF Flat
    <2> DEFINE R == {i \in 0..n : i # 0 => h[i] \in Seq(T)}
    <2>3. 0 \in R
        OBVIOUS
    <2>4. ASSUME NEW i \in 1..n, i - 1 \in R PROVE h[i] \in Seq(T)
        <3>1. CASE i = 1
            BY <2>2, <3>1
        <3>2. CASE i # 1
            <4>1. h[i - 1] \in Seq(T)
                BY <2>4, <3>2
            <4>2. h[i] = h[i - 1] \o seqs[i] /\ seqs[i] \in Seq(T)
                BY <2>2, <3>2
            <4> QED
                BY <4>1, <4>2
        <3> QED
            BY <3>1, <3>2
    <2>5. 0 \in R /\ \A i \in 1..n : i - 1 \in R => i \in R
        BY <2>3, <2>4
    <2> HIDE DEF R
    <2>6. n \in R
        <3>1. \A i \in 0..n : i \in R
            BY <2>5, UpTo
        <3> QED
            BY <3>1
    <2>7. h[n] \in Seq(T)
        BY <1>5, <2>6 DEF R
    <2> QED
        BY <2>1, <2>7
<1> QED
    BY <1>4, <1>5

\* Finitely many positions, each of the symbol sym.
AllNamed(S, sym) == IsFiniteSet(S) /\ \A p \in S : Named(p, sym)

\* A mind whose positions and signals are all of the symbol, however it came about.
NamedMind(s, sym) ==
    /\ IsMind(s) /\ AllNamed(s.held, sym) /\ AllNamed(s.saved, sym)
    /\ \E T : s.stream \in Seq(T) /\ \A e \in T : Named(e.pos, sym)

\* A step of a scan that takes the direction d; turned: the trend has turned before.
Fits(e, d, sym, turned) ==
    \/ \E k, p : e = Send(k, p) /\ Named(p, sym)
    \/ \E p : e = Keep(p) /\ Named(p, sym) /\ p.id \in Ids(held)
    \/ \E p : e = Keep(p) /\ Named(p, sym) /\ turned /\ d # trend /\ p.side = SideOf(d)
    \/ \E p : e = Drop(p)
    \/ e = Turn(d)
    \/ \E f : e = Seen(f)
    \/ \E f : e = Done(f)
    \/ e = Save

Turns(plan, d) == \E i \in 1..Len(plan) : plan[i] = Turn(d)

Orderly(plan, d, sym, turned) ==
    /\ IsPlan(plan)
    /\ \A i \in 1..Len(plan) :
          Fits(plan[i], d, sym, turned \/ \E j \in 1..i - 1 : plan[j] = Turn(d))

\* What a mind on the way through an orderly plan holds.
Along(s, d, turned) ==
    /\ s.trend = IF turned THEN d ELSE trend
    /\ \A p \in s.held : \/ p.id \in Ids(held)
                         \/ turned /\ d # trend /\ p.side = SideOf(d)

LEMMA OrderlyNothing ==
    ASSUME NEW d, NEW sym, NEW b PROVE Orderly(<<>>, d, sym, b)
<1>1. PICK c : c = <<>>
    OBVIOUS
<1>2. c \in Seq({}) /\ 1..Len(c) = {}
    BY <1>1
<1>3. Orderly(c, d, sym, b)
    BY <1>2 DEF Orderly, IsPlan
<1> QED
    BY <1>1, <1>3, Zenon

LEMMA OrderlyOne ==
    ASSUME NEW d, NEW sym, NEW b, NEW e, Fits(e, d, sym, b)
    PROVE  Orderly(<<e>>, d, sym, b)
<1>1. PICK c : c = <<e>>
    OBVIOUS
<1>2. IsPlan(c) /\ Len(c) = 1 /\ c[1] = e
    <2>1. c \in Seq({e})
        BY <1>1
    <2>2. Len(c) = 1 /\ c[1] = e
        BY <1>1
    <2> QED
        BY <2>1, <2>2 DEF IsPlan
<1>3. ASSUME NEW i \in 1..Len(c)
      PROVE  Fits(c[i], d, sym, b \/ \E j \in 1..i - 1 : c[j] = Turn(d))
    <2>1. i = 1 /\ c[i] = e
        BY <1>2
    <2> QED
        BY <2>1 DEF Fits
<1>4. Orderly(c, d, sym, b)
    BY <1>2, <1>3 DEF Orderly
<1> QED
    BY <1>1, <1>4, Zenon

\* One plan after the other; the second may rely on a turn in the first.
LEMMA OrderlyBoth ==
    ASSUME NEW d, NEW sym, NEW b, NEW c, NEW p, NEW q,
           Orderly(p, d, sym, b), Orderly(q, d, sym, c), c => b \/ Turns(p, d)
    PROVE  /\ Orderly(p \o q, d, sym, b)
           /\ Turns(p, d) \/ Turns(q, d) <=> Turns(p \o q, d)
<1>1. IsPlan(p) /\ IsPlan(q)
    BY DEF Orderly
<1>2. PICK r : r = p \o q
    OBVIOUS
<1>3. PICK m \in Nat, n \in Nat : m = Len(p) /\ n = Len(q)
    BY <1>1, PlanParts
<1>4. /\ IsPlan(r) /\ Len(r) = m + n
      /\ \A k \in 1..m : r[k] = p[k]
      /\ \A k \in 1..n : r[m + k] = q[k]
    BY <1>1, <1>2, <1>3, PlanParts
<1>5. ASSUME NEW i \in 1..m
      PROVE  Fits(r[i], d, sym, b \/ \E j \in 1..i - 1 : r[j] = Turn(d))
    <2>1. Fits(p[i], d, sym, b \/ \E j \in 1..i - 1 : p[j] = Turn(d))
        BY <1>3 DEF Orderly
    <2>2. r[i] = p[i] /\ \A j \in 1..i - 1 : r[j] = p[j]
        BY <1>4
    <2> QED
        BY <2>1, <2>2 DEF Fits
<1>6. ASSUME NEW k \in 1..n
      PROVE  Fits(r[m + k], d, sym, b \/ \E j \in 1..m + k - 1 : r[j] = Turn(d))
    <2>1. Fits(q[k], d, sym, c \/ \E j \in 1..k - 1 : q[j] = Turn(d))
        BY <1>3 DEF Orderly
    <2>2. ASSUME NEW j \in 1..k - 1, q[j] = Turn(d)
          PROVE  \E i \in 1..m + k - 1 : r[i] = Turn(d)
        <3>1. m + j \in 1..m + k - 1 /\ j \in 1..n
            OBVIOUS
        <3> QED
            BY <1>4, <2>2, <3>1
    <2>3. ASSUME Turns(p, d) PROVE \E i \in 1..m + k - 1 : r[i] = Turn(d)
        <3>1. PICK j \in 1..m : p[j] = Turn(d)
            BY <1>3, <2>3 DEF Turns
        <3>2. j \in 1..m + k - 1
            OBVIOUS
        <3> QED
            BY <1>4, <3>1, <3>2
    <2>4. (c \/ \E j \in 1..k - 1 : q[j] = Turn(d))
              => (b \/ \E j \in 1..m + k - 1 : r[j] = Turn(d))
        BY <2>2, <2>3
    <2>5. r[m + k] = q[k]
        BY <1>4
    <2> QED
        BY <2>1, <2>4, <2>5 DEF Fits
<1>7. ASSUME NEW i \in 1..Len(r)
      PROVE  Fits(r[i], d, sym, b \/ \E j \in 1..i - 1 : r[j] = Turn(d))
    <2>1. CASE i \in 1..m
        BY <1>5, <2>1
    <2>2. CASE i \notin 1..m
        <3>1. i - m \in 1..n /\ m + (i - m) = i
            BY <1>4, <2>2
        <3> QED
            BY <1>6, <3>1
    <2> QED
        BY <2>1, <2>2
<1>8. Orderly(r, d, sym, b)
    BY <1>4, <1>7 DEF Orderly
<1>9. Turns(p, d) \/ Turns(q, d) <=> Turns(r, d)
    <2>1. ASSUME NEW i \in 1..m, p[i] = Turn(d) PROVE Turns(r, d)
        BY <1>4, <2>1 DEF Turns
    <2>2. ASSUME NEW i \in 1..n, q[i] = Turn(d) PROVE Turns(r, d)
        <3>1. m + i \in 1..Len(r)
            BY <1>4
        <3> QED
            BY <1>4, <2>2, <3>1 DEF Turns
    <2>3. ASSUME NEW i \in 1..Len(r), r[i] = Turn(d) PROVE Turns(p, d) \/ Turns(q, d)
        <3>1. CASE i \in 1..m
            BY <1>3, <1>4, <2>3, <3>1 DEF Turns
        <3>2. CASE i \notin 1..m
            <4>1. i - m \in 1..n /\ m + (i - m) = i
                BY <1>4, <3>2
            <4> QED
                BY <1>3, <1>4, <2>3, <4>1 DEF Turns
        <3> QED
            BY <3>1, <3>2
    <2> QED
        BY <1>3, <2>1, <2>2, <2>3 DEF Turns
<1> QED
    BY <1>2, <1>8, <1>9, Zenon

\* A fault leaves an orderly plan behind: its beginning, or all of it but a send.
LEMMA OrderlyPart ==
    ASSUME NEW d, NEW sym, NEW b, NEW plan, Orderly(plan, d, sym, b),
           NEW k \in 1..Len(plan), plan[k].do = "send"
    PROVE  /\ Orderly(SubSeq(plan, 1, k - 1), d, sym, b)
           /\ Orderly(RemoveAt(plan, k), d, sym, b)
<1>1. PICK T : plan \in Seq(T)
    BY DEF Orderly, IsPlan
<1>2. PICK n \in Nat : n = Len(plan)
    BY <1>1
<1>3. k \in 1..n /\ k - 1 \in 0..n
    BY <1>2
<1>4. PICK p : p = SubSeq(plan, 1, k - 1)
    OBVIOUS
<1>5. p \in Seq(T) /\ Len(p) = k - 1 /\ \A i \in 1..k - 1 : p[i] = plan[i]
    BY <1>1, <1>2, <1>3, <1>4
<1>6. PICK q : q = SubSeq(plan, k + 1, n)
    OBVIOUS
<1>7. q \in Seq(T) /\ Len(q) = n - k /\ \A i \in 1..n - k : q[i] = plan[k + i]
    BY <1>1, <1>2, <1>3, <1>6
<1>8. \A i \in 1..n :
        Fits(plan[i], d, sym, b \/ \E j \in 1..i - 1 : plan[j] = Turn(d))
    BY <1>2 DEF Orderly
<1>9. Orderly(p, d, sym, b)
    <2>1. ASSUME NEW i \in 1..k - 1
          PROVE  Fits(p[i], d, sym, b \/ \E j \in 1..i - 1 : p[j] = Turn(d))
        <3>1. p[i] = plan[i] /\ \A j \in 1..i - 1 : p[j] = plan[j]
            BY <1>5
        <3> QED
            BY <1>3, <1>8, <3>1 DEF Fits
    <2> QED
        BY <1>5, <2>1 DEF Orderly, IsPlan
<1>10. Orderly(q, d, sym, b \/ Turns(p, d))
    <2>1. ASSUME NEW i \in 1..n - k
          PROVE  Fits(q[i], d, sym, (b \/ Turns(p, d)) \/ \E j \in 1..i - 1 : q[j] = Turn(d))
        <3>1. k + i \in 1..n /\ q[i] = plan[k + i]
            BY <1>3, <1>7
        <3>2. ASSUME NEW j \in 1..k + i - 1, plan[j] = Turn(d)
              PROVE  Turns(p, d) \/ \E l \in 1..i - 1 : q[l] = Turn(d)
            <4>1. j # k
                BY <3>2 DEF Turn
            <4>2. CASE j < k
                <5>1. j \in 1..k - 1
                    BY <4>2
                <5> QED
                    BY <1>5, <3>2, <5>1 DEF Turns
            <4>3. CASE j > k
                <5>1. j - k \in 1..i - 1 /\ j - k \in 1..n - k /\ k + (j - k) = j
                    BY <4>3
                <5> QED
                    BY <1>7, <3>2, <5>1
            <4> QED
                BY <4>1, <4>2, <4>3
        <3>3. Fits(plan[k + i], d, sym, b \/ \E j \in 1..k + i - 1 : plan[j] = Turn(d))
            BY <1>8, <3>1
        <3>4. (b \/ \E j \in 1..k + i - 1 : plan[j] = Turn(d))
                => (b \/ Turns(p, d)) \/ \E j \in 1..i - 1 : q[j] = Turn(d)
            BY <3>2
        <3> QED
            BY <3>1, <3>3, <3>4 DEF Fits
    <2> QED
        BY <1>7, <2>1 DEF Orderly, IsPlan
<1>11. RemoveAt(plan, k) = p \o q
    BY <1>2, <1>4, <1>6 DEF RemoveAt
<1>12. Orderly(p \o q, d, sym, b)
    BY <1>9, <1>10, OrderlyBoth
<1> QED
    BY <1>4, <1>9, <1>11, <1>12, Zenon

LEMMA OthersNamed ==
    ASSUME NEW sym, NEW S, AllNamed(S, sym), NEW p
    PROVE  /\ AllNamed(Others(S, p), sym)
           /\ Named(p, sym) => AllNamed(Others(S, p) \cup {p}, sym)
<1>1. Others(S, p) \in SUBSET S
    BY DEF Others
<1>2. IsFiniteSet(Others(S, p))
    BY <1>1, FS_Subset DEF AllNamed
<1>3. IsFiniteSet(Others(S, p) \cup {p})
    BY <1>2, FS_AddElement
<1> QED
    BY <1>1, <1>2, <1>3 DEF AllNamed

LEMMA StepAlong ==
    ASSUME NEW d, NEW sym, NEW b \in BOOLEAN, NEW s, NamedMind(s, sym), Along(s, d, b),
           NEW e, Fits(e, d, sym, b), NEW t, t = Performed(s, e)
    PROVE  NamedMind(t, sym) /\ Along(t, d, b \/ e = Turn(d))
<1>1. IsMind(s) /\ AllNamed(s.held, sym) /\ AllNamed(s.saved, sym)
    BY DEF NamedMind
<1>2. PICK T : s.stream \in Seq(T) /\ \A x \in T : Named(x.pos, sym)
    BY DEF NamedMind
<1>3. CASE e = Turn(d)
    <2>1. IsMind(t) /\ t.trend = d /\ t.held = s.held /\ t.stream = s.stream /\ t.saved = s.saved
        BY <1>1, <1>3, AfterTurn
    <2>2. NamedMind(t, sym)
        BY <1>1, <1>2, <2>1 DEF NamedMind
    <2>3. Along(t, d, TRUE)
        BY <2>1 DEF Along
    <2> QED
        BY <1>3, <2>2, <2>3
<1>4. CASE e # Turn(d)
    <2>1. ASSUME NEW k, NEW p, e = Send(k, p), Named(p, sym)
          PROVE  NamedMind(t, sym) /\ Along(t, d, b)
        <3>1. /\ IsMind(t) /\ t.stream \in {Append(s.stream, e), s.stream}
              /\ t.held = s.held /\ t.saved = s.saved /\ t.trend = s.trend
            BY <1>1, <2>1, AfterSend DEF Goes, Repeats
        <3>2. PICK U : U = T \cup {e}
            OBVIOUS
        <3>3. s.stream \in Seq(U) /\ e \in U
            BY <1>2, <3>2, SeqMonotonic
        <3>4. e.pos = p
            BY <2>1 DEF Send
        <3>5. t.stream \in Seq(U) /\ \A x \in U : Named(x.pos, sym)
            BY <1>2, <2>1, <3>1, <3>2, <3>3, <3>4
        <3> QED
            BY <1>1, <3>1, <3>5 DEF NamedMind, Along
    <2>2. ASSUME NEW p, e = Keep(p), Named(p, sym),
                 p.id \in Ids(held) \/ (b /\ d # trend /\ p.side = SideOf(d))
          PROVE  NamedMind(t, sym) /\ Along(t, d, b)
        <3>1. /\ IsMind(t) /\ t.held = Others(s.held, p) \cup {p}
              /\ t.stream = s.stream /\ t.saved = s.saved /\ t.trend = s.trend
            BY <1>1, <2>2, AfterKeep
        <3>2. AllNamed(t.held, sym)
            BY <1>1, <2>2, <3>1, OthersNamed
        <3> QED
            BY <1>1, <1>2, <2>2, <3>1, <3>2 DEF NamedMind, Along, Others
    <2>3. ASSUME NEW p, e = Drop(p) PROVE NamedMind(t, sym) /\ Along(t, d, b)
        <3>1. /\ IsMind(t) /\ t.held = Others(s.held, p)
              /\ t.stream = s.stream /\ t.saved = s.saved /\ t.trend = s.trend
            BY <1>1, <2>3, AfterDrop
        <3>2. AllNamed(t.held, sym)
            BY <1>1, <3>1, OthersNamed
        <3> QED
            BY <1>1, <1>2, <3>1, <3>2 DEF NamedMind, Along, Others
    <2>4. ASSUME NEW f, e = Seen(f) \/ e = Done(f) PROVE NamedMind(t, sym) /\ Along(t, d, b)
        <3>1. /\ IsMind(t) /\ t.trend = s.trend
              /\ t.held = s.held /\ t.stream = s.stream /\ t.saved = s.saved
            BY <1>1, <2>4, AfterSeen, AfterDone
        <3> QED
            BY <1>1, <1>2, <3>1 DEF NamedMind, Along
    <2>5. ASSUME e = Save PROVE NamedMind(t, sym) /\ Along(t, d, b)
        <3>1. /\ IsMind(t) /\ t.saved = s.held
              /\ t.held = s.held /\ t.stream = s.stream /\ t.trend = s.trend
            BY <1>1, <2>5, AfterSave
        <3> QED
            BY <1>1, <1>2, <3>1 DEF NamedMind, Along
    <2>6. NamedMind(t, sym) /\ Along(t, d, b)
        BY <1>4, <2>1, <2>2, <2>3, <2>4, <2>5 DEF Fits
    <2> QED
        BY <1>4, <2>6 DEF Along
<1> QED
    BY <1>3, <1>4

\* What an orderly plan leads to.
LEMMA OrderlyRun ==
    ASSUME NEW d, NEW sym, NEW plan, Orderly(plan, d, sym, FALSE), NamedMind(Mind, sym)
    PROVE  NamedMind(AfterPlan(plan), sym) /\ Along(AfterPlan(plan), d, Turns(plan, d))
<1>1. PICK T : plan \in Seq(T)
    BY DEF Orderly, IsPlan
<1>2. PICK n \in Nat : n = Len(plan)
    BY <1>1
<1>3. PICK f : Course(f, Mind, plan, n)
    BY CourseExists
<1>4. f[0] = Mind /\ \A k \in 1..n : f[k] = Performed(f[k - 1], plan[k])
    BY <1>3 DEF Course
<1>5. AfterPlan(plan) = f[n]
    <2>1. ASSUME NEW a, NEW h, h[0] = a, \A k \in 1..n : h[k] = Performed(h[k - 1], plan[k])
          PROVE  AfterFrom(a, plan) = h[n]
        BY <1>2, <2>1, Follows
    <2> QED
        BY <1>4, <2>1 DEF AfterPlan
<1> DEFINE turned(k) == \E j \in 1..k : plan[j] = Turn(d)
           R == {k \in 0..n : NamedMind(f[k], sym) /\ Along(f[k], d, turned(k))}
<1>6. 0 \in R
    <2>1. ~ turned(0)
        OBVIOUS
    <2>2. Mind.trend = trend /\ Mind.held = held
        BY DEF Mind
    <2>3. Along(Mind, d, turned(0))
        BY <2>1, <2>2 DEF Along, Ids
    <2>4. NamedMind(f[0], sym) /\ Along(f[0], d, turned(0))
        BY <1>4, <2>3 DEF Along
    <2> QED
        BY <2>4 DEF Along
<1>7. ASSUME NEW k \in 1..n, k - 1 \in R PROVE k \in R
    <2>1. NamedMind(f[k - 1], sym) /\ Along(f[k - 1], d, turned(k - 1))
        BY <1>7
    <2>2. Fits(plan[k], d, sym, turned(k - 1))
        <3>1. Fits(plan[k], d, sym, FALSE \/ turned(k - 1))
            BY <1>2 DEF Orderly
        <3> QED
            BY <3>1 DEF Fits
    <2>3. PICK b \in BOOLEAN : b <=> turned(k - 1)
        OBVIOUS
    <2>4. Along(f[k - 1], d, b) /\ Fits(plan[k], d, sym, b)
        BY <2>1, <2>2, <2>3 DEF Along, Fits
    <2>5. f[k] = Performed(f[k - 1], plan[k])
        BY <1>4
    <2>6. NamedMind(f[k], sym) /\ Along(f[k], d, b \/ plan[k] = Turn(d))
        BY <2>1, <2>4, <2>5, StepAlong
    <2>7. turned(k) <=> b \/ plan[k] = Turn(d)
        <3>1. 1..k = (1..k - 1) \cup {k}
            OBVIOUS
        <3> QED
            BY <2>3, <3>1
    <2>8. Along(f[k], d, turned(k))
        BY <2>6, <2>7 DEF Along
    <2> QED
        BY <2>6, <2>8 DEF Along
<1> HIDE DEF R
<1>8. n \in R
    <2>1. \A k \in 0..n : k \in R
        BY <1>6, <1>7, UpTo
    <2> QED
        BY <2>1
<1> QED
    BY <1>2, <1>5, <1>8 DEF R, Turns

\* The positions of the strategy and of the worker are of the symbol, and the entry
\* taken since the trend turned is of its side.
EntryInv(sym) ==
    /\ NamedMind(Mind, sym) /\ AllNamed(worker, sym)
    /\ trend \in {0, Up, Down} /\ restarts \in Nat
    /\ trend = 0 => entered = "none"
    /\ trend # 0 => entered \in {"none", SideOf(trend)}

LEMMA MindHas ==
    ASSUME NEW sym, NamedMind(Mind, sym)
    PROVE  /\ AllNamed(held, sym) /\ AllNamed(saved, sym)
           /\ \E T : stream \in Seq(T) /\ \A e \in T : Named(e.pos, sym)
BY DEF NamedMind, Mind

LEMMA HasMind ==
    ASSUME NEW sym, AllNamed(held, sym), AllNamed(saved, sym),
           NEW T, stream \in Seq(T), \A e \in T : Named(e.pos, sym)
    PROVE  NamedMind(Mind, sym)
<1>1. PICK m : m = Mind
    OBVIOUS
<1>2. IsMind(m) /\ m.held = held /\ m.saved = saved /\ m.stream = stream
    BY <1>1, MindIsMind DEF Mind
<1>3. NamedMind(m, sym)
    BY <1>2 DEF NamedMind
<1> QED
    BY <1>1, <1>3

\* The entries of a life are known by name.
LEMMA NothingNew == NewIn(held) = {}
BY DEF NewIn

LEMMA StartEntry ==
    ASSUME NEW C, NEW sym, StartBook(C) PROVE EntryInv(sym)
<1>1. held = {} /\ saved = {} /\ worker = {} /\ trend = 0 /\ entered = "none" /\ stream = <<>>
      /\ restarts = 0
    BY DEF StartBook
<1>2. AllNamed({}, sym)
    BY FS_EmptySet DEF AllNamed
<1>3. stream \in Seq({})
    BY <1>1
<1>4. NamedMind(Mind, sym)
    BY <1>1, <1>2, <1>3, HasMind
<1> QED
    BY <1>1, <1>2, <1>4 DEF EntryInv

\* Whatever happens around a strategy takes no position.
LEMMA AroundEntry ==
    ASSUME NEW sym, EntryInv(sym),
           \/ \E f, C : CandleCloses(f, C)
           \/ \E f : ShouldScanAfterEvent(f)
           \/ Around({p \in LoadPositions : p.symbol = sym})
           \/ UNCHANGED book
    PROVE  EntryInv(sym)' /\ OneEntryPerTurn
<1>1. /\ AllNamed(held, sym) /\ AllNamed(saved, sym) /\ AllNamed(worker, sym)
      /\ NamedMind(Mind, sym)
    BY MindHas DEF EntryInv
<1>2. PICK T : stream \in Seq(T) /\ \A e \in T : Named(e.pos, sym)
    BY MindHas DEF EntryInv
<1>3. CASE UNCHANGED <<held, saved, stream, trend, worker, entered, restarts>>
    <2>1. NamedMind(Mind, sym)'
        BY <1>1, <1>2, <1>3, MindIsMind DEF NamedMind, Mind, IsMind
    <2> QED
        BY <1>1, <1>3, <2>1, NothingNew DEF EntryInv, OneEntryPerTurn, AllNamed
<1>4. CASE WorkerTakes
    <2>1. /\ stream # <<>> /\ worker' = Taken(worker, Head(stream)) /\ stream' = Tail(stream)
          /\ UNCHANGED <<held, saved, trend, entered, restarts>>
        BY <1>4 DEF WorkerTakes
    <2>2. Head(stream) \in T /\ stream' \in Seq(T)
        BY <1>2, <2>1
    <2>3. AllNamed(worker, sym)'
        <3>1. Named(Head(stream).pos, sym)
            BY <1>2, <2>2
        <3>2. worker' \in {worker, worker \cup {Head(stream).pos}, Others(worker, Head(stream).pos)}
            BY <2>1 DEF Taken
        <3>3. IsFiniteSet(worker \cup {Head(stream).pos})
            BY <1>1, FS_AddElement DEF AllNamed
        <3>4. AllNamed(Others(worker, Head(stream).pos), sym)
            BY <1>1, OthersNamed
        <3> QED
            BY <1>1, <3>1, <3>2, <3>3, <3>4 DEF AllNamed
    <2>4. NamedMind(Mind, sym)'
        <3>1. AllNamed(held, sym)' /\ AllNamed(saved, sym)'
            BY <1>1, <2>1 DEF AllNamed
        <3> QED
            BY <1>2, <2>2, <3>1 DEF NamedMind, Mind, IsMind, AllNamed
    <2> QED
        BY <2>1, <2>3, <2>4, NothingNew DEF EntryInv, OneEntryPerTurn
<1>5. CASE WorkerCloses
    <2>1. /\ worker' \in SUBSET worker /\ UNCHANGED <<held, saved, stream, trend, entered, restarts>>
        BY <1>5 DEF WorkerCloses
    <2>2. AllNamed(worker, sym)'
        BY <1>1, <2>1, FS_Subset DEF AllNamed
    <2>3. NamedMind(Mind, sym)'
        BY <1>1, <1>2, <2>1 DEF NamedMind, Mind, IsMind, AllNamed
    <2> QED
        BY <2>1, <2>2, <2>3, NothingNew DEF EntryInv, OneEntryPerTurn
<1>6. CASE Restart({p \in LoadPositions : p.symbol = sym})
    <2>1. /\ restarts' = restarts + 1
          /\ held' = {p \in LoadPositions : p.symbol = sym}
          /\ trend' = 0 /\ entered' = "none" /\ UNCHANGED <<saved, stream, worker>>
        BY <1>6 DEF Restart
    <2>2. AllNamed(held, sym)'
        <3>1. held' \in SUBSET worker \/ held' \in SUBSET saved
            BY <2>1 DEF LoadPositions
        <3> QED
            BY <1>1, <3>1, FS_Subset DEF AllNamed
    <2>3. NamedMind(Mind, sym)'
        BY <1>1, <1>2, <2>1, <2>2 DEF NamedMind, Mind, IsMind, AllNamed
    <2>4. restarts' \in Nat /\ restarts' # restarts
        BY <2>1 DEF EntryInv
    <2>5. AllNamed(worker, sym)'
        BY <1>1, <2>1 DEF AllNamed
    <2> QED
        BY <2>1, <2>3, <2>4, <2>5 DEF EntryInv, OneEntryPerTurn, Up, Down
<1> QED
    BY <1>3, <1>4, <1>5, <1>6 DEF CandleCloses, ShouldScanAfterEvent, Around, book

\* What a scan leaves, or the part of it that was done before a fault.
LEMMA PartDone ==
    ASSUME NEW d, NEW sym, NEW plan, Orderly(plan, d, sym, FALSE), NamedMind(Mind, sym),
           Perform(plan)
    PROVE  \E part, t : /\ Orderly(part, d, sym, FALSE) /\ Becomes(t)
                        /\ NamedMind(t, sym) /\ Along(t, d, Turns(part, d))
<1>1. ASSUME NEW part, Orderly(part, d, sym, FALSE)
      PROVE  NamedMind(AfterPlan(part), sym) /\ Along(AfterPlan(part), d, Turns(part, d))
    BY <1>1, OrderlyRun
<1>2. CASE Becomes(AfterPlan(plan))
    BY <1>1, <1>2
<1>3. ASSUME NEW k \in 1..Len(plan), plan[k].do = "send",
             Raises(AfterPlan(SubSeq(plan, 1, k - 1)), plan[k])
      PROVE  \E part, t : /\ Orderly(part, d, sym, FALSE) /\ Becomes(t)
                          /\ NamedMind(t, sym) /\ Along(t, d, Turns(part, d))
    <2>1. PICK part : part = SubSeq(plan, 1, k - 1)
        OBVIOUS
    <2>2. Orderly(part, d, sym, FALSE)
        BY <1>3, <2>1, OrderlyPart
    <2>3. PICK s : s = AfterPlan(part)
        OBVIOUS
    <2>4. NamedMind(s, sym) /\ Along(s, d, Turns(part, d))
        BY <1>1, <2>2, <2>3
    <2>5. PICK t : t = Remembering(s, plan[k])
        OBVIOUS
    <2>6. Becomes(t)
        BY <1>3, <2>1, <2>3, <2>5 DEF Raises
    <2>7. IsMind(t) /\ t.held = s.held /\ t.saved = s.saved /\ t.stream = s.stream
          /\ t.trend = s.trend
        <3>1. IsMind(s)
            BY <2>4 DEF NamedMind
        <3>2. t = s \/ \E v : t = [s EXCEPT !.remembered = v]
            BY <2>5 DEF Remembering
        <3> QED
            BY <3>1, <3>2 DEF IsMind
    <2>8. NamedMind(t, sym) /\ Along(t, d, Turns(part, d))
        BY <2>4, <2>7 DEF NamedMind, Along
    <2> QED
        BY <2>2, <2>6, <2>8
<1>4. ASSUME NEW k \in 1..Len(plan), plan[k].do = "send",
             Becomes(AfterPlan(RemoveAt(plan, k)))
      PROVE  \E part, t : /\ Orderly(part, d, sym, FALSE) /\ Becomes(t)
                          /\ NamedMind(t, sym) /\ Along(t, d, Turns(part, d))
    <2>1. Orderly(RemoveAt(plan, k), d, sym, FALSE)
        BY <1>4, OrderlyPart
    <2> QED
        BY <1>1, <1>4, <2>1
<1> QED
    BY <1>2, <1>3, <1>4, Zenon DEF Perform

\* A scan, or the part of it a fault leaves: positions are taken only when the trend
\* turns, and the first one since a turn is of its side.
LEMMA EntryOnce ==
    ASSUME NEW sym, EntryInv(sym), NEW d \in {Up, Down}, NEW plan,
           Orderly(plan, d, sym, FALSE), Perform(plan)
    PROVE  EntryInv(sym)' /\ OneEntryPerTurn
<1>1. UNCHANGED <<worker, restarts>>
    BY DEF Perform
<1>2. PICK part, t : /\ Orderly(part, d, sym, FALSE) /\ Becomes(t)
                     /\ NamedMind(t, sym) /\ Along(t, d, Turns(part, d))
    BY PartDone DEF EntryInv
<1>3. NamedMind(t, sym) /\ Along(t, d, Turns(part, d))
    BY <1>2
<1>4. /\ held' = t.held /\ saved' = t.saved /\ stream' = t.stream /\ trend' = t.trend
      /\ entered' = IF NewIn(t.held) # {} THEN (CHOOSE p \in NewIn(t.held) : TRUE).side
                    ELSE IF t.trend # trend THEN "none" ELSE entered
    BY <1>1, <1>2 DEF Becomes
<1>5. NamedMind(Mind, sym)'
    BY <1>3, <1>4 DEF NamedMind, Mind, IsMind, AllNamed
<1>6. AllNamed(worker, sym)' /\ restarts' \in Nat
    BY <1>1 DEF EntryInv, AllNamed
<1>7. PICK b \in BOOLEAN : b <=> Turns(part, d)
    OBVIOUS
<1>8. /\ t.trend = IF b THEN d ELSE trend
      /\ \A p \in NewIn(t.held) : b /\ d # trend /\ p.side = SideOf(d)
    BY <1>3, <1>7 DEF Along, NewIn, Ids
<1>9. SideOf(Up) = "LONG" /\ SideOf(Down) = "SHORT" /\ Up = -1 /\ Down = 1
    BY DEF SideOf, Up, Down
<1>10. CASE NewIn(t.held) # {}
    <2>1. (CHOOSE p \in NewIn(t.held) : TRUE) \in NewIn(t.held)
        BY <1>10
    <2>2. entered' = SideOf(d) /\ trend' = d /\ d # trend
        BY <1>4, <1>8, <1>10, <2>1
    <2>3. entered # SideOf(d)
        BY <1>9, <2>2 DEF EntryInv
    <2> QED
        BY <1>5, <1>6, <1>9, <2>2, <2>3 DEF EntryInv, OneEntryPerTurn
<1>11. CASE NewIn(t.held) = {}
    <2>1. trend' \in {d, trend} /\ entered' = IF trend' # trend THEN "none" ELSE entered
        BY <1>4, <1>8, <1>11
    <2>2. NewIn(held') = {}
        BY <1>4, <1>11
    <2> QED
        BY <1>5, <1>6, <1>9, <2>1, <2>2 DEF EntryInv, OneEntryPerTurn
<1> QED
    BY <1>10, <1>11

\* Steps that need no turn, in a row.
LEMMA OrderlySteps ==
    ASSUME NEW d, NEW sym, NEW b, NEW T, \A e \in T : Fits(e, d, sym, b),
           NEW plan \in Seq(T)
    PROVE  Orderly(plan, d, sym, b)
<1>1. ASSUME NEW i \in 1..Len(plan)
      PROVE  Fits(plan[i], d, sym, b \/ \E j \in 1..i - 1 : plan[j] = Turn(d))
    <2>1. plan[i] \in T
        OBVIOUS
    <2>2. Fits(plan[i], d, sym, b)
        BY <2>1
    <2> QED
        BY <2>2 DEF Fits
<1> QED
    BY <1>1 DEF Orderly, IsPlan

\* Two steps, and what the turn of the trend allows.
LEMMA OrderlyTwo ==
    ASSUME NEW d, NEW sym, NEW b, NEW e, NEW f, Fits(e, d, sym, b), Fits(f, d, sym, b)
    PROVE  Orderly(<<e, f>>, d, sym, b)
<1>1. PICK c : c = <<e, f>>
    OBVIOUS
<1>2. c \in Seq({e, f})
    BY <1>1
<1>3. Orderly(c, d, sym, b)
    BY <1>2, OrderlySteps
<1> QED
    BY <1>1, <1>3

LEMMA OrderlyOn ==
    ASSUME NEW d, NEW sym, NEW p, NEW q,
           Orderly(p, d, sym, FALSE), Turns(p, d), Orderly(q, d, sym, TRUE)
    PROVE  Orderly(p \o q, d, sym, FALSE) /\ Turns(p \o q, d)
BY OrderlyBoth

LEMMA OrderlyThen ==
    ASSUME NEW d, NEW sym, NEW p, NEW q, Orderly(p, d, sym, FALSE), Orderly(q, d, sym, FALSE)
    PROVE  Orderly(p \o q, d, sym, FALSE)
BY OrderlyBoth

\* What a scan has to show.
Enters(plan, sym) == \E d \in {Up, Down} : Orderly(plan, d, sym, FALSE)

\* The steps that take no position fit anywhere.
LEMMA QuietFits ==
    ASSUME NEW d, NEW sym, NEW b
    PROVE  /\ Fits(Turn(d), d, sym, b) /\ Fits(Save, d, sym, b)
           /\ \A f : Fits(Seen(f), d, sym, b) /\ Fits(Done(f), d, sym, b)
           /\ \A p : Fits(Drop(p), d, sym, b)
           /\ \A k, p : Named(p, sym) => Fits(Send(k, p), d, sym, b)
BY DEF Fits

\* The first scan of a life only turns.
LEMMA FirstEnters ==
    ASSUME NEW dir \in {Up, Down}, NEW sym, NEW f
    PROVE  /\ Adopted(dir) \in {Up, Down}
           /\ Orderly(<<Seen(f), Turn(Adopted(dir))>>, Adopted(dir), sym, FALSE)
<1>1. Adopted(dir) \in {Up, Down}
    BY DEF Adopted, Toward
<1> QED
    BY <1>1, QuietFits, OrderlyTwo

\* Leaving, managing and, once the trend has turned, entering.
LEMMA LeavingOrderly ==
    ASSUME NEW d, NEW sym, NEW b, NEW S, \A p \in S : Named(p, sym)
    PROVE  Orderly(Leaving(S), d, sym, b)
<1>1. CASE S = {}
    BY <1>1, OrderlyNothing DEF Leaving
<1>2. CASE S # {}
    <2>1. PICK p \in S : Existing(S) = p
        BY <1>2 DEF Existing
    <2>2. Orderly(<<Send("CLOSE", p), Drop(p)>>, d, sym, b)
        BY QuietFits, OrderlyTwo
    <2> QED
        BY <1>2, <2>1, <2>2, Zenon DEF Leaving
<1> QED
    BY <1>1, <1>2

LEMMA ManagedOrderly ==
    ASSUME NEW d, NEW sym, NEW b, NEW q, Fits(Keep(q), d, sym, b), NEW c, Named(c, sym),
           NEW plan, Managed(plan, q, c)
    PROVE  Orderly(plan, d, sym, b)
<1>1. Orderly(<<>>, d, sym, b) /\ Orderly(<<Keep(q)>>, d, sym, b)
    BY OrderlyNothing, OrderlyOne
<1>2. Orderly(<<Send("CLOSE", c), Drop(c)>>, d, sym, b)
    BY QuietFits, OrderlyTwo
<1>3. /\ Orderly(<<Keep(q)>> \o <<>>, d, sym, b)
      /\ Orderly(<<Keep(q)>> \o <<Send("CLOSE", c), Drop(c)>>, d, sym, b)
    <2>1. PICK k : k = <<Keep(q)>>
        OBVIOUS
    <2>2. ASSUME NEW r, Orderly(r, d, sym, b) PROVE Orderly(k \o r, d, sym, b)
        BY <1>1, <2>1, <2>2, OrderlyBoth
    <2> QED
        BY <1>1, <1>2, <2>1, <2>2, Zenon
<1> QED
    BY <1>1, <1>2, <1>3, Zenon DEF Managed

LEMMA EnteringOrderly ==
    ASSUME NEW d, d # trend, NEW sym, NEW new, Named(new, sym), new.side = SideOf(d),
           NEW R, NEW open, Entering(open, R, new)
    PROVE  Orderly(open, d, sym, TRUE)
<1>1. CASE open = <<>>
    BY <1>1, OrderlyNothing
<1>2. CASE open = <<Send("OPEN", new), Keep(new)>>
    <2>1. Fits(Keep(new), d, sym, TRUE)
        BY DEF Fits
    <2> QED
        BY <1>2, <2>1, QuietFits, OrderlyTwo
<1> QED
    BY <1>1, <1>2 DEF Entering

LEMMA FlipOrderly ==
    ASSUME NEW d, NEW sym, NEW p, Orderly(p, d, sym, FALSE), Turns(p, d), d # trend,
           NEW S, \A q \in S : Named(q, sym),
           NEW new, Named(new, sym), new.side = SideOf(d),
           NEW R, NEW open, Entering(open, R, new)
    PROVE  Orderly((p \o Leaving(S)) \o open, d, sym, FALSE)
<1>1. Orderly(Leaving(S), d, sym, TRUE)
    BY LeavingOrderly
<1>2. PICK a : a = p \o Leaving(S)
    OBVIOUS
<1>3. Orderly(a, d, sym, FALSE) /\ Turns(a, d)
    BY <1>1, <1>2, OrderlyOn
<1>4. Orderly(open, d, sym, TRUE)
    BY EnteringOrderly
<1> QED
    BY <1>2, <1>3, <1>4, OrderlyOn

\* A turn among the first steps.
LEMMA TurnsNow ==
    ASSUME NEW d, NEW sym, NEW f
    PROVE  /\ Orderly(<<Turn(d)>>, d, sym, FALSE) /\ Turns(<<Turn(d)>>, d)
           /\ Orderly(<<Seen(f), Turn(d)>>, d, sym, FALSE) /\ Turns(<<Seen(f), Turn(d)>>, d)
<1>1. PICK a, b : a = Seen(f) /\ b = Turn(d)
    OBVIOUS
<1>2. Orderly(<<b>>, d, sym, FALSE) /\ Orderly(<<a, b>>, d, sym, FALSE)
    BY <1>1, QuietFits, OrderlyOne, OrderlyTwo
<1>3. Turns(<<b>>, d)
    <2>1. PICK c : c = <<b>>
        OBVIOUS
    <2>2. Len(c) = 1 /\ c[1] = b
        BY <2>1
    <2>3. Turns(c, d)
        BY <1>1, <2>2 DEF Turns
    <2> QED
        BY <2>1, <2>3
<1>4. Turns(<<a, b>>, d)
    <2>1. PICK c : c = <<a, b>>
        OBVIOUS
    <2>2. Len(c) = 2 /\ c[2] = b
        BY <2>1
    <2>3. Turns(c, d)
        BY <1>1, <2>2 DEF Turns
    <2> QED
        BY <2>1, <2>3
<1> QED
    BY <1>1, <1>2, <1>3, <1>4

\* Closing any of a finite set of positions, one by one.
LEMMA CloseEachOrderly ==
    ASSUME NEW d, NEW sym, NEW b, NEW S, AllNamed(S, sym)
    PROVE  Orderly(CloseEach(S), d, sym, b)
<1>1. PICK n \in Nat : Len(SetToSeq(S)) = n /\ SetToSeq(S) \in [1..n -> S]
    BY SetLaidOut DEF AllNamed
<1>2. PICK T : T = {Send("CLOSE", p) : p \in S} \cup {Drop(p) : p \in S}
    OBVIOUS
<1>3. PICK q : q = SetToSeq(S)
    OBVIOUS
<1>4. PICK seqs : seqs = [i \in 1..n |-> <<Send("CLOSE", q[i]), Drop(q[i])>>]
    OBVIOUS
<1>5. CloseEach(S) = FlattenSeq(seqs)
    BY <1>1, <1>3, <1>4 DEF CloseEach, ForEach
<1>6. seqs \in [1..n -> Seq(T)]
    <2>1. ASSUME NEW i \in 1..n PROVE <<Send("CLOSE", q[i]), Drop(q[i])>> \in Seq(T)
        <3>1. q[i] \in S
            BY <1>1, <1>3
        <3>2. PICK e, f : e = Send("CLOSE", q[i]) /\ f = Drop(q[i])
            OBVIOUS
        <3>3. e \in T /\ f \in T
            BY <1>2, <3>1, <3>2
        <3>4. <<e, f>> \in Seq(T)
            BY <3>3
        <3> QED
            BY <3>2, <3>4
    <2> QED
        BY <1>4, <2>1
<1>7. FlattenSeq(seqs) \in Seq(T)
    BY <1>6, FlattenType
<1>8. ASSUME NEW e \in T PROVE Fits(e, d, sym, b)
    <2>1. PICK p \in S : e = Send("CLOSE", p) \/ e = Drop(p)
        BY <1>2
    <2>2. Named(p, sym)
        BY DEF AllNamed
    <2> QED
        BY <2>1, <2>2, QuietFits
<1> QED
    BY <1>5, <1>7, <1>8, OrderlySteps

\* The end of a scan.
LEMMA EndOrderly ==
    ASSUME NEW d, NEW sym, NEW p, Orderly(p, d, sym, FALSE), NEW f
    PROVE  /\ Orderly(p \o <<Done(f)>>, d, sym, FALSE)
           /\ Orderly(p \o <<Save>>, d, sym, FALSE)
           /\ Orderly(p \o <<Done(f), Save>>, d, sym, FALSE)
<1>1. /\ Orderly(<<Done(f)>>, d, sym, FALSE) /\ Orderly(<<Save>>, d, sym, FALSE)
      /\ Orderly(<<Done(f), Save>>, d, sym, FALSE)
    BY QuietFits, OrderlyOne, OrderlyTwo
<1> QED
    BY <1>1, OrderlyThen

=============================================================================
