---------------------------- MODULE Runner_proofs ----------------------------
(***************************************************************************)
(* Theorems about the parts of a runner process that share no state, the   *)
(* fleet and its leases, the dispatcher and the event loop.                *)
(*                                                                         *)
(* RunnerFleet                                                             *)
(*   1. a runner that holds a lease, or has just checked it, starts anew:  *)
(*      nothing it sent since counts as late                               *)
(*   2. so one signal at most is sent without the lease                    *)
(* SignalDispatcher                                                        *)
(*   3. what the operators on sequences compute                            *)
(*   4. memory and the Redis list both end with the last ids of the log,   *)
(*      as long as every id reached the list and every start could read it *)
(*   5. so a repeated id has max_seen others before it                     *)
(* StrategyLoop                                                            *)
(*   6. the bounded queue                                                  *)
(*   7. type correctness                                                   *)
(*   8. the permits of the semaphore                                       *)
(*   9. klines: the newest one waits, and they are taken in order          *)
(***************************************************************************)
EXTENDS RunnerFleet, SignalDispatcher, StrategyLoop,
        SequenceTheorems, FiniteSetTheorems, TLAPS

-----------------------------------------------------------------------------
(***************************************************************************)
(* 1. Leases, the signal at hand and the count of late ones.               *)
(***************************************************************************)
SendType ==
    /\ lease \in [Alpha -> Runner \cup {None}]
    /\ sending \in [Runner -> Alpha \cup {None}]
    /\ late \in [Runner -> [Alpha -> Nat]]

\* Between the check and the XADD the count is zero, whatever becomes of the
\* lease in between; so it is while the runner holds the lease.
NoneLate ==
    \A r \in Runner, a \in Alpha :
        /\ (lease[a] = r \/ sending[r] = a) => late[r][a] = 0
        /\ late[r][a] <= 1

SendInv == SendType /\ NoneLate

LEMMA InitSend == Init => SendInv
BY RunnerFleetAssumption DEF Init, SendInv, SendType, NoneLate

\* Leases change hands while every runner keeps the signal it has at hand, or
\* drops it: who takes a lease starts anew.
LEMMA NewLease ==
    ASSUME SendInv, NEW newLease \in [Alpha -> Runner \cup {None}],
           LeaseIs(newLease),
           sending' \in [Runner -> Alpha \cup {None}],
           \A r \in Runner : sending'[r] \in {sending[r], None}
    PROVE  SendInv'
<1>1. SendType'
    BY DEF SendInv, SendType, LeaseIs
<1>2. ASSUME NEW r \in Runner, NEW a \in Alpha
      PROVE  /\ (lease'[a] = r \/ sending'[r] = a) => late'[r][a] = 0
             /\ late'[r][a] <= 1
    <2>1. late'[r][a] = IF newLease[a] = r THEN 0 ELSE late[r][a]
        BY DEF LeaseIs
    <2>2. lease'[a] = newLease[a]
        BY DEF LeaseIs
    <2>3. /\ sending[r] = a => late[r][a] = 0
          /\ late[r][a] <= 1
        BY DEF SendInv, NoneLate
    <2>4. sending'[r] = a => sending[r] = a
        BY RunnerFleetAssumption
    <2> QED
        BY <2>1, <2>2, <2>3, <2>4
<1> QED
    BY <1>1, <1>2 DEF SendInv, NoneLate

\* No lease changes and no signal is sent: at most one is dropped.
LEMMA SameLease ==
    ASSUME SendInv, UNCHANGED <<lease, late>>,
           sending' \in [Runner -> Alpha \cup {None}],
           \A r \in Runner : sending'[r] \in {sending[r], None}
    PROVE  SendInv'
<1>1. \A r \in Runner, a \in Alpha : sending'[r] = a => sending[r] = a
    BY RunnerFleetAssumption
<1> QED
    BY <1>1 DEF SendInv, SendType, NoneLate

\* What every action does to the leases and to the signals at hand.
LEMMA NextSend == SendInv /\ [Next]_vars => SendInv'
<1> SUFFICES ASSUME SendInv, [Next]_vars
             PROVE  SendInv'
    OBVIOUS
<1>0. /\ lease \in [Alpha -> Runner \cup {None}]
      /\ sending \in [Runner -> Alpha \cup {None}]
      /\ late \in [Runner -> [Alpha -> Nat]]
    BY DEF SendInv, SendType
<1> DEFINE Kept == UNCHANGED <<lease, sending, late>>
           Leased == /\ sending' = sending
                     /\ \E newLease \in [Alpha -> Runner \cup {None}] : LeaseIs(newLease)
<1>1. Kept => SendInv'
    BY <1>0, SameLease
<1>2. Leased => SendInv'
    BY <1>0, NewLease
<1> HIDE DEF Kept, Leased
<1>3. CASE UNCHANGED vars
    BY <1>1, <1>3 DEF vars, redis, process, Kept
<1>4. ASSUME NEW enabled \in SUBSET Alpha, SyncConfig(enabled)
      PROVE  SendInv'
    BY <1>1, <1>4 DEF SyncConfig, Kept
<1>5. ASSUME NEW a \in Alpha, Expire(a)
      PROVE  SendInv'
    <2>1. [lease EXCEPT ![a] = None] \in [Alpha -> Runner \cup {None}]
        BY <1>0
    <2> QED
        BY <1>2, <1>5, <2>1 DEF Expire, process, Leased
<1>6. ASSUME NEW r \in Runner, Boot(r) \/ Instantiate(r) \/ Serve(r)
      PROVE  SendInv'
    BY <1>1, <1>6 DEF Boot, Instantiate, Serve, redis, Kept
<1>7. ASSUME NEW r \in Runner, PeriodicClaim(r) \/ Notice(r) \/ FindEnabled(r)
      PROVE  SendInv'
    BY <1>1, <1>7 DEF PeriodicClaim, Notice, FindEnabled, redis, Kept
<1>8. ASSUME NEW r \in Runner, NEW t \in Task,
             NextGroup(r, t) \/ StartNew(r, t) \/ TaskFails(r, t)
      PROVE  SendInv'
    BY <1>1, <1>8 DEF NextGroup, StartNew, TaskFails, redis, Kept
<1>9. ASSUME NEW r \in Runner, Shutdown(r)
      PROVE  SendInv'
    <2> DEFINE released == [a \in Alpha |->
                  IF a \in Owned(r) /\ lease[a] = r THEN None ELSE lease[a]]
    <2>1. released \in [Alpha -> Runner \cup {None}] /\ LeaseIs(released)
        BY <1>0, <1>9 DEF Shutdown
    <2>2. sending' = [sending EXCEPT ![r] = None]
        BY <1>9 DEF Shutdown, Dead
    <2> QED
        BY <1>0, <2>1, <2>2, NewLease
<1>10. ASSUME NEW r \in Runner, Crash(r)
       PROVE  SendInv'
    <2>1. UNCHANGED <<lease, late>> /\ sending' = [sending EXCEPT ![r] = None]
        BY <1>10 DEF Crash, Dead, redis
    <2> QED
        BY <1>0, <2>1, SameLease
<1>11. ASSUME NEW r \in Runner, Renew(r)
       PROVE  SendInv'
    <2>1. PICK ok \in SUBSET Alpha :
                  LeaseIs([a \in Alpha |-> IF a \in ok THEN r ELSE lease[a]])
        BY <1>11 DEF Renew, RenewOk, Owned
    <2>2. [a \in Alpha |-> IF a \in ok THEN r ELSE lease[a]]
              \in [Alpha -> Runner \cup {None}]
        BY <1>0
    <2> QED
        BY <1>2, <1>11, <2>1, <2>2 DEF Renew, Leased
<1>12. ASSUME NEW r \in Runner, NEW t \in Task, NEW a \in Alpha, ClaimOne(r, t, a)
       PROVE  SendInv'
    <2>1. CASE LeaseIs([lease EXCEPT ![a] = r])
        <3>1. [lease EXCEPT ![a] = r] \in [Alpha -> Runner \cup {None}]
            BY <1>0
        <3> QED
            BY <1>2, <1>12, <2>1, <3>1 DEF ClaimOne, Leased
    <2>2. ASSUME NEW mine,
                 LeaseIs([b \in Alpha |-> IF b \in mine THEN None ELSE lease[b]])
          PROVE  SendInv'
        <3>1. [b \in Alpha |-> IF b \in mine THEN None ELSE lease[b]]
                  \in [Alpha -> Runner \cup {None}]
            BY <1>0
        <3> QED
            BY <1>2, <1>12, <2>2, <3>1 DEF ClaimOne, Leased
    <2> QED
        BY <1>12, <2>1, <2>2 DEF ClaimOne
<1>13. ASSUME NEW r \in Runner, NEW a \in Alpha, Disable(r, a)
       PROVE  SendInv'
    <2>1. [lease EXCEPT ![a] = IF @ = r THEN None ELSE @] \in [Alpha -> Runner \cup {None}]
        BY <1>0
    <2> QED
        BY <1>2, <1>13, <2>1 DEF Disable, Leased
\* The check itself: only the holder of the lease gets past it.
<1>14. ASSUME NEW r \in Runner, NEW a \in Alpha, CheckLease(r, a)
       PROVE  SendInv'
    <2>1. CASE MaySend(r, a) /\ sending' = [sending EXCEPT ![r] = a]
        <3>1. UNCHANGED <<lease, late>>
            BY <1>14 DEF CheckLease, redis
        <3>2. late[r][a] = 0
            BY <2>1 DEF MaySend, SendInv, NoneLate
        <3>3. sending' \in [Runner -> Alpha \cup {None}]
            BY <1>0, <2>1
        <3>4. ASSUME NEW q \in Runner, NEW b \in Alpha, sending'[q] = b
              PROVE  late[q][b] = 0
            BY <1>0, <2>1, <3>2, <3>4 DEF SendInv, NoneLate
        <3> QED
            BY <1>0, <3>1, <3>3, <3>4 DEF SendInv, SendType, NoneLate
    <2>2. CASE UNCHANGED sending
        BY <1>1, <1>14, <2>2 DEF CheckLease, redis, Kept
    <2> QED
        BY <1>14, <2>1, <2>2 DEF CheckLease
\* The XADD: the count was zero, and no other signal is at hand.
<1>15. ASSUME NEW r \in Runner, Send(r)
       PROVE  SendInv'
    <2>1. PICK a \in Alpha : a = sending[r]
        BY <1>0, <1>15 DEF Send
    <2>2. /\ lease' = lease
          /\ sending' = [sending EXCEPT ![r] = None]
          /\ late' = [late EXCEPT ![r][a] = IF lease[a] = r THEN 0 ELSE @ + 1]
        BY <1>15, <2>1 DEF Send, redis
    <2>3. late[r][a] = 0
        BY <2>1 DEF SendInv, NoneLate
    <2>4. SendType'
        BY <1>0, <2>2 DEF SendType
    <2>5. ASSUME NEW q \in Runner, NEW b \in Alpha
          PROVE  /\ (lease'[b] = q \/ sending'[q] = b) => late'[q][b] = 0
                 /\ late'[q][b] <= 1
        <3>1. CASE q = r /\ b = a
            BY <1>0, <2>2, <2>3, <3>1, RunnerFleetAssumption
        <3>2. CASE ~(q = r /\ b = a)
            <4>1. late'[q][b] = late[q][b]
                BY <1>0, <2>2, <3>2
            <4>2. sending'[q] = b => sending[q] = b
                BY <1>0, <2>2, RunnerFleetAssumption
            <4> QED
                BY <2>2, <4>1, <4>2 DEF SendInv, NoneLate
        <3> QED
            BY <3>1, <3>2
    <2> QED
        BY <2>4, <2>5 DEF SendInv, NoneLate
<1> QED
    BY <1>3, <1>4, <1>5, <1>6, <1>7, <1>8, <1>9, <1>10, <1>11, <1>12, <1>13, <1>14, <1>15
    DEF Next, ClaimStep

-----------------------------------------------------------------------------
(***************************************************************************)
(* 2. The late signal.                                                     *)
(***************************************************************************)

\* While a runner holds the lease of an alpha, and from the check of the lease to
\* the XADD that follows it, no signal of its own for that alpha counts as late
\* (SignalDispatcher.dispatch reads the lease before every signal).
THEOREM HolderIsNotLate == Spec => []SendInv
BY InitSend, NextSend, PTL DEF Spec

\* However leases expire, are renewed, released and claimed again between
\* the GET and the XADD of a dispatch, at most one signal of a runner is sent after
\* it lost the lease (SignalDispatcher.dispatch).
THEOREM AtMostOneLateSignal == Spec => []OneLateSignal
<1>1. SendInv => OneLateSignal
    BY DEF SendInv, NoneLate, OneLateSignal
<1> QED
    BY <1>1, HolderIsNotLate, PTL

-----------------------------------------------------------------------------
(***************************************************************************)
(* 3. Operators.                                                           *)
(***************************************************************************)

\* LTRIM: at most n elements, from the first on.
LEMMA NewestProperties ==
    ASSUME NEW S, NEW s \in Seq(S), NEW n \in Nat
    PROVE  /\ Newest(s, n) \in Seq(S)
           /\ Len(Newest(s, n)) = IF Len(s) < n THEN Len(s) ELSE n
           /\ \A i \in 1..Len(Newest(s, n)) : Newest(s, n)[i] = s[i]
<1> DEFINE m == IF Len(s) < n THEN Len(s) ELSE n
<1>1. m \in Nat /\ m <= Len(s)
    BY LenProperties
<1>2. \A i \in 1..m : s[i] \in S
    BY <1>1, ElementOfSeq
<1>3. Newest(s, n) = SubSeq(s, 1, m)
    BY DEF Newest
<1> HIDE DEF m
<1>4. /\ SubSeq(s, 1, m) \in Seq(S)
      /\ Len(SubSeq(s, 1, m)) = m
      /\ \A i \in 1..m : SubSeq(s, 1, m)[i] = s[i]
    <2>1. /\ SubSeq(s, 1, m) \in Seq(S)
          /\ Len(SubSeq(s, 1, m)) = IF 1 <= m THEN m - 1 + 1 ELSE 0
          /\ \A i \in 1..(m - 1 + 1) : SubSeq(s, 1, m)[i] = s[1 + i - 1]
        BY <1>1, <1>2, SubSeqProperties
    <2> QED
        BY <1>1, <2>1
<1> QED
    BY <1>3, <1>4 DEF m

LEMMA ReverseProperties ==
    ASSUME NEW S, NEW s \in Seq(S)
    PROVE  /\ Reverse(s) \in Seq(S)
           /\ Len(Reverse(s)) = Len(s)
           /\ \A i \in 1..Len(s) : Reverse(s)[i] = s[(Len(s) - i) + 1]
<1>1. PICK n \in Nat : n = Len(s)
    BY LenProperties
<1>2. \A i \in 1..n : (n - i) + 1 \in 1..n
    BY <1>1
<1>3. \A i \in 1..n : s[(n - i) + 1] \in S
    BY <1>1, <1>2, ElementOfSeq
<1>4. Reverse(s) = [i \in 1..n |-> s[(n - i) + 1]]
    BY <1>1 DEF Reverse
<1>5. Reverse(s) \in [1..n -> S]
    BY <1>3, <1>4
<1>6. Reverse(s) \in Seq(S)
    BY <1>1, <1>5, SeqDef
<1>7. Len(Reverse(s)) = n
    BY <1>1, <1>5, <1>6, LenProperties
<1> QED
    BY <1>1, <1>4, <1>6, <1>7

\* A dictionary that is filled in the order of a sequence holds each element at its
\* first place: after it come at most as many as in the sequence.
LEMMA DeduplicatedProperties ==
    ASSUME NEW S, NEW s \in Seq(S)
    PROVE  LET r == Deduplicated(s)
           IN  /\ r \in Seq(S)
               /\ Len(r) <= Len(s)
               /\ \A q \in 1..Len(s) :
                      (\A j \in 1..Len(s) : s[j] = s[q] => q <= j)
                      => \E p \in 1..Len(r) : r[p] = s[q] /\ Len(r) - p <= Len(s) - q
<1>1. PICK n \in Nat : n = Len(s) /\ DOMAIN s = 1..n
    BY LenProperties
<1> DEFINE first == {i \in DOMAIN s : \A j \in DOMAIN s : s[j] = s[i] => i <= j}
           upto(i) == {j \in first : j <= i}
           place(k) == CHOOSE i \in first : Cardinality(upto(i)) = k
<1>2. first \in SUBSET (1..n) /\ \A k \in first : k \in Nat /\ 1 <= k /\ k <= n
    BY <1>1
<1>5. \A q \in 1..n : (\A j \in 1..n : s[j] = s[q] => q <= j) => q \in first
    BY <1>1
<1>6. Deduplicated(s) = [k \in 1..Cardinality(first) |-> s[place(k)]]
    BY DEF Deduplicated
<1> HIDE DEF first
<1>0. IsFiniteSet(1..n) /\ Cardinality(1..n) = n
    <2>1. Cardinality(1..n) = IF 1 > n THEN 0 ELSE n - 1 + 1
        BY FS_Interval
    <2>2. IsFiniteSet(1..n)
        BY FS_Interval
    <2> QED
        BY <1>1, <2>1, <2>2
<1>4. IsFiniteSet(first) /\ Cardinality(first) <= n
    BY <1>0, <1>2, FS_Subset
<1>3. PICK c \in Nat : c = Cardinality(first) /\ c <= n
    BY <1>4, FS_CardinalityType
<1>7. \A i \in first : /\ IsFiniteSet(upto(i)) /\ i \in upto(i)
                       /\ Cardinality(upto(i)) \in 1..c
    <2> SUFFICES ASSUME NEW i \in first
                 PROVE  /\ IsFiniteSet(upto(i)) /\ i \in upto(i)
                        /\ Cardinality(upto(i)) \in 1..c
        OBVIOUS
    <2>1. upto(i) \in SUBSET first
        OBVIOUS
    <2>2. i \in upto(i)
        BY <1>2
    <2> HIDE DEF upto
    <2>3. IsFiniteSet(upto(i)) /\ Cardinality(upto(i)) <= c
        BY <1>3, <1>4, <2>1, FS_Subset
    <2>4. Cardinality(upto(i)) \in Nat /\ Cardinality(upto(i)) # 0
        BY <2>2, <2>3, FS_CardinalityType, FS_EmptySet
    <2> QED
        BY <2>2, <2>3, <2>4
<1>8. \A i, j \in first : Cardinality(upto(i)) = Cardinality(upto(j)) => i = j
    <2>1. ASSUME NEW i \in first, NEW j \in first, i < j
          PROVE  Cardinality(upto(i)) # Cardinality(upto(j))
        <3>1. upto(i) \in SUBSET upto(j)
            <4>1. \A k \in first : k <= i => k <= j
                BY <1>2, <2>1
            <4> QED
                BY <4>1
        <3>2. j \in upto(j) /\ j \notin upto(i)
            BY <1>2, <2>1
        <3>3. IsFiniteSet(upto(j))
            BY <1>7
        <3> HIDE DEF upto
        <3> QED
            BY <3>1, <3>2, <3>3, FS_Subset
    <2> SUFFICES ASSUME NEW i \in first, NEW j \in first,
                        Cardinality(upto(i)) = Cardinality(upto(j))
                 PROVE  i = j
        OBVIOUS
    <2>2. i \in Nat /\ j \in Nat
        BY <1>2
    <2>3. ~ (i < j) /\ ~ (j < i)
        BY <2>1
    <2> QED
        BY <2>2, <2>3
<1> DEFINE rank == [i \in first |-> Cardinality(upto(i))]
<1>9. rank \in Surjection(first, 1..c)
    <2>1. rank \in [first -> 1..c]
        BY <1>7
    <2>2. \A i, j \in first : rank[i] = rank[j] => i = j
        BY <1>8
    <2> HIDE DEF rank
    <2>3. rank \in Injection(first, 1..c)
        BY <2>1, <2>2 DEF Injection, IsInjective
    <2>4. IsFiniteSet(1..c) /\ Cardinality(1..c) = c
        BY FS_Interval
    <2> QED
        BY <1>3, <2>3, <2>4, FS_Injection
<1>10. \A k \in 1..c : \E i \in first : Cardinality(upto(i)) = k
    <2>1. \A k \in 1..c : \E i \in first : rank[i] = k
        <3> HIDE DEF rank
        <3> QED
            BY <1>9 DEF Surjection
    <2> QED
        BY <2>1
<1> HIDE DEF rank
<1>11. \A k \in 1..c : place(k) \in first /\ Cardinality(upto(place(k))) = k
    BY <1>10
<1> HIDE DEF place
<1>12. PICK r \in Seq(S) :
           r = Deduplicated(s) /\ Len(r) = c /\ \A k \in 1..c : r[k] = s[place(k)]
    <2>1. \A k \in 1..c : s[place(k)] \in S
        BY <1>1, <1>2, <1>11, ElementOfSeq
    <2> DEFINE r == [k \in 1..c |-> s[place(k)]]
    <2>2. r \in [1..c -> S]
        BY <2>1
    <2>3. r = Deduplicated(s) /\ \A k \in 1..c : r[k] = s[place(k)]
        BY <1>3, <1>6
    <2> HIDE DEF r
    <2>4. r \in Seq(S) /\ Len(r) = c
        BY <2>2, SeqDef, LenProperties
    <2> QED
        BY <2>3, <2>4
<1>13. ASSUME NEW q \in 1..n, \A j \in 1..n : s[j] = s[q] => q <= j
       PROVE  \E p \in 1..c : r[p] = s[q] /\ c - p <= n - q
    <2>1. q \in first
        BY <1>5, <1>13
    <2>2. PICK p \in 1..c : p = Cardinality(upto(q))
        BY <1>7, <2>1
    <2>3. place(p) = q
        BY <1>8, <1>11, <2>1, <2>2
    <2>4. r[p] = s[q]
        BY <1>12, <2>3
    <2>5. c - p <= n - q
        <3> DEFINE after == {j \in first : j > q}
        <3>1. first = upto(q) \cup after /\ upto(q) \cap after = {}
            <4>1. \A k \in first : (k <= q \/ k > q) /\ ~ (k <= q /\ k > q)
                BY <1>2
            <4> QED
                BY <4>1
        <3>2. after \in SUBSET ((q + 1)..n)
            <4>1. \A k \in first : k > q => k \in (q + 1)..n
                BY <1>2
            <4> QED
                BY <4>1
        <3>3. /\ IsFiniteSet((q + 1)..n)
              /\ Cardinality((q + 1)..n) = n - q
            <4>1. q \in Int /\ n \in Int /\ q <= n
                OBVIOUS
            <4>2. Cardinality((q + 1)..n) = IF q + 1 > n THEN 0 ELSE n - (q + 1) + 1
                BY <4>1, FS_Interval
            <4>3. IsFiniteSet((q + 1)..n)
                BY <4>1, FS_Interval
            <4> QED
                BY <4>1, <4>2, <4>3
        <3> HIDE DEF after
        <3>4. IsFiniteSet(after) /\ Cardinality(after) <= n - q /\ Cardinality(after) \in Nat
            BY <3>2, <3>3, FS_Subset, FS_CardinalityType
        <3>5. IsFiniteSet(upto(q))
            BY <1>7, <2>1
        <3> HIDE DEF upto
        <3>6. c = p + Cardinality(after) - Cardinality({})
            BY <1>3, <2>2, <3>1, <3>4, <3>5, FS_Union
        <3>7. Cardinality({}) = 0
            BY FS_EmptySet
        <3> QED
            BY <3>4, <3>6, <3>7
    <2> QED
        BY <2>4, <2>5
<1> QED
    BY <1>1, <1>3, <1>12, <1>13

\* The id goes to the end of memory, what it pushes out is at the front.
LEMMA RememberedProperties ==
    ASSUME seen \in Seq(Id), Len(seen) <= MaxSeen, NEW id \in Id
    PROVE  LET r == Remembered(id)
               n == IF Len(seen) < MaxSeen THEN Len(seen) + 1 ELSE MaxSeen
           IN  /\ r \in Seq(Id)
               /\ Len(r) = n
               /\ r[n] = id
               /\ \A i \in 1..(n - 1) : r[i] = seen[(Len(seen) - n) + 1 + i]
<1>1. PICK l \in Nat : l = Len(seen)
    BY LenProperties
<1>2. PICK n \in Nat : n = IF l < MaxSeen THEN l + 1 ELSE MaxSeen
    BY SignalDispatcherAssumption
<1>3. PICK back \in Seq(Id) : /\ back = Reverse(seen)
                              /\ Len(back) = l
                              /\ \A i \in 1..l : back[i] = seen[(l - i) + 1]
    BY <1>1, ReverseProperties
<1>4. PICK z \in Seq(Id) : /\ z = <<id>> \o back
                           /\ Len(z) = l + 1
                           /\ z[1] = id
                           /\ \A i \in 2..(l + 1) : z[i] = back[i - 1]
    <2>1. <<id>> \in Seq(Id) /\ Len(<<id>>) = 1 /\ <<id>>[1] = id
        OBVIOUS
    <2>2. /\ <<id>> \o back \in Seq(Id)
          /\ Len(<<id>> \o back) = 1 + l
          /\ \A i \in 1..(1 + l) : (<<id>> \o back)[i] =
                  IF i <= 1 THEN <<id>>[i] ELSE back[i - 1]
        BY <1>3, <2>1, ConcatProperties
    <2>3. /\ Len(<<id>> \o back) = l + 1
          /\ (<<id>> \o back)[1] = id
        BY <2>1, <2>2
    <2>4. \A i \in 2..(l + 1) : (<<id>> \o back)[i] = back[i - 1]
        BY <2>2
    <2> QED
        BY <2>2, <2>3, <2>4
<1>5. PICK y \in Seq(Id) : /\ y = Newest(z, MaxSeen)
                           /\ Len(y) = n
                           /\ \A i \in 1..n : y[i] = z[i]
    <2>1. /\ Newest(z, MaxSeen) \in Seq(Id)
          /\ Len(Newest(z, MaxSeen)) = IF Len(z) < MaxSeen THEN Len(z) ELSE MaxSeen
          /\ \A i \in 1..Len(Newest(z, MaxSeen)) : Newest(z, MaxSeen)[i] = z[i]
        BY <1>4, SignalDispatcherAssumption, NewestProperties
    <2>2. n = IF l + 1 < MaxSeen THEN l + 1 ELSE MaxSeen
        BY <1>1, <1>2, SignalDispatcherAssumption
    <2> QED
        BY <1>4, <2>1, <2>2
<1>6. PICK r \in Seq(Id) : /\ r = Remembered(id)
                           /\ Len(r) = n
                           /\ \A i \in 1..n : r[i] = y[(n - i) + 1]
    <2>1. Remembered(id) = Reverse(y)
        BY <1>3, <1>4, <1>5 DEF Remembered
    <2>2. /\ Reverse(y) \in Seq(Id)
          /\ Len(Reverse(y)) = Len(y)
          /\ \A i \in 1..Len(y) : Reverse(y)[i] = y[(Len(y) - i) + 1]
        BY ReverseProperties
    <2> QED
        BY <1>5, <2>1, <2>2
<1>7. n >= 1 /\ n <= l + 1
    BY <1>1, <1>2, SignalDispatcherAssumption
<1>8. r[n] = id
    BY <1>4, <1>5, <1>6, <1>7
<1>9. ASSUME NEW i \in 1..(n - 1)
      PROVE  r[i] = seen[(l - n) + 1 + i]
    <2>1. PICK k \in 2..n : k = (n - i) + 1
        BY <1>7
    <2>2. r[i] = z[k]
        BY <1>5, <1>6, <1>7, <2>1
    <2>3. z[k] = back[k - 1]
        BY <1>4, <1>7
    <2>4. back[k - 1] = seen[(l - (k - 1)) + 1]
        BY <1>3, <1>7
    <2>5. (l - (k - 1)) + 1 = (l - n) + 1 + i
        BY <1>7, <2>1
    <2> QED
        BY <2>2, <2>3, <2>4, <2>5
<1> QED
    BY <1>1, <1>2, <1>6, <1>8, <1>9

-----------------------------------------------------------------------------
(***************************************************************************)
(* 4. Memory and the list in Redis.                                        *)
(***************************************************************************)

\* how many of n ids the list has to hold
Window(n) == IF n < MaxSeen THEN n ELSE MaxSeen

\* Every id of this runner reached the list and has been there at every start since.
AllKept == \A k \in 1..Len(log) : log[k].kept

\* in the log l no other runner sent id
Private(l, id) == \A k \in 1..Len(l) : l[k].id = id => l[k].own

\* The list begins with the last ids of all runners.
ListIsLog ==
    LET n == Len(log)
        w == Window(n)
    IN  /\ w <= Len(dedup) /\ Len(dedup) <= n
        /\ \A i \in 1..w : dedup[i] = log[(n - i) + 1].id

\* id is in the memory s, with at most k ids after it, which are forgotten later.
InMemory(s, id, k) == \E p \in 1..Len(s) : s[p] = id /\ Len(s) - p <= k

\* Memory holds every id this runner alone sends, until max_seen ids went to the list.
MemoryHolds ==
    \A i \in 1..Len(log) :
        log[i].own /\ Private(log, log[i].id)
        => Len(log) - i >= MaxSeen \/ InMemory(seen, log[i].id, Len(log) - i)

\* NoEarlyRepeat, with the domain of the log written out
Spaced ==
    \A i, j \in 1..Len(log) :
        (/\ i < j /\ log[i].id = log[j].id
         /\ \A k \in 1..j : log[k].kept /\ (log[k].id = log[i].id => log[k].own))
        => j - i > MaxSeen

HistoryType ==
    /\ dedup \in Seq(Id) /\ log \in Seq(Entry)
    /\ seen \in Seq(Id) /\ Len(seen) <= MaxSeen

DispatchInv ==
    /\ HistoryType
    /\ Spaced
    /\ AllKept => MemoryHolds /\ ListIsLog

LEMMA InitDispatch == DispatchInit => DispatchInv
<1> SUFFICES ASSUME DispatchInit PROVE DispatchInv
    OBVIOUS
<1>1. /\ seen = <<>> /\ dedup = <<>> /\ log = <<>>
      /\ seen \in Seq(Id) /\ dedup \in Seq(Id) /\ log \in Seq(Entry)
      /\ Len(seen) = 0 /\ Len(dedup) = 0 /\ Len(log) = 0
    BY EmptySeq DEF DispatchInit
<1>2. Window(0) = 0 /\ MaxSeen >= 0
    BY SignalDispatcherAssumption DEF Window
<1> QED
    BY <1>1, <1>2 DEF DispatchInv, HistoryType, MemoryHolds, Spaced, ListIsLog

\* one more entry at the end of the log
Grown(e) ==
    /\ log' \in Seq(Entry) /\ Len(log') = Len(log) + 1 /\ Len(log) \in Nat
    /\ \A k \in 1..Len(log) : log'[k] = log[k]
    /\ log'[Len(log) + 1] = e

LEMMA LogGrows ==
    ASSUME HistoryType, NEW e \in Entry, log' = Append(log, e)
    PROVE  /\ Grown(e)
           /\ AllKept' => AllKept /\ e.kept
           /\ \A id : Private(log', id) => Private(log, id) /\ (e.id = id => e.own)
<1>1. Grown(e)
    BY AppendProperties, LenProperties DEF HistoryType, Grown
<1>2. PICK n \in Nat : n = Len(log) /\ Len(log') = n + 1
    BY <1>1 DEF Grown
<1>3. \A k \in 1..n : k \in 1..(n + 1) /\ log'[k] = log[k]
    BY <1>1, <1>2 DEF Grown
<1>4. n + 1 \in 1..(n + 1) /\ log'[n + 1] = e
    BY <1>1, <1>2 DEF Grown
<1> QED
    BY <1>1, <1>2, <1>3, <1>4 DEF AllKept, Private

\* LPUSH, with or without the LTRIM: the list begins with the new id and goes on
\* as before.
LEMMA PersistedProperties ==
    ASSUME dedup \in Seq(Id), NEW id \in Id, NEW z \in Persisted(id)
    PROVE  /\ z \in Seq(Id)
           /\ Len(z) <= Len(dedup) + 1
           /\ Len(z) >= Window(Len(dedup) + 1)
           /\ Len(z) >= 1 /\ z[1] = id
           /\ \A i \in 2..Len(z) : z[i] = dedup[i - 1]
<1>1. PICK m \in Nat : m = Len(dedup)
    BY LenProperties
<1>2. PICK y \in Seq(Id) : /\ y = <<id>> \o dedup /\ Len(y) = m + 1 /\ y[1] = id
                           /\ \A i \in 2..(m + 1) : y[i] = dedup[i - 1]
    <2>1. <<id>> \in Seq(Id) /\ Len(<<id>>) = 1 /\ <<id>>[1] = id
        OBVIOUS
    <2>2. /\ <<id>> \o dedup \in Seq(Id)
          /\ Len(<<id>> \o dedup) = 1 + m
          /\ \A i \in 1..(1 + m) : (<<id>> \o dedup)[i] =
                  IF i <= 1 THEN <<id>>[i] ELSE dedup[i - 1]
        BY <1>1, <2>1, ConcatProperties
    <2>3. /\ Len(<<id>> \o dedup) = m + 1
          /\ (<<id>> \o dedup)[1] = id
        BY <2>1, <2>2
    <2>4. \A i \in 2..(m + 1) : (<<id>> \o dedup)[i] = dedup[i - 1]
        BY <2>2
    <2> QED
        BY <2>2, <2>3, <2>4
<1>3. CASE z = y
    BY <1>1, <1>2, <1>3, SignalDispatcherAssumption DEF Window
<1>4. CASE z = Newest(y, MaxSeen)
    <2>1. /\ Newest(y, MaxSeen) \in Seq(Id)
          /\ Len(Newest(y, MaxSeen)) = IF m + 1 < MaxSeen THEN m + 1 ELSE MaxSeen
          /\ \A i \in 1..Len(Newest(y, MaxSeen)) : Newest(y, MaxSeen)[i] = y[i]
        BY <1>2, SignalDispatcherAssumption, NewestProperties
    <2>2. /\ z \in Seq(Id) /\ Len(z) = (IF m + 1 < MaxSeen THEN m + 1 ELSE MaxSeen)
          /\ \A i \in 1..Len(z) : z[i] = y[i]
        BY <1>4, <2>1
    <2>3. MaxSeen \in Nat /\ MaxSeen >= 1
        BY SignalDispatcherAssumption
    <2>4. PICK n \in Nat : n = Len(z)
        BY <2>2, <2>3
    <2>5. n = (IF m + 1 < MaxSeen THEN m + 1 ELSE MaxSeen) /\ n >= 1 /\ n <= m + 1
        BY <2>2, <2>3, <2>4
    <2>6. n <= Len(dedup) + 1 /\ n >= Window(Len(dedup) + 1)
        BY <1>1, <2>3, <2>5 DEF Window
    <2>7. z[1] = id
        BY <1>2, <2>2, <2>4, <2>5
    <2>8. \A i \in 2..n : z[i] = dedup[i - 1]
        BY <1>2, <2>2, <2>4, <2>5
    <2> QED
        BY <2>2, <2>4, <2>5, <2>6, <2>7, <2>8
<1> QED
    BY <1>2, <1>3, <1>4 DEF Persisted

\* The new id of the log is the first of the list, whoever sent it.
LEMMA ListFollows ==
    ASSUME HistoryType, ListIsLog, NEW e \in Entry, Grown(e), dedup' \in Persisted(e.id)
    PROVE  ListIsLog'
<1>1. PICK n \in Nat : n = Len(log) /\ Len(log') = n + 1
    BY DEF Grown
<1>2. PICK w \in Nat : w = Window(n)
    BY SignalDispatcherAssumption DEF Window
<1>3. PICK v \in Nat : v = Window(n + 1)
    BY SignalDispatcherAssumption DEF Window
<1>4. /\ w <= n /\ v >= 1 /\ v <= w + 1 /\ v <= n + 1
    BY <1>2, <1>3, SignalDispatcherAssumption DEF Window
<1>5. /\ w <= Len(dedup) /\ Len(dedup) <= n /\ Len(dedup) \in Nat
      /\ \A i \in 1..w : dedup[i] = log[(n - i) + 1].id
    BY <1>1, <1>2, LenProperties DEF HistoryType, ListIsLog
<1>6. e.id \in Id
    BY DEF Entry
<1>7. PICK z \in Seq(Id) :
          /\ z = dedup' /\ Len(z) <= Len(dedup) + 1
          /\ Len(z) >= Window(Len(dedup) + 1)
          /\ Len(z) >= 1 /\ z[1] = e.id /\ Len(z) \in Nat
          /\ \A i \in 2..Len(z) : z[i] = dedup[i - 1]
    BY <1>6, PersistedProperties, LenProperties DEF HistoryType
<1>8. v <= Len(z) /\ Len(z) <= n + 1
    BY <1>2, <1>3, <1>4, <1>5, <1>7, SignalDispatcherAssumption DEF Window
<1>9. ASSUME NEW i \in 2..v
      PROVE  z[i] = log'[((n + 1) - i) + 1].id
    <2>1. i \in 2..Len(z) /\ i - 1 \in 1..w
        BY <1>4, <1>7, <1>8
    <2>2. z[i] = log[(n - (i - 1)) + 1].id
        BY <1>5, <1>7, <2>1
    <2>3. (n - (i - 1)) + 1 = ((n + 1) - i) + 1 /\ ((n + 1) - i) + 1 \in 1..n
        BY <1>4
    <2> QED
        BY <1>1, <2>2, <2>3 DEF Grown
<1>10. z[1] = log'[((n + 1) - 1) + 1].id
    BY <1>1, <1>7 DEF Grown
<1>11. \A i \in 1..v : z[i] = log'[((n + 1) - i) + 1].id
    BY <1>4, <1>9, <1>10
<1> QED
    BY <1>1, <1>3, <1>7, <1>8, <1>11 DEF ListIsLog

\* An id moves towards the front by one, and what falls out had max_seen after it.
LEMMA MemoryMoves ==
    ASSUME HistoryType, NEW id \in Id, NEW x, x # id, NEW k \in Int,
           seen' = Remembered(id), InMemory(seen, x, k)
    PROVE  k + 1 >= MaxSeen \/ InMemory(seen', x, k + 1)
<1>1. PICK m \in Nat : m = Len(seen) /\ m <= MaxSeen
    BY LenProperties DEF HistoryType
<1>2. PICK v \in Nat : v = IF m < MaxSeen THEN m + 1 ELSE MaxSeen
    BY <1>1, SignalDispatcherAssumption
<1>3. PICK r \in Seq(Id) :
          /\ r = seen' /\ Len(r) = v /\ r[v] = id
          /\ \A i \in 1..(v - 1) : r[i] = seen[(m - v) + 1 + i]
    BY <1>1, <1>2, RememberedProperties DEF HistoryType
<1>4. PICK p \in 1..m : seen[p] = x /\ m - p <= k
    BY <1>1 DEF InMemory
<1>5. CASE (p - (m - v)) - 1 >= 1
    <2>1. PICK q \in Int : q = (p - (m - v)) - 1
        BY <1>1, <1>2
    <2>2. q \in 1..(v - 1) /\ q \in 1..v /\ (m - v) + 1 + q = p /\ v - q <= k + 1
        BY <1>1, <1>2, <1>4, <1>5, <2>1
    <2>3. r[q] = x
        BY <1>3, <1>4, <2>2
    <2> QED
        BY <1>3, <2>2, <2>3 DEF InMemory
<1>6. CASE ~ ((p - (m - v)) - 1 >= 1)
    BY <1>1, <1>2, <1>4, <1>6, SignalDispatcherAssumption
<1> QED
    BY <1>5, <1>6

\* A repeat of an id that was not forgotten does not get past the duplicate check.
LEMMA DispatchSpaced ==
    ASSUME DispatchInv, NEW e \in Entry, Grown(e),
           AllKept' => AllKept,
           \A id : Private(log', id) => Private(log, id),
           e.own => e.id \notin ToSet(seen)
    PROVE  Spaced'
<1>1. PICK n \in Nat : n = Len(log) /\ Len(log') = n + 1
    BY DEF Grown
<1>2. \A k \in 1..n : log'[k] = log[k]
    BY <1>1 DEF Grown
<1> SUFFICES ASSUME NEW i \in 1..(n + 1), NEW j \in 1..(n + 1), i < j,
                    log'[i].id = log'[j].id,
                    \A k \in 1..j : log'[k].kept /\ (log'[k].id = log'[i].id => log'[k].own)
             PROVE  j - i > MaxSeen
    BY <1>1 DEF Spaced
<1>3. i \in 1..n /\ log'[i] = log[i]
    BY <1>2
<1>4. CASE j \in 1..n
    <2>1. \A k \in 1..j : k \in 1..n
        BY <1>4
    <2>2. \A k \in 1..j : log[k].kept /\ (log[k].id = log[i].id => log[k].own)
        BY <1>2, <1>3, <2>1
    <2>3. log[i].id = log[j].id
        BY <1>2, <1>3, <1>4
    <2> QED
        BY <1>1, <1>3, <1>4, <2>2, <2>3 DEF DispatchInv, Spaced
<1>5. CASE j = n + 1
    <2>1. AllKept' /\ Private(log', log[i].id)
        BY <1>1, <1>3, <1>5 DEF AllKept, Private
    <2>2. MemoryHolds /\ Private(log, log[i].id)
        BY <2>1 DEF DispatchInv
    <2>3. log'[j] = e /\ e.own /\ log[i].id = e.id
        BY <1>1, <1>3, <1>5 DEF Grown
    <2>4. log[i].own
        BY <1>3, <1>5
    <2>5. ~ InMemory(seen, log[i].id, n - i)
        <3>1. \A p \in 1..Len(seen) : seen[p] # e.id
            BY <2>3, LenProperties DEF ToSet, DispatchInv, HistoryType
        <3> QED
            BY <2>3, <3>1 DEF InMemory
    <2>6. n - i >= MaxSeen
        BY <1>1, <1>3, <2>2, <2>4, <2>5 DEF MemoryHolds
    <2> QED
        BY <1>5, <2>6, SignalDispatcherAssumption
<1> QED
    BY <1>4, <1>5

LEMMA DispatchKeeps ==
    ASSUME DispatchInv, NEW id \in Id, Dispatch(id)
    PROVE  DispatchInv'
<1>1. PICK kept \in BOOLEAN :
          /\ dedup' \in IF kept THEN Persisted(id) ELSE {dedup}
          /\ log' = Append(log, [id |-> id, own |-> TRUE, kept |-> kept])
    BY DEF Dispatch
<1> DEFINE e == [id |-> id, own |-> TRUE, kept |-> kept]
<1>2. e \in Entry /\ e.id = id /\ e.own /\ e.kept = kept
    BY DEF Entry
<1>8. log' = Append(log, e)
    BY <1>1
<1> HIDE DEF e
<1>3. HistoryType
    BY DEF DispatchInv
<1>4. /\ Grown(e)
      /\ AllKept' => AllKept /\ kept
      /\ \A x : Private(log', x) => Private(log, x)
    BY <1>2, <1>3, <1>8, LogGrows
<1>5. HistoryType'
    <2>1. dedup' \in Seq(Id)
        BY <1>1, <1>3, PersistedProperties DEF HistoryType
    <2>2. seen' \in Seq(Id) /\ Len(seen') <= MaxSeen
        <3>1. PICK m \in Nat : m = Len(seen)
            BY <1>3, LenProperties DEF HistoryType
        <3>2. /\ Remembered(id) \in Seq(Id)
              /\ Len(Remembered(id)) = IF Len(seen) < MaxSeen THEN Len(seen) + 1 ELSE MaxSeen
            BY <1>3, RememberedProperties DEF HistoryType
        <3> QED
            BY <3>1, <3>2, SignalDispatcherAssumption DEF Dispatch
    <2> QED
        BY <1>4, <2>1, <2>2 DEF HistoryType, Grown
<1>6. Spaced'
    BY <1>2, <1>4, DispatchSpaced DEF Dispatch
<1>7. ASSUME AllKept'
      PROVE  MemoryHolds' /\ ListIsLog'
    <2>1. AllKept /\ MemoryHolds /\ ListIsLog /\ dedup' \in Persisted(e.id)
        BY <1>1, <1>2, <1>4, <1>7 DEF DispatchInv
    <2>2. ListIsLog'
        BY <1>2, <1>3, <1>4, <2>1, ListFollows
    <2>3. PICK n \in Nat : n = Len(log) /\ Len(log') = n + 1
        BY <1>4 DEF Grown
    <2>4. MemoryHolds'
        <3> SUFFICES ASSUME NEW i \in 1..(n + 1), log'[i].own, Private(log', log'[i].id)
                     PROVE  \/ (n + 1) - i >= MaxSeen
                            \/ InMemory(seen', log'[i].id, (n + 1) - i)
            BY <2>3 DEF MemoryHolds
        <3>1. CASE i = n + 1
            <4>1. PICK m \in Nat : m = Len(seen) /\ m <= MaxSeen
                BY <1>3, LenProperties DEF HistoryType
            <4>2. PICK v \in Nat : v = IF m < MaxSeen THEN m + 1 ELSE MaxSeen
                BY <4>1, SignalDispatcherAssumption
            <4>3. Len(seen') = v /\ seen'[v] = id
                BY <1>3, <4>1, <4>2, RememberedProperties DEF HistoryType, Dispatch
            <4>4. v \in 1..v /\ v - v <= (n + 1) - i
                BY <3>1, <4>1, <4>2, SignalDispatcherAssumption
            <4>5. log'[i].id = id
                BY <1>2, <1>4, <2>3, <3>1 DEF Grown
            <4> QED
                BY <4>3, <4>4, <4>5 DEF InMemory
        <3>2. CASE i \in 1..n
            <4>1. log'[i] = log[i]
                BY <1>4, <2>3, <3>2 DEF Grown
            <4>2. Private(log, log[i].id)
                BY <1>4, <4>1
            <4>3. n - i >= MaxSeen \/ InMemory(seen, log[i].id, n - i)
                BY <2>1, <2>3, <3>2, <4>1, <4>2 DEF MemoryHolds
            <4>4. CASE n - i >= MaxSeen
                BY <3>2, <4>4, SignalDispatcherAssumption
            <4>5. CASE InMemory(seen, log[i].id, n - i)
                <5>1. log[i].id # id
                    <6>1. \A p \in 1..Len(seen) : seen[p] # id
                        BY <1>3, LenProperties DEF Dispatch, ToSet, HistoryType
                    <6> QED
                        BY <4>5, <6>1 DEF InMemory
                <5>2. n - i \in Int /\ (n - i) + 1 = (n + 1) - i
                    BY <3>2
                <5>3. seen' = Remembered(id)
                    BY DEF Dispatch
                <5>4. (n - i) + 1 >= MaxSeen \/ InMemory(seen', log[i].id, (n - i) + 1)
                    BY <1>3, <4>5, <5>1, <5>2, <5>3, MemoryMoves
                <5> QED
                    BY <4>1, <5>2, <5>4
            <4> QED
                BY <4>3, <4>4, <4>5
        <3> QED
            BY <3>1, <3>2
    <2> QED
        BY <2>2, <2>4
<1> QED
    BY <1>5, <1>6, <1>7 DEF DispatchInv

\* Another runner moves the list, not this runner's memory.
LEMMA OtherKeeps ==
    ASSUME DispatchInv, NEW id \in Id, OtherDispatch(id)
    PROVE  DispatchInv'
<1> DEFINE e == [id |-> id, own |-> FALSE, kept |-> TRUE]
<1>1. e \in Entry /\ e.id = id /\ ~ e.own
    BY DEF Entry
<1>2. HistoryType
    BY DEF DispatchInv
<1>3. dedup' \in Persisted(e.id) /\ log' = Append(log, e) /\ seen' = seen
    BY <1>1 DEF OtherDispatch
<1> HIDE DEF e
<1>4. /\ Grown(e)
      /\ AllKept' => AllKept
      /\ \A x : Private(log', x) => Private(log, x) /\ (e.id = x => e.own)
    BY <1>1, <1>2, <1>3, LogGrows
<1>5. HistoryType'
    BY <1>1, <1>2, <1>3, <1>4, PersistedProperties DEF HistoryType, Grown
<1>6. Spaced'
    BY <1>1, <1>4, DispatchSpaced
<1>7. ASSUME AllKept'
      PROVE  MemoryHolds' /\ ListIsLog'
    <2>1. MemoryHolds /\ ListIsLog
        BY <1>4, <1>7 DEF DispatchInv
    <2>2. ListIsLog'
        BY <1>1, <1>2, <1>3, <1>4, <2>1, ListFollows
    <2>3. PICK n \in Nat : n = Len(log) /\ Len(log') = n + 1
        BY <1>4 DEF Grown
    <2>4. MemoryHolds'
        <3> SUFFICES ASSUME NEW i \in 1..(n + 1), log'[i].own, Private(log', log'[i].id)
                     PROVE  \/ (n + 1) - i >= MaxSeen
                            \/ InMemory(seen', log'[i].id, (n + 1) - i)
            BY <2>3 DEF MemoryHolds
        <3>1. i \in 1..n /\ log'[i] = log[i]
            BY <1>1, <1>4, <2>3 DEF Grown
        <3>2. n - i >= MaxSeen \/ InMemory(seen, log[i].id, n - i)
            BY <1>4, <2>1, <2>3, <3>1 DEF MemoryHolds
        <3>3. CASE n - i >= MaxSeen
            BY <3>1, <3>3, SignalDispatcherAssumption
        <3>4. CASE InMemory(seen, log[i].id, n - i)
            <4>1. PICK p \in 1..Len(seen) : seen[p] = log[i].id /\ Len(seen) - p <= n - i
                BY <3>4 DEF InMemory
            <4>2. Len(seen) - p <= (n + 1) - i
                BY <1>2, <3>1, <4>1, LenProperties DEF HistoryType
            <4> QED
                BY <1>3, <3>1, <4>1, <4>2 DEF InMemory
        <3> QED
            BY <3>2, <3>3, <3>4
    <2> QED
        BY <2>2, <2>4
<1> QED
    BY <1>5, <1>6, <1>7 DEF DispatchInv

\* What a start finds in the list is the end of the log.
LEMMA RestoredIsLog ==
    ASSUME HistoryType, ListIsLog
    PROVE  LET z == Reverse(Restored)
               n == Len(log)
               w == Window(n)
           IN  /\ z \in Seq(Id) /\ Len(z) = w
               /\ \A k \in 1..w : z[k] = log[(n - w) + k].id
<1>1. PICK n \in Nat : n = Len(log)
    BY LenProperties DEF HistoryType
<1>2. PICK w \in Nat : w = Window(n) /\ w <= n
    BY SignalDispatcherAssumption DEF Window
<1>3. /\ w <= Len(dedup) /\ Len(dedup) <= n /\ Len(dedup) \in Nat
      /\ \A i \in 1..w : dedup[i] = log[(n - i) + 1].id
    BY <1>1, <1>2, LenProperties DEF HistoryType, ListIsLog
<1>4. PICK y \in Seq(Id) :
          y = Restored /\ Len(y) = w /\ \A i \in 1..w : y[i] = dedup[i]
    <2>1. /\ Restored \in Seq(Id)
          /\ Len(Restored) = IF Len(dedup) < MaxSeen THEN Len(dedup) ELSE MaxSeen
          /\ \A i \in 1..Len(Restored) : Restored[i] = dedup[i]
        BY SignalDispatcherAssumption, NewestProperties DEF Restored, HistoryType
    <2>2. Len(Restored) = w
        BY <1>1, <1>2, <1>3, <2>1, SignalDispatcherAssumption DEF Window
    <2> QED
        BY <2>1, <2>2
<1>5. PICK z \in Seq(Id) :
          z = Reverse(y) /\ Len(z) = w /\ \A k \in 1..w : z[k] = y[(w - k) + 1]
    BY <1>4, ReverseProperties
<1>6. ASSUME NEW k \in 1..w
      PROVE  z[k] = log[(n - w) + k].id
    <2>1. (w - k) + 1 \in 1..w /\ (n - ((w - k) + 1)) + 1 = (n - w) + k
        OBVIOUS
    <2> QED
        BY <1>3, <1>4, <1>5, <2>1
<1> QED
    BY <1>1, <1>2, <1>4, <1>5, <1>6

LEMMA RestartKeeps ==
    ASSUME DispatchInv, Restart
    PROVE  DispatchInv'
<1>0. /\ HistoryType /\ dedup' = dedup
      /\ Len(log) \in Nat /\ DOMAIN log = 1..Len(log)
    BY LenProperties DEF DispatchInv, HistoryType, Restart
<1>1. CASE seen' = Deduplicated(Reverse(Restored)) /\ UNCHANGED log
    <2>1. PICK z : z = Reverse(Restored)
        OBVIOUS
    <2>2. z \in Seq(Id) /\ Len(z) \in Nat /\ Len(z) <= MaxSeen
        <3>1. Restored \in Seq(Id) /\ Len(Restored) <= MaxSeen
            <4>1. /\ Restored \in Seq(Id)
                  /\ Len(Restored) = IF Len(dedup) < MaxSeen THEN Len(dedup) ELSE MaxSeen
                BY <1>0, SignalDispatcherAssumption, NewestProperties DEF Restored, HistoryType
            <4>2. Len(dedup) \in Nat
                BY <1>0, LenProperties DEF HistoryType
            <4> QED
                BY <4>1, <4>2, SignalDispatcherAssumption
        <3> QED
            BY <2>1, <3>1, ReverseProperties, LenProperties
    <2>3. /\ seen' \in Seq(Id)
          /\ Len(seen') <= Len(z)
          /\ \A q \in 1..Len(z) :
                 (\A j \in 1..Len(z) : z[j] = z[q] => q <= j)
                 => \E p \in 1..Len(seen') : seen'[p] = z[q] /\ Len(seen') - p <= Len(z) - q
        BY <1>1, <2>1, <2>2, DeduplicatedProperties
    <2>4. HistoryType'
        BY <1>0, <1>1, <2>2, <2>3, LenProperties, SignalDispatcherAssumption DEF HistoryType
    <2>5. Spaced' /\ (AllKept' => AllKept) /\ (ListIsLog => ListIsLog')
        BY <1>0, <1>1 DEF DispatchInv, Spaced, AllKept, ListIsLog
    <2>6. ASSUME AllKept
          PROVE  MemoryHolds'
        <3>1. ListIsLog /\ Spaced
            BY <2>6 DEF DispatchInv
        <3>2. PICK n \in Nat : n = Len(log)
            BY <1>0
        <3>3. PICK w \in Nat : w = Window(n) /\ w <= n /\ w <= MaxSeen
            BY SignalDispatcherAssumption DEF Window
        <3>4. Len(z) = w /\ \A k \in 1..w : z[k] = log[(n - w) + k].id
            BY <1>0, <2>1, <3>1, <3>2, <3>3, RestoredIsLog
        <3> SUFFICES ASSUME NEW i \in 1..n, log[i].own, Private(log, log[i].id), n - i < MaxSeen
                     PROVE  InMemory(seen', log[i].id, n - i)
            <4>1. \A i \in 1..n : n - i < MaxSeen \/ n - i >= MaxSeen
                BY SignalDispatcherAssumption
            <4>2. log' = log /\ \A x : Private(log', x) = Private(log, x)
                BY <1>1 DEF Private
            <4> QED
                BY <3>2, <4>1, <4>2 DEF MemoryHolds
        <3>5. PICK q \in 1..w : (n - w) + q = i
            <4>1. i - (n - w) \in 1..w
                BY <3>3, SignalDispatcherAssumption DEF Window
            <4>2. (n - w) + (i - (n - w)) = i
                BY <3>3
            <4> QED
                BY <4>1, <4>2
        <3>6. z[q] = log[i].id
            BY <3>4, <3>5
        <3>7. ASSUME NEW j \in 1..w, z[j] = z[q]
              PROVE  q <= j
            <4> SUFFICES ASSUME j < q PROVE FALSE
                OBVIOUS
            <4>1. PICK h \in 1..n : h = (n - w) + j
                BY <3>3
            <4>2. log[h].id = log[i].id /\ h < i
                BY <3>4, <3>5, <3>6, <3>7, <4>1
            <4>3. \A k \in 1..i : k \in 1..n
                OBVIOUS
            <4>4. \A k \in 1..i : log[k].kept /\ (log[k].id = log[h].id => log[k].own)
                BY <2>6, <3>2, <4>2, <4>3 DEF AllKept, Private
            <4>5. i - h > MaxSeen
                BY <3>1, <3>2, <4>2, <4>4 DEF Spaced
            <4>6. i - h <= w
                BY <3>3, <3>5, <4>1
            <4> QED
                BY <3>3, <4>1, <4>5, <4>6, SignalDispatcherAssumption
        <3>8. PICK p \in 1..Len(seen') : seen'[p] = z[q] /\ Len(seen') - p <= w - q
            BY <2>3, <3>4, <3>7
        <3>9. w - q = n - i
            BY <3>5
        <3> QED
            BY <3>6, <3>8, <3>9 DEF InMemory
    <2> QED
        BY <2>4, <2>5, <2>6 DEF DispatchInv
<1>2. CASE /\ seen' = <<>>
           /\ log' = [i \in DOMAIN log |-> [log[i] EXCEPT !.kept = FALSE]]
    <2>0. \A i \in 1..Len(log) : log[i] \in Entry
        BY <1>0, ElementOfSeq DEF HistoryType
    <2>1. \A i \in 1..Len(log) : [log[i] EXCEPT !.kept = FALSE] \in Entry
        BY <2>0 DEF Entry
    <2>2. log' \in [1..Len(log) -> Entry]
        BY <1>0, <1>2, <2>1
    <2>3. log' \in Seq(Entry)
        BY <1>0, <2>2, SeqDef
    <2>4. Len(log') = Len(log)
        BY <1>0, <2>2, <2>3, LenProperties
    <2>5. \A i \in 1..Len(log) : log'[i].kept = FALSE
        BY <1>0, <1>2, <2>0 DEF Entry
    <2>6. seen' \in Seq(Id) /\ Len(seen') = 0
        BY <1>2, EmptySeq
    <2>7. HistoryType'
        BY <1>0, <2>3, <2>6, SignalDispatcherAssumption DEF HistoryType
    <2>8. Spaced'
        <3>1. \A j \in 1..Len(log) : ~ log'[1].kept /\ 1 \in 1..j
            BY <1>0, <2>5
        <3> QED
            BY <2>4, <3>1 DEF Spaced
    <2>9. ASSUME AllKept'
          PROVE  MemoryHolds' /\ ListIsLog'
        <3>1. Len(log) = 0
            BY <1>0, <2>4, <2>5, <2>9 DEF AllKept
        <3>2. AllKept
            BY <3>1 DEF AllKept
        <3>3. Window(0) = 0
            BY SignalDispatcherAssumption DEF Window
        <3>4. Len(dedup) = 0
            BY <1>0, <3>1, <3>2, LenProperties DEF DispatchInv, ListIsLog, HistoryType
        <3> QED
            BY <1>0, <2>4, <3>1, <3>3, <3>4 DEF MemoryHolds, ListIsLog
    <2> QED
        BY <2>7, <2>8, <2>9 DEF DispatchInv
<1> QED
    BY <1>1, <1>2 DEF Restart

LEMMA NextDispatch == DispatchInv /\ [DispatchNext]_dispatchVars => DispatchInv'
<1> SUFFICES ASSUME DispatchInv, [DispatchNext]_dispatchVars
             PROVE  DispatchInv'
    OBVIOUS
<1>1. CASE UNCHANGED dispatchVars
    BY <1>1 DEF dispatchVars, DispatchInv, HistoryType, Spaced, AllKept, MemoryHolds,
                InMemory, Private, ListIsLog
<1> QED
    BY <1>1, DispatchKeeps, OtherKeeps, RestartKeeps DEF DispatchNext

\* As long as every id of this runner reached the list in Redis and every start could
\* read it, an id that only this runner sends is in its memory until max_seen ids of
\* all runners went to the list after it, over restarts too, and the list begins with
\* the last ids of all runners (_remember, _restore_seen).
THEOREM RestartForgetsNothing == DispatchSpec => [](AllKept => MemoryHolds /\ ListIsLog)
<1>1. DispatchInv => (AllKept => MemoryHolds /\ ListIsLog)
    BY DEF DispatchInv
<1> QED
    BY <1>1, InitDispatch, NextDispatch, PTL DEF DispatchSpec

-----------------------------------------------------------------------------
(***************************************************************************)
(* 5. No early repeat.                                                     *)
(***************************************************************************)

\* A signal id that only this runner sends is not remembered, and so not handed to
\* XADD, a second time until max_seen ids of all runners went to the list, over any
\* number of restarts, if every id of this runner reached the list and every start
\* could read it (dispatch, _remember, _restore_seen).
THEOREM RepeatsAreSpaced == DispatchSpec => []NoEarlyRepeat
<1>1. DispatchInv => NoEarlyRepeat
    <2>1. DispatchInv => DOMAIN log = 1..Len(log)
        BY LenProperties DEF DispatchInv, HistoryType
    <2> QED
        BY <2>1 DEF DispatchInv, Spaced, NoEarlyRepeat
<1> QED
    BY <1>1, InitDispatch, NextDispatch, PTL DEF DispatchSpec

-----------------------------------------------------------------------------
(***************************************************************************)
(* 6. The bounded queue.                                                   *)
(***************************************************************************)

\* An enqueued event is refused, or appended after the oldest made room for it;
\* every other event keeps its place or moves up by one.
LEMMA EnqueuedProperties ==
    ASSUME NEW q \in Seq(Event), Len(q) <= QueueSize, NEW e \in Event
    PROVE  /\ Enqueued(q, e) \in Seq(Event)
           /\ Len(Enqueued(q, e)) <= QueueSize
           /\ \/ /\ Enqueued(q, e) = q
                 /\ e.kind # "kline"
              \/ /\ Len(q) < QueueSize
                 /\ Len(Enqueued(q, e)) = Len(q) + 1
                 /\ \A i \in 1..Len(q) : Enqueued(q, e)[i] = q[i]
                 /\ Enqueued(q, e)[Len(q) + 1] = e
              \/ /\ e.kind = "kline"
                 /\ q # <<>> /\ Len(Enqueued(q, e)) = Len(q)
                 /\ \A i \in 1..(Len(q) - 1) : Enqueued(q, e)[i] = q[i + 1]
                 /\ Enqueued(q, e)[Len(q)] = e
<1>1. CASE Len(q) < QueueSize
    BY <1>1, StrategyLoopAssumption, AppendProperties DEF Enqueued
<1>2. CASE Len(q) >= QueueSize /\ e.kind = "kline"
    <2>1. q # <<>>
        BY <1>2, StrategyLoopAssumption, EmptySeq
    <2>2. /\ Tail(q) \in Seq(Event)
          /\ Len(Tail(q)) = Len(q) - 1
          /\ \A i \in 1..Len(Tail(q)) : Tail(q)[i] = q[i + 1]
        BY <2>1, HeadTailProperties
    <2>3. Enqueued(q, e) = Append(Tail(q), e)
        BY <1>2, StrategyLoopAssumption DEF Enqueued
    <2>4. /\ Append(Tail(q), e) \in Seq(Event)
          /\ Len(Append(Tail(q), e)) = Len(q) - 1 + 1
          /\ \A i \in 1..(Len(q) - 1) : Append(Tail(q), e)[i] = Tail(q)[i]
          /\ Append(Tail(q), e)[Len(q) - 1 + 1] = e
        BY <2>2, AppendProperties
    <2>5. Len(q) \in Nat /\ Len(q) - 1 + 1 = Len(q)
        BY LenProperties
    <2> QED
        BY <1>2, <2>1, <2>2, <2>3, <2>4, <2>5
<1>3. CASE Len(q) >= QueueSize /\ e.kind # "kline"
    BY <1>3, StrategyLoopAssumption DEF Enqueued
<1>4. Len(q) < QueueSize \/ Len(q) >= QueueSize
    BY StrategyLoopAssumption, LenProperties
<1> QED
    BY <1>1, <1>2, <1>3, <1>4

-----------------------------------------------------------------------------
(***************************************************************************)
(* 7. Type correctness.                                                    *)
(***************************************************************************)

LEMMA InitLoopType == LoopInit => LoopTypeOK
<1> SUFFICES ASSUME LoopInit PROVE LoopTypeOK
    OBVIOUS
<1>1. \A s \in Strategy : queue[s] = <<>> /\ Len(queue[s]) <= QueueSize
    BY StrategyLoopAssumption, EmptySeq DEF LoopInit
<1>2. queue \in [Strategy -> Seq(Event)]
    BY EmptySeq DEF LoopInit
<1> QED
    BY <1>1, <1>2, StrategyLoopAssumption DEF LoopInit, LoopTypeOK

LEMMA NextLoopType == LoopTypeOK /\ [LoopNext]_loopVars => LoopTypeOK'
<1> SUFFICES ASSUME LoopTypeOK, [LoopNext]_loopVars
             PROVE  LoopTypeOK'
    OBVIOUS
<1>0. /\ queue \in [Strategy -> Seq(Event)]
      /\ \A s \in Strategy : Len(queue[s]) <= QueueSize
    BY DEF LoopTypeOK
<1>1. CASE UNCHANGED loopVars
    BY <1>1 DEF loopVars, LoopTypeOK
<1>2. ASSUME NEW kind \in Kind, NEW S \in SUBSET Strategy, HandleMessage(kind, S)
      PROVE  LoopTypeOK'
    <2>1. /\ received + 1 \in 1..MaxEvents
          /\ received' = received + 1
        BY <1>2, StrategyLoopAssumption DEF HandleMessage, LoopTypeOK
    <2> DEFINE e == [kind |-> kind, nr |-> received + 1]
    <2>2. e \in Event
        BY <2>1 DEF Event
    <2>3. \A s \in Strategy : /\ Enqueued(queue[s], e) \in Seq(Event)
                              /\ Len(Enqueued(queue[s], e)) <= QueueSize
        BY <1>0, <2>2, EnqueuedProperties
    <2>4. queue' = [s \in Strategy |-> IF s \in S THEN Enqueued(queue[s], e) ELSE queue[s]]
        BY <1>2 DEF HandleMessage
    <2>5. /\ queue' \in [Strategy -> Seq(Event)]
          /\ \A s \in Strategy : Len(queue'[s]) <= QueueSize
        <3> HIDE DEF e
        <3> QED
            BY <1>0, <2>3, <2>4
    <2>6. newest' \in [Strategy -> 0..MaxEvents]
        BY <1>2, <2>1 DEF HandleMessage, LoopTypeOK
    <2>7. received' \in 0..MaxEvents
        BY <2>1, StrategyLoopAssumption
    <2>8. UNCHANGED <<pc, event, admitted, free, taken>>
        BY <1>2 DEF HandleMessage
    <2> QED
        BY <2>5, <2>6, <2>7, <2>8 DEF LoopTypeOK
<1>3. ASSUME NEW s \in Strategy, Get(s)
      PROVE  LoopTypeOK'
    <2>1. queue[s] # <<>> /\ queue[s] \in Seq(Event)
        BY <1>0, <1>3 DEF Get
    <2>2. /\ Head(queue[s]) \in Event
          /\ Tail(queue[s]) \in Seq(Event)
          /\ Len(Tail(queue[s])) <= QueueSize
        BY <1>0, <2>1, HeadTailProperties, StrategyLoopAssumption
    <2>3. queue' = [queue EXCEPT ![s] = Tail(queue[s])]
        BY <1>3 DEF Get
    <2>4. /\ queue' \in [Strategy -> Seq(Event)]
          /\ \A t \in Strategy : Len(queue'[t]) <= QueueSize
        BY <1>0, <2>2, <2>3
    <2>5. Head(queue[s]).nr \in 0..MaxEvents
        BY <2>2, StrategyLoopAssumption DEF Event
    <2>6. /\ event' \in [Strategy -> Event \cup {NoEvent}]
          /\ taken' \in [Strategy -> 0..MaxEvents]
          /\ pc' \in [Strategy -> {"get", "admit", "handle"}]
        BY <1>3, <2>2, <2>5 DEF Get, LoopTypeOK
    <2>7. UNCHANGED <<admitted, free, newest, received>>
        BY <1>3 DEF Get
    <2> QED
        BY <2>4, <2>6, <2>7 DEF LoopTypeOK
<1>4. ASSUME NEW s \in Strategy, Admit(s) \/ AdmissionTimeout(s) \/ LeaveHandler(s)
      PROVE  LoopTypeOK'
    <2>1. /\ pc' \in [Strategy -> {"get", "admit", "handle"}]
          /\ event' \in [Strategy -> Event \cup {NoEvent}]
          /\ admitted' \subseteq Strategy
          /\ free' \in Int
        <3>1. CASE Admit(s)
            BY <3>1 DEF Admit, LoopTypeOK
        <3>2. CASE AdmissionTimeout(s)
            BY <3>2 DEF AdmissionTimeout, LoopTypeOK
        <3>3. CASE LeaveHandler(s)
            BY <3>3 DEF LeaveHandler, Released, LoopTypeOK
        <3> QED
            BY <1>4, <3>1, <3>2, <3>3
    <2>2. UNCHANGED <<queue, newest, taken, received>>
        BY <1>4 DEF Admit, AdmissionTimeout, LeaveHandler
    <2> QED
        BY <2>1, <2>2 DEF LoopTypeOK
<1> QED
    BY <1>1, <1>2, <1>3, <1>4 DEF LoopNext

\* Every variable keeps its type; no queue grows beyond its bound
\* (SharedPubSubManager.handle_message).
THEOREM LoopTypeCorrect == LoopSpec => []LoopTypeOK
BY InitLoopType, NextLoopType, PTL DEF LoopSpec

-----------------------------------------------------------------------------
(***************************************************************************)
(* 8. The permits.                                                         *)
(***************************************************************************)

\* Who holds a permit is in its handler: nobody takes a second one, and the finally
\* block of the handler finds the permit it has to give back.
PermitInv ==
    /\ \A s \in admitted : pc[s] = "handle"
    /\ PermitsConserved

LEMMA FiniteAdmitted ==
    ASSUME LoopTypeOK
    PROVE  IsFiniteSet(admitted) /\ Cardinality(admitted) \in Nat
<1>1. IsFiniteSet(admitted)
    BY StrategyLoopAssumption, FS_Subset DEF LoopTypeOK
<1> QED
    BY <1>1, FS_CardinalityType

LEMMA InitPermits == LoopInit => PermitInv
BY StrategyLoopAssumption, FS_EmptySet DEF LoopInit, PermitInv, PermitsConserved

LEMMA NextPermits == LoopTypeOK /\ PermitInv /\ [LoopNext]_loopVars => PermitInv'
<1> SUFFICES ASSUME LoopTypeOK, PermitInv, [LoopNext]_loopVars
             PROVE  PermitInv'
    OBVIOUS
<1>0. /\ IsFiniteSet(admitted) /\ Cardinality(admitted) \in Nat
      /\ free \in Int /\ free >= 0 /\ free + Cardinality(admitted) = Permits
      /\ \A s \in admitted : pc[s] = "handle"
      /\ admitted \subseteq Strategy
      /\ pc \in [Strategy -> {"get", "admit", "handle"}]
    BY FiniteAdmitted DEF LoopTypeOK, PermitInv, PermitsConserved
<1>1. CASE UNCHANGED loopVars
    BY <1>0, <1>1 DEF loopVars, PermitInv, PermitsConserved
<1>2. ASSUME NEW kind \in Kind, NEW S \in SUBSET Strategy, HandleMessage(kind, S)
      PROVE  PermitInv'
    BY <1>0, <1>2 DEF HandleMessage, PermitInv, PermitsConserved
<1>3. ASSUME NEW s \in Strategy, Get(s) \/ AdmissionTimeout(s)
      PROVE  PermitInv'
    <2>1. UNCHANGED <<admitted, free>> /\ \A t \in Strategy : t # s => pc'[t] = pc[t]
        BY <1>0, <1>3 DEF Get, AdmissionTimeout
    <2>2. s \notin admitted
        BY <1>0, <1>3 DEF Get, AdmissionTimeout
    <2>3. \A t \in admitted : pc'[t] = "handle"
        BY <1>0, <2>1, <2>2
    <2> QED
        BY <1>0, <2>1, <2>3 DEF PermitInv, PermitsConserved
<1>4. ASSUME NEW s \in Strategy, Admit(s)
      PROVE  PermitInv'
    <2>1. s \notin admitted
        BY <1>0, <1>4 DEF Admit
    <2>2. admitted' = admitted \cup {s} /\ free' = free - 1 /\ free > 0
        BY <1>4 DEF Admit
    <2>3. Cardinality(admitted') = Cardinality(admitted) + 1
        BY <1>0, <2>1, <2>2, FS_AddElement
    <2>4. \A t \in admitted' : pc'[t] = "handle"
        BY <1>0, <1>4, <2>2 DEF Admit
    <2> QED
        BY <1>0, <2>2, <2>3, <2>4 DEF PermitInv, PermitsConserved
<1>5. ASSUME NEW s \in Strategy, LeaveHandler(s)
      PROVE  PermitInv'
    <2>1. admitted' = admitted \ {s} /\ free' = free + (IF s \in admitted THEN 1 ELSE 0)
        BY <1>5 DEF LeaveHandler, Released
    <2>2. Cardinality(admitted') =
             IF s \in admitted THEN Cardinality(admitted) - 1 ELSE Cardinality(admitted)
        BY <1>0, <2>1, FS_RemoveElement
    <2>3. \A t \in admitted' : pc'[t] = "handle"
        BY <1>0, <1>5, <2>1 DEF LeaveHandler
    <2>4. free' >= 0 /\ free' + Cardinality(admitted') = Permits
        BY <1>0, <2>1, <2>2
    <2> QED
        BY <2>3, <2>4 DEF PermitInv, PermitsConserved
<1> QED
    BY <1>1, <1>2, <1>3, <1>4, <1>5 DEF LoopNext

\* The semaphore never gives more permits than it has and gets every one back, over
\* handlers that raise or time out and events that went on without admission (the
\* finally blocks of run_strategy_event_loop).
THEOREM PermitsAddUp == LoopSpec => []PermitsConserved
<1>1. PermitInv => PermitsConserved
    BY DEF PermitInv
<1> QED
    BY <1>1, InitPermits, NextPermits, LoopTypeCorrect, PTL DEF LoopSpec

-----------------------------------------------------------------------------
(***************************************************************************)
(* 9. Klines.                                                              *)
(***************************************************************************)

\* The events of a queue are in the order they were received, and its klines are
\* newer than the one the loop has taken.
Ordered(s) ==
    /\ newest[s] <= received
    /\ \A i, j \in 1..Len(queue[s]) : i < j => queue[s][i].nr < queue[s][j].nr
    /\ \A i \in 1..Len(queue[s]) :
          /\ queue[s][i].nr <= received
          /\ queue[s][i].kind = "kline" =>
                taken[s] < queue[s][i].nr /\ queue[s][i].nr <= newest[s]
    /\ taken[s] <= newest[s]

\* The newest kline of s waits, if the loop has not taken it.
Waits(s) ==
    newest[s] > taken[s] =>
        \E i \in 1..Len(queue[s]) :
            queue[s][i].kind = "kline" /\ queue[s][i].nr = newest[s]

KlineInv == \A s \in Strategy : Ordered(s) /\ Waits(s)

LEMMA InitKlines == LoopInit => KlineInv
<1> SUFFICES ASSUME LoopInit, NEW s \in Strategy
             PROVE  Ordered(s) /\ Waits(s)
    BY DEF KlineInv
<1>1. Len(queue[s]) = 0 /\ newest[s] = 0 /\ taken[s] = 0 /\ received = 0
    BY EmptySeq DEF LoopInit
<1> QED
    BY <1>1 DEF Ordered, Waits

\* A message for s: the event it may evict is the newest kline only if a newer one
\* takes its place.
LEMMA EnqueueKlines ==
    ASSUME LoopTypeOK, KlineInv, NEW kind \in Kind, NEW S \in SUBSET Strategy,
           HandleMessage(kind, S), NEW s \in S
    PROVE  Ordered(s)' /\ Waits(s)'
<1> DEFINE e == [kind |-> kind, nr |-> received + 1]
<1>1. /\ received \in Nat /\ received + 1 \in 1..MaxEvents
      /\ received' = received + 1
    BY StrategyLoopAssumption DEF HandleMessage, LoopTypeOK
<1>2. e \in Event /\ e.kind = kind /\ e.nr = received + 1
    BY <1>1 DEF Event
<1>3. PICK q \in Seq(Event) : q = queue[s] /\ Len(q) <= QueueSize /\ Len(q) \in Nat
    BY LenProperties DEF LoopTypeOK
<1>4. PICK z \in Seq(Event) : z = Enqueued(q, e) /\ Len(z) \in Nat
    BY <1>2, <1>3, EnqueuedProperties, LenProperties
<1>5. queue'[s] = z
    BY <1>3, <1>4 DEF HandleMessage, LoopTypeOK
<1>6. /\ newest'[s] = IF kind = "kline" THEN received + 1 ELSE newest[s]
      /\ taken'[s] = taken[s]
    BY DEF HandleMessage
<1>7. newest[s] \in Nat /\ taken[s] \in Nat
    BY DEF LoopTypeOK
<1>8. /\ newest[s] <= received /\ taken[s] <= newest[s]
      /\ \A i, j \in 1..Len(q) : i < j => q[i].nr < q[j].nr
      /\ \A i \in 1..Len(q) :
            /\ q[i].nr <= received
            /\ q[i].kind = "kline" => taken[s] < q[i].nr /\ q[i].nr <= newest[s]
      /\ newest[s] > taken[s] =>
            \E i \in 1..Len(q) : q[i].kind = "kline" /\ q[i].nr = newest[s]
    BY <1>3 DEF KlineInv, Ordered, Waits
<1>9. \A i \in 1..Len(q) : q[i].nr \in Nat
    <2>1. \A i \in 1..Len(q) : q[i] \in Event
        BY <1>3, ElementOfSeq
    <2> QED
        BY <2>1 DEF Event
<1>10. \/ z = q /\ kind # "kline"
       \/ /\ Len(z) = Len(q) + 1
          /\ \A i \in 1..Len(q) : z[i] = q[i]
          /\ z[Len(q) + 1] = e
       \/ /\ kind = "kline"
          /\ Len(q) > 0 /\ Len(z) = Len(q)
          /\ \A i \in 1..(Len(q) - 1) : z[i] = q[i + 1]
          /\ z[Len(q)] = e
    <2>1. q # <<>> => Len(q) > 0
        BY <1>3, EmptySeq
    <2> HIDE DEF e
    <2>2. \/ Enqueued(q, e) = q /\ e.kind # "kline"
          \/ /\ Len(Enqueued(q, e)) = Len(q) + 1
             /\ \A i \in 1..Len(q) : Enqueued(q, e)[i] = q[i]
             /\ Enqueued(q, e)[Len(q) + 1] = e
          \/ /\ e.kind = "kline"
             /\ q # <<>> /\ Len(Enqueued(q, e)) = Len(q)
             /\ \A i \in 1..(Len(q) - 1) : Enqueued(q, e)[i] = q[i + 1]
             /\ Enqueued(q, e)[Len(q)] = e
        BY <1>2, <1>3, EnqueuedProperties
    <2> QED
        BY <1>2, <1>4, <2>1, <2>2
<1> HIDE DEF e
<1> DEFINE Goal ==
        /\ newest'[s] <= received + 1
        /\ \A i, j \in 1..Len(z) : i < j => z[i].nr < z[j].nr
        /\ \A i \in 1..Len(z) :
              /\ z[i].nr <= received + 1
              /\ z[i].kind = "kline" => taken[s] < z[i].nr /\ z[i].nr <= newest'[s]
        /\ taken[s] <= newest'[s]
        /\ newest'[s] > taken[s] =>
              \E i \in 1..Len(z) : z[i].kind = "kline" /\ z[i].nr = newest'[s]
<1> SUFFICES Goal
    BY <1>1, <1>5, <1>6 DEF Ordered, Waits
<1>11. CASE z = q /\ kind # "kline"
    BY <1>1, <1>3, <1>6, <1>7, <1>8, <1>9, <1>11
<1>12. CASE /\ Len(z) = Len(q) + 1
            /\ \A i \in 1..Len(q) : z[i] = q[i]
            /\ z[Len(q) + 1] = e
    <2>1. \A i \in 1..Len(z) :
              \/ i \in 1..Len(q) /\ z[i].nr = q[i].nr /\ z[i].kind = q[i].kind
              \/ i = Len(q) + 1 /\ z[i].nr = received + 1 /\ z[i].kind = kind
        BY <1>2, <1>3, <1>12
    <2>2. /\ newest'[s] <= received + 1 /\ taken[s] <= newest'[s]
          /\ newest[s] <= newest'[s] /\ newest'[s] \in Nat
          /\ kind = "kline" => newest'[s] = received + 1
        BY <1>1, <1>6, <1>7, <1>8
    <2>3. ASSUME NEW i \in 1..Len(z), NEW j \in 1..Len(z), i < j
          PROVE  z[i].nr < z[j].nr
        <3>1. i \in 1..Len(q) /\ z[i].nr = q[i].nr
            BY <1>3, <1>12, <2>1, <2>3
        <3>2. CASE j \in 1..Len(q) /\ z[j].nr = q[j].nr
            BY <1>8, <2>3, <3>1, <3>2
        <3>3. CASE z[j].nr = received + 1
            BY <1>1, <1>8, <1>9, <3>1, <3>3
        <3> QED
            BY <2>1, <3>2, <3>3
    <2>4. ASSUME NEW i \in 1..Len(z)
          PROVE  /\ z[i].nr <= received + 1
                 /\ z[i].kind = "kline" => taken[s] < z[i].nr /\ z[i].nr <= newest'[s]
        <3>1. CASE i \in 1..Len(q) /\ z[i].nr = q[i].nr /\ z[i].kind = q[i].kind
            BY <1>1, <1>7, <1>8, <1>9, <2>2, <3>1
        <3>2. CASE z[i].nr = received + 1 /\ z[i].kind = kind
            BY <1>1, <1>7, <1>8, <2>2, <3>2
        <3> QED
            BY <2>1, <3>1, <3>2
    <2>5. ASSUME newest'[s] > taken[s]
          PROVE  \E i \in 1..Len(z) : z[i].kind = "kline" /\ z[i].nr = newest'[s]
        <3>1. CASE kind = "kline"
            <4>1. Len(q) + 1 \in 1..Len(z)
                BY <1>3, <1>12
            <4> QED
                BY <1>2, <1>12, <2>2, <3>1, <4>1
        <3>2. CASE kind # "kline"
            <4>1. PICK i \in 1..Len(q) : q[i].kind = "kline" /\ q[i].nr = newest'[s]
                BY <1>6, <1>8, <2>5, <3>2
            <4>2. i \in 1..Len(z) /\ z[i] = q[i]
                BY <1>3, <1>12
            <4> QED
                BY <4>1, <4>2
        <3> QED
            BY <3>1, <3>2
    <2> QED
        BY <2>2, <2>3, <2>4, <2>5
<1>13. CASE /\ kind = "kline"
            /\ Len(q) > 0 /\ Len(z) = Len(q)
            /\ \A i \in 1..(Len(q) - 1) : z[i] = q[i + 1]
            /\ z[Len(q)] = e
    <2>1. \A i \in 1..Len(z) :
              \/ i + 1 \in 1..Len(q) /\ z[i].nr = q[i + 1].nr /\ z[i].kind = q[i + 1].kind
              \/ i = Len(q) /\ z[i].nr = received + 1
        BY <1>2, <1>3, <1>13
    <2>2. newest'[s] = received + 1
        BY <1>6, <1>13
    <2>3. ASSUME NEW i \in 1..Len(z), NEW j \in 1..Len(z), i < j
          PROVE  z[i].nr < z[j].nr
        <3>1. i + 1 \in 1..Len(q) /\ z[i].nr = q[i + 1].nr
            BY <1>3, <1>13, <2>1, <2>3
        <3>2. CASE j + 1 \in 1..Len(q) /\ z[j].nr = q[j + 1].nr
            <4>1. i + 1 < j + 1
                BY <2>3
            <4> QED
                BY <1>8, <3>1, <3>2, <4>1
        <3>3. CASE z[j].nr = received + 1
            BY <1>1, <1>8, <1>9, <3>1, <3>3
        <3> QED
            BY <2>1, <3>2, <3>3
    <2>4. ASSUME NEW i \in 1..Len(z)
          PROVE  /\ z[i].nr <= received + 1
                 /\ z[i].kind = "kline" => taken[s] < z[i].nr /\ z[i].nr <= newest'[s]
        <3>1. CASE i + 1 \in 1..Len(q) /\ z[i].nr = q[i + 1].nr /\ z[i].kind = q[i + 1].kind
            BY <1>1, <1>7, <1>8, <1>9, <2>2, <3>1
        <3>2. CASE z[i].nr = received + 1
            BY <1>1, <1>7, <1>8, <2>2, <3>2
        <3> QED
            BY <2>1, <3>1, <3>2
    <2>5. Len(q) \in 1..Len(z) /\ z[Len(q)].kind = "kline" /\ z[Len(q)].nr = newest'[s]
        BY <1>2, <1>3, <1>13, <2>2
    <2>6. newest'[s] <= received + 1 /\ taken[s] <= newest'[s]
        BY <1>1, <1>7, <1>8, <2>2
    <2> QED
        BY <2>3, <2>4, <2>5, <2>6
<1> QED
    BY <1>10, <1>11, <1>12, <1>13

\* The loop takes the oldest event: if it is a kline, the others are newer.
LEMMA TakeKlines ==
    ASSUME LoopTypeOK, KlineInv, NEW s \in Strategy, Get(s)
    PROVE  Ordered(s)' /\ Waits(s)' /\ taken'[s] >= taken[s]
<1>1. PICK q \in Seq(Event) : q = queue[s] /\ q # <<>> /\ Len(q) \in Nat
    BY LenProperties DEF LoopTypeOK, Get
<1>2. PICK z \in Seq(Event) :
          /\ z = Tail(q) /\ Len(z) = Len(q) - 1 /\ Len(q) > 0
          /\ \A i \in 1..Len(z) : i + 1 \in 1..Len(q) /\ z[i] = q[i + 1]
    <2>1. Len(q) > 0
        BY <1>1, EmptySeq
    <2>2. /\ Tail(q) \in Seq(Event) /\ Len(Tail(q)) = Len(q) - 1
          /\ \A i \in 1..Len(Tail(q)) : Tail(q)[i] = q[i + 1]
        BY <1>1, HeadTailProperties
    <2>3. \A i \in 1..Len(Tail(q)) : i + 1 \in 1..Len(q)
        BY <1>1, <2>2
    <2> QED
        BY <2>1, <2>2, <2>3
<1>3. Head(q) = q[1] /\ 1 \in 1..Len(q)
    BY <1>1, <1>2
<1>4. /\ queue'[s] = z
      /\ taken'[s] = IF q[1].kind = "kline" THEN q[1].nr ELSE taken[s]
      /\ UNCHANGED <<newest, received>>
    BY <1>1, <1>2, <1>3 DEF Get, LoopTypeOK
<1>5. newest[s] \in Nat /\ taken[s] \in Nat /\ received \in Nat
    BY DEF LoopTypeOK
<1>6. /\ newest[s] <= received /\ taken[s] <= newest[s]
      /\ \A i, j \in 1..Len(q) : i < j => q[i].nr < q[j].nr
      /\ \A i \in 1..Len(q) :
            /\ q[i].nr <= received
            /\ q[i].kind = "kline" => taken[s] < q[i].nr /\ q[i].nr <= newest[s]
      /\ newest[s] > taken[s] =>
            \E i \in 1..Len(q) : q[i].kind = "kline" /\ q[i].nr = newest[s]
    BY <1>1 DEF KlineInv, Ordered, Waits
<1>7. \A i \in 1..Len(q) : q[i].nr \in Nat
    <2>1. \A i \in 1..Len(q) : q[i] \in Event
        BY <1>1, ElementOfSeq
    <2> QED
        BY <2>1 DEF Event
<1>8. /\ taken'[s] <= newest[s] /\ taken[s] <= taken'[s] /\ taken'[s] \in Nat
      /\ taken'[s] = taken[s] \/ taken'[s] = q[1].nr
    BY <1>3, <1>4, <1>5, <1>6, <1>7
<1>9. ASSUME NEW i \in 1..Len(z), NEW j \in 1..Len(z), i < j
      PROVE  z[i].nr < z[j].nr
    <2>1. i + 1 < j + 1
        BY <1>9
    <2> QED
        BY <1>2, <1>6, <2>1
<1>10. ASSUME NEW i \in 1..Len(z)
       PROVE  /\ z[i].nr <= received
              /\ z[i].kind = "kline" => taken'[s] < z[i].nr /\ z[i].nr <= newest[s]
    <2>1. i + 1 \in 1..Len(q) /\ z[i] = q[i + 1] /\ 1 < i + 1
        BY <1>2
    <2>2. q[1].nr < q[i + 1].nr
        BY <1>3, <1>6, <2>1
    <2> QED
        BY <1>6, <1>8, <2>1, <2>2
<1>11. ASSUME newest[s] > taken'[s]
       PROVE  \E i \in 1..Len(z) : z[i].kind = "kline" /\ z[i].nr = newest[s]
    <2>1. PICK i \in 1..Len(q) : q[i].kind = "kline" /\ q[i].nr = newest[s]
        BY <1>5, <1>6, <1>8, <1>11
    <2>2. i # 1
        BY <1>4, <1>5, <1>11, <2>1
    <2>3. i - 1 \in 1..Len(z) /\ (i - 1) + 1 = i
        BY <1>1, <1>2, <2>2
    <2>4. z[i - 1] = q[i]
        BY <1>2, <2>3
    <2> QED
        BY <2>1, <2>3, <2>4
<1> QED
    BY <1>4, <1>5, <1>6, <1>8, <1>9, <1>10, <1>11 DEF Ordered, Waits

\* A strategy whose queue is left alone, when others receive or take events.
LEMMA OtherKlines ==
    ASSUME LoopTypeOK, NEW s \in Strategy, Ordered(s), Waits(s),
           received' \in Nat, received' >= received,
           queue'[s] = queue[s], newest'[s] = newest[s], taken'[s] = taken[s]
    PROVE  Ordered(s)' /\ Waits(s)' /\ taken'[s] >= taken[s]
<1>1. newest[s] \in Nat /\ taken[s] \in Nat /\ received \in Nat
    BY DEF LoopTypeOK
<1>2. \A i \in 1..Len(queue[s]) : queue[s][i].nr \in Nat
    <2>1. \A i \in 1..Len(queue[s]) : queue[s][i] \in Event
        BY ElementOfSeq DEF LoopTypeOK
    <2> QED
        BY <2>1 DEF Event
<1> QED
    BY <1>1, <1>2 DEF Ordered, Waits

LEMMA NextKlines ==
    ASSUME LoopTypeOK, KlineInv, [LoopNext]_loopVars
    PROVE  KlineInv' /\ \A s \in Strategy : taken'[s] >= taken[s]
<1> SUFFICES ASSUME NEW s \in Strategy
             PROVE  Ordered(s)' /\ Waits(s)' /\ taken'[s] >= taken[s]
    BY DEF KlineInv
<1>0. Ordered(s) /\ Waits(s) /\ received \in Nat /\ taken[s] \in Nat
    BY DEF KlineInv, LoopTypeOK
<1>1. CASE UNCHANGED loopVars
    BY <1>0, <1>1, OtherKlines DEF loopVars
<1>2. ASSUME NEW kind \in Kind, NEW S \in SUBSET Strategy, HandleMessage(kind, S)
      PROVE  Ordered(s)' /\ Waits(s)' /\ taken'[s] >= taken[s]
    <2>1. received' = received + 1 /\ taken' = taken
        BY <1>2 DEF HandleMessage
    <2>2. CASE s \in S
        BY <1>0, <1>2, <2>1, <2>2, EnqueueKlines
    <2>3. CASE s \notin S
        <3>1. queue'[s] = queue[s] /\ newest'[s] = newest[s]
            BY <1>2, <2>3 DEF HandleMessage
        <3> QED
            BY <1>0, <2>1, <3>1, OtherKlines
    <2> QED
        BY <2>2, <2>3
<1>3. ASSUME NEW t \in Strategy, Get(t)
      PROVE  Ordered(s)' /\ Waits(s)' /\ taken'[s] >= taken[s]
    <2>1. CASE t = s
        BY <1>3, <2>1, TakeKlines
    <2>2. CASE t # s
        <3>1. queue'[s] = queue[s] /\ UNCHANGED <<newest, received>> /\ taken'[s] = taken[s]
            BY <1>3, <2>2 DEF Get, LoopTypeOK
        <3> QED
            BY <1>0, <3>1, OtherKlines
    <2> QED
        BY <2>1, <2>2
<1>4. ASSUME NEW t \in Strategy, Admit(t) \/ AdmissionTimeout(t) \/ LeaveHandler(t)
      PROVE  Ordered(s)' /\ Waits(s)' /\ taken'[s] >= taken[s]
    <2>1. UNCHANGED <<queue, newest, taken, received>>
        BY <1>4 DEF Admit, AdmissionTimeout, LeaveHandler
    <2> QED
        BY <1>0, <2>1, OtherKlines
<1> QED
    BY <1>1, <1>2, <1>3, <1>4 DEF LoopNext

LEMMA KlinesInvariant == LoopSpec => []KlineInv
<1>1. LoopTypeOK /\ KlineInv /\ [LoopNext]_loopVars => KlineInv'
    BY NextKlines
<1> QED
    BY <1>1, InitKlines, LoopTypeCorrect, PTL DEF LoopSpec

\* However full a queue is and whatever else floods it, the newest kline of a
\* strategy stays in it until the loop takes it: a full queue refuses other events
\* and evicts its oldest for a kline (SharedPubSubManager.handle_message).
THEOREM NewestKlineWaits == LoopSpec => []NewestTriggerKept
<1>1. LoopTypeOK /\ KlineInv => NewestTriggerKept
    <2> SUFFICES ASSUME LoopTypeOK, KlineInv, NEW s \in Strategy, newest[s] > taken[s]
                 PROVE  \E i \in DOMAIN queue[s] :
                            queue[s][i].kind = "kline" /\ queue[s][i].nr = newest[s]
        BY DEF NewestTriggerKept
    <2>1. DOMAIN queue[s] = 1..Len(queue[s])
        BY LenProperties DEF LoopTypeOK
    <2> QED
        BY <2>1 DEF KlineInv, Waits
<1> QED
    BY <1>1, KlinesInvariant, LoopTypeCorrect, PTL

\* The loop of a strategy never goes back: evictions do not reorder its queue, and
\* what it takes after a kline is newer (SharedPubSubManager.handle_message,
\* run_strategy_event_loop).
THEOREM KlinesTakenInOrder ==
    LoopSpec => [][\A s \in Strategy : taken'[s] >= taken[s]]_loopVars
<1>1. LoopTypeOK /\ KlineInv /\ [LoopNext]_loopVars
          => [\A s \in Strategy : taken'[s] >= taken[s]]_loopVars
    BY NextKlines
<1> QED
    BY <1>1, KlinesInvariant, LoopTypeCorrect, PTL DEF LoopSpec
==============================================================================
