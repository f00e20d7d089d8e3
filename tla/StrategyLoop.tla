---------------------------- MODULE StrategyLoop ----------------------------
(***************************************************************************)
(* How market events reach the strategies of one runner: the bounded queue *)
(* of each strategy (SharedPubSubManager.handle_message in                 *)
(* runner/data_layer/pubsub.py) and its event loop behind the semaphore    *)
(* they share (run_strategy_event_loop and handle_strategy_event in        *)
(* runner/main.py).  A handler may succeed, raise or never come back.      *)
(***************************************************************************)
EXTENDS Integers, SequencesExt

CONSTANTS
    Strategy,
    Sectional,    \* strategies with a spec (cross_sectional): their klines are
                  \* all of spec.timeframe; the others have no spec
    NoEvent,      \* no event at hand
    QueueSize,    \* data_queue_maxsize (0 would be no bound at all)
    Permits,      \* of the scan semaphore: max(1, compute_workers)
    MaxEvents     \* bound: events received

Kind == {"kline", "price_alert", "symbols"}

VARIABLES
    queue,     \* strategy -> kinds of the events waiting, with their numbers
    pc,        \* strategy -> "get", "admit", "handle"
    event,     \* strategy -> the event at hand
    admitted,  \* strategies that hold a permit of the semaphore
    free,      \* permits left
    newest,    \* strategy -> number of the newest kline received
    taken,     \* strategy -> number of the newest kline taken from the queue
    received   \* events received so far

loopVars == <<queue, pc, event, admitted, free, newest, taken, received>>

Event == [kind: Kind, nr: 1..MaxEvents]

ASSUME StrategyLoopAssumption ==
    /\ IsFiniteSet(Strategy)
    /\ Sectional \subseteq Strategy
    /\ QueueSize \in Nat \ {0}
    /\ Permits \in Nat \ {0}
    /\ MaxEvents \in Nat
    /\ NoEvent \notin Event

LoopTypeOK ==
    /\ queue \in [Strategy -> Seq(Event)]
    /\ \A s \in Strategy : Len(queue[s]) <= QueueSize
    /\ pc \in [Strategy -> {"get", "admit", "handle"}]
    /\ event \in [Strategy -> Event \cup {NoEvent}]
    /\ admitted \subseteq Strategy
    /\ free \in Int
    /\ newest \in [Strategy -> 0..MaxEvents]
    /\ taken \in [Strategy -> 0..MaxEvents]
    /\ received \in 0..MaxEvents

LoopInit ==
    /\ queue = [s \in Strategy |-> <<>>]
    /\ pc = [s \in Strategy |-> "get"]
    /\ event = [s \in Strategy |-> NoEvent]
    /\ admitted = {}
    /\ free = Permits
    /\ newest = [s \in Strategy |-> 0]
    /\ taken = [s \in Strategy |-> 0]
    /\ received = 0

-----------------------------------------------------------------------------
(* SharedPubSubManager.handle_message *)

\* (mutant: a full queue drops klines as well)
EnqueuedOrDropped(q, e) == IF Len(q) < QueueSize THEN Append(q, e) ELSE q

\* On a full queue a kline evicts the oldest event, anything else is dropped.
Enqueued(q, e) ==
    IF Len(q) < QueueSize THEN Append(q, e)
    ELSE IF e.kind = "kline" THEN Append(Tail(q), e)
    ELSE q

\* One message for the subscribers S of its channel.
HandleMessage(kind, S) ==
    LET e == [kind |-> kind, nr |-> received + 1]
    IN  /\ received < MaxEvents
        /\ received' = received + 1
        /\ queue' = [s \in Strategy |->
              IF s \in S THEN Enqueued(queue[s], e) ELSE queue[s]]
        /\ newest' = [s \in Strategy |->
              IF s \in S /\ kind = "kline" THEN received + 1 ELSE newest[s]]
        /\ UNCHANGED <<pc, event, admitted, free, taken>>

-----------------------------------------------------------------------------
(* run_strategy_event_loop *)

Get(s) ==
    /\ pc[s] = "get" /\ queue[s] # <<>>
    /\ event' = [event EXCEPT ![s] = Head(queue[s])]
    /\ queue' = [queue EXCEPT ![s] = Tail(@)]
    /\ taken' = [taken EXCEPT ![s] =
          IF Head(queue[s]).kind = "kline" THEN Head(queue[s]).nr ELSE @]
    /\ pc' = [pc EXCEPT ![s] = "admit"]
    /\ UNCHANGED <<admitted, free, newest, received>>

\* (mutant: no event is critical)
NothingIsCritical(s) == FALSE

\* A kline of the strategy's own timeframe, which only a strategy with a spec has.
CriticalEvent(s) == event[s].kind = "kline" /\ s \in Sectional

\* semaphore.acquire
Admit(s) ==
    /\ pc[s] = "admit" /\ free > 0
    /\ free' = free - 1
    /\ admitted' = admitted \cup {s}
    /\ pc' = [pc EXCEPT ![s] = "handle"]
    /\ UNCHANGED <<queue, event, newest, taken, received>>

\* The wait for a permit times out: a critical event goes on without one, any
\* other is abandoned.
AdmissionTimeout(s) ==
    /\ pc[s] = "admit" /\ free <= 0
    /\ IF CriticalEvent(s)
       THEN /\ pc' = [pc EXCEPT ![s] = "handle"]
            /\ UNCHANGED event
       ELSE /\ pc' = [pc EXCEPT ![s] = "get"]
            /\ event' = [event EXCEPT ![s] = NoEvent]
    /\ UNCHANGED <<queue, admitted, free, newest, taken, received>>

\* the finally around the handler: the permit of this event, if it took one
Released(s) == IF s \in admitted THEN 1 ELSE 0

\* handle_strategy_event is over: done, raised or timed out; the loop goes on.
LeaveHandler(s) ==
    /\ pc[s] = "handle"
    /\ free' = free + Released(s)
    /\ admitted' = admitted \ {s}
    /\ event' = [event EXCEPT ![s] = NoEvent]
    /\ pc' = [pc EXCEPT ![s] = "get"]
    /\ UNCHANGED <<queue, newest, taken, received>>

LoopNext ==
    \/ \E kind \in Kind : \E S \in SUBSET Strategy \ {{}} :
          HandleMessage(kind, S)
    \/ \E s \in Strategy :
          Get(s) \/ Admit(s) \/ AdmissionTimeout(s) \/ LeaveHandler(s)

\* The event loop runs and the timer of the admission fires; a handler may stay.
LoopFairness ==
    \A s \in Strategy : WF_loopVars(Get(s)) /\ WF_loopVars(Admit(s) \/ AdmissionTimeout(s))

LoopSpec == LoopInit /\ [][LoopNext]_loopVars /\ LoopFairness

-----------------------------------------------------------------------------
(* Properties *)

\* However full the queue and whatever else floods it, the newest kline of a
\* strategy waits in it until the loop takes it (handle_message's eviction).
NewestTriggerKept ==
    \A s \in Strategy :
        newest[s] > taken[s] =>
            \E i \in DOMAIN queue[s] : queue[s][i].kind = "kline" /\ queue[s][i].nr = newest[s]

\* No permit of the scan semaphore is lost or made up, over timeouts, errors and
\* events that went on without admission (the nested finally blocks).
PermitsConserved == free >= 0 /\ free + Cardinality(admitted) = Permits

\* A critical kline that was taken reaches the handler, even if no permit ever
\* comes back ("must never be abandoned just because the admission semaphore is
\* saturated", main.py).
CriticalIsHandled ==
    \A s \in Sectional :
        (pc[s] = "admit" /\ event[s].kind = "kline") ~> (pc[s] = "handle")

=============================================================================
