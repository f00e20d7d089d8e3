-------------------------- MODULE MCVirtualLedger --------------------------
(***************************************************************************)
(* Three small instances of VirtualLedger in one run; a behaviour belongs  *)
(* to one of them ("part"): two symbols and the faults that do not mislead *)
(* the runner ("book"), one symbol and every kind of fault ("faults"), one *)
(* symbol under fairness ("live").                                         *)
(***************************************************************************)
EXTENDS VirtualLedger

VARIABLE part

mcvars == <<part, vars>>

Every == INSTANCE VirtualLedger WITH Symbol <- {"x"}, Faults <- FaultKind

Live == INSTANCE VirtualLedger WITH
    Symbol <- {"x"}, READ_COUNT <- 1, MaxCandle <- 2,
    Faults <- {"restart", "exec", "connection"}

MCInit ==
    \/ part = "book" /\ Init
    \/ part = "faults" /\ Every!Init
    \/ part = "live" /\ Live!Init

MCNext ==
    /\ UNCHANGED part
    /\ \/ part = "book" /\ Next
       \/ part = "faults" /\ Every!Next
       \/ part = "live" /\ Live!Next

MCSpec == MCInit /\ [][MCNext]_mcvars /\ WF_mcvars(part = "live" /\ UNCHANGED part /\ Live!Consume)

-----------------------------------------------------------------------------
\* Every published event is applied in the end, however often the consumer loses
\* its connection or the worker restarts (VirtualLedger!EveryEventApplied).
PublishedIsApplied ==
    \A e \in Live!Event : (part = "live" /\ Live!Published(e)) ~> (e \in events)
=============================================================================
