------------------------------ MODULE MCRunner ------------------------------
(***************************************************************************)
(* The control side: the parts of a runner, and the worker's tasks around  *)
(* its database connection, in one run.  The components share no state, so *)
(* a behaviour chooses one of them ("part") and only that one moves; the   *)
(* others rest in a state where nothing of theirs is enabled with fairness.*)
(*                                                                         *)
(* RunnerFleet, StrategyLoop and SignalDispatcher are extended, with the   *)
(* constants of the configuration; the others, and a fleet of other        *)
(* constants, are instances.                                               *)
(***************************************************************************)
EXTENDS RunnerFleet, StrategyLoop, SignalDispatcher

CONSTANTS
    Parts,     \* the components a run looks at
    r1, r2, a1, a2, a3, x1, x2

\* no alpha differs from another in its timeframes
OneTfSet == [a \in {a1, a2, a3} |-> 1]

VARIABLES
    part,
    running, held, subscribed, wired, registered, changes,  \* PriceAlerts
    disk, view, inTx, consumer, price, repair, snapshot, signals, failures  \* WorkerTasks

\* The fleet of the configuration: two runners that may each own both alphas.  In
\* "pair" they compete, in "roomy" only r1 ever starts and the configuration
\* changes, in "solo" r1 finds more alphas than it may own.
Solo == INSTANCE RunnerFleet WITH Alpha <- {a1, a2, a3}, MaxAlphas <- 1

FleetParts == {"solo", "roomy", "pair"}

OnlyFirst == phase'[r2] = "down"

FleetInit ==
    CASE part = "solo" -> Solo!Init
      [] part \in {"roomy", "pair"} -> Init
      [] OTHER -> Init /\ config = {}

FleetNext ==
    \/ part = "solo" /\ Solo!Next /\ OnlyFirst
    \/ part = "roomy" /\ Next /\ OnlyFirst
    \/ part = "pair" /\ Next /\ updates' = updates

Alerts == INSTANCE PriceAlerts WITH
    Alpha <- {a1}, Symbol <- {x1, x2}, MaxChanges <- 3

\* One alpha registered at start, one by its first OPEN.
OwnerOf == [p \in {x1, x2} |-> IF p = x1 THEN a1 ELSE a2]
Tasks == INSTANCE WorkerTasks WITH
    Position <- {x1, x2}, AlphaOf <- OwnerOf, Registered <- {a1},
    MaxSignals <- 2, MaxFaults <- 1, faults <- failures

alerts == <<running, held, subscribed, wired, registered, changes>>
tasks == <<disk, view, inTx, consumer, price, repair, snapshot, signals, failures>>
mcvars == <<part, vars, loopVars, dispatchVars, alerts, tasks>>

ASSUME PartsAssumption ==
    Parts \subseteq FleetParts \cup {"dispatcher", "loop", "alerts", "tasks"}

MCInit ==
    /\ part \in Parts
    /\ FleetInit
    /\ LoopInit
    /\ DispatchInit
    /\ \/ part = "alerts" /\ Alerts!Init
       \/ /\ part # "alerts" /\ running = {} /\ changes = 0
          /\ held = [a \in {a1} |-> {}] /\ subscribed = held
          /\ wired = held /\ registered = held
    /\ \/ part = "tasks" /\ Tasks!Init
       \/ /\ part # "tasks" /\ disk = [alphas |-> {}, open |-> {}, full |-> {}]
          /\ view = disk /\ inTx = FALSE
          /\ consumer = Tasks!Idle /\ price = Tasks!Idle /\ repair = Tasks!Idle
          /\ snapshot = [a \in {a1, a2} |-> {}] /\ signals = 0 /\ failures = 0

MCNext ==
    /\ UNCHANGED part
    /\ \/ FleetNext /\ UNCHANGED <<loopVars, dispatchVars, alerts, tasks>>
       \/ part = "loop" /\ LoopNext /\ UNCHANGED <<vars, dispatchVars, alerts, tasks>>
       \/ part = "dispatcher" /\ DispatchNext /\ UNCHANGED <<vars, loopVars, alerts, tasks>>
       \/ part = "alerts" /\ Alerts!Next /\ UNCHANGED <<vars, loopVars, dispatchVars, tasks>>
       \/ part = "tasks" /\ Tasks!Next /\ UNCHANGED <<vars, loopVars, dispatchVars, alerts>>

MCSpec == MCInit /\ [][MCNext]_mcvars

FairSpec ==
    /\ MCSpec
    /\ RunnerFairness(r1) /\ LoopFairness /\ Alerts!Fairness /\ Tasks!Fairness

-----------------------------------------------------------------------------

\* Every part keeps its types; the two claim tasks of a runner never double its capacity;
\* the semaphore of the event loop gets back every permit it gave.
ResourcesBounded ==
    /\ part = "solo" => Solo!TypeOK /\ Solo!CapacityAtMostDoubled
    /\ part # "solo" => TypeOK /\ CapacityAtMostDoubled
    /\ DispatchTypeOK /\ LoopTypeOK /\ PermitsConserved /\ Alerts!TypeOK
    /\ part = "tasks" => Tasks!TypeOK

\* RunnerFleet, of the runner that starts: the renewal acquires a lost lease again, and
\* what is enabled is leased while it has room.
First == INSTANCE RunnerFleet WITH Runner <- {r1}
LeasesReturn == part = "roomy" => First!LeaseComesBack /\ First!EnabledIsLeased

\* PriceAlerts: what a strategy holds is registered again and again.
HeldIsRegistered == part = "alerts" => Alerts!HeldIsRegistered

\* WorkerTasks: the snapshot of a known alpha becomes what is committed.
SnapshotSettles == part = "tasks" => Tasks!SnapshotSettles

=============================================================================
