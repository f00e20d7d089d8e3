---------------------------- MODULE RunnerFleet ----------------------------
(***************************************************************************)
(* A fleet of runners that share the alphas of one configuration through   *)
(* Redis leases: alphas/runner/lease.py, alpha_claim.py, periodic_claim.py,*)
(* config_sync.py, config_listener.py, signal/dispatcher.py and the life   *)
(* of a runner process in main.py.                                         *)
(*                                                                         *)
(* In one runner the coroutines (renewal, both claim tasks, strategies)    *)
(* interleave at their awaits; the claims themselves run in an executor    *)
(* thread, so every Redis call of a claim is a step of its own.  Leases    *)
(* run out at any time: a runner may be slower than its renewal interval.  *)
(***************************************************************************)
EXTENDS Integers, FiniteSetsExt

CONSTANTS
    Runner, Alpha, None,
    TfSet,       \* [Alpha -> timeframe set]: alphas are claimed in groups of one
    MaxAlphas,   \* max_alphas_per_runner
    MaxUpdates,  \* bound: configuration updates
    MaxFaults    \* bound: expired leases, failed calls, stops and crashes

ASSUME RunnerFleetAssumption ==
    /\ None \notin Runner \cup Alpha
    /\ MaxAlphas \in Nat
    /\ MaxUpdates \in Nat
    /\ MaxFaults \in Nat

Task == {"claim", "config"}   \* run_periodic_claim, run_config_listener

VARIABLES
    config,      \* the alphas with a key runner:alpha:config:{alpha}
    lease,       \* runner:alpha:lease:{alpha}: the runner, or None
    phase,       \* "down", "starting" (claim and warmup), "up"
    renewing,    \* runners whose renewal task is alive
    strategies,  \* runner -> alpha -> how many strategy objects run it
                 \* (the lists strategies and owned_leases)
    valid,       \* runner -> alphas whose ctx.state.lease_valid is set
    notice,      \* runners with an unread runner:config:updated
    task,        \* what the two claim tasks of each runner are doing
    sending,     \* runner -> the alpha whose signal passed the lease check
    late,        \* history: signals sent since the alpha's lease was lost
    updates, faults

redis == <<config, lease>>
process == <<phase, renewing, strategies, valid, notice, task, sending>>
vars == <<redis, process, late, updates, faults>>

\* owned: already_owned; ids: alphas to remove, to claim (rest) or to start;
\* group: alphas of the group at hand still to be set; acquired: those that are
Idle == [step |-> "idle", owned |-> 0, known |-> {}, ids |-> {}, group |-> {},
         acquired |-> {}, got |-> {}]

TaskState ==
    [step: {"idle", "remove", "claim", "got", "start"}, owned: Nat,
     known: SUBSET Alpha, ids: SUBSET Alpha, group: SUBSET Alpha,
     acquired: SUBSET Alpha, got: SUBSET Alpha]

TypeOK ==
    /\ config \subseteq Alpha
    /\ lease \in [Alpha -> Runner \cup {None}]
    /\ phase \in [Runner -> {"down", "starting", "up"}]
    /\ renewing \subseteq Runner
    /\ strategies \in [Runner -> [Alpha -> Nat]]
    /\ valid \in [Runner -> SUBSET Alpha]
    /\ notice \subseteq Runner
    /\ task \in [Runner -> [Task -> TaskState]]
    /\ sending \in [Runner -> Alpha \cup {None}]
    /\ late \in [Runner -> [Alpha -> Nat]]
    /\ updates \in 0..MaxUpdates
    /\ faults \in 0..MaxFaults

Init ==
    /\ config \in SUBSET Alpha
    /\ lease = [a \in Alpha |-> None]
    /\ phase = [r \in Runner |-> "down"]
    /\ renewing = {}
    /\ strategies = [r \in Runner |-> [a \in Alpha |-> 0]]
    /\ valid = [r \in Runner |-> {}]
    /\ notice = {}
    /\ task = [r \in Runner |-> [t \in Task |-> Idle]]
    /\ sending = [r \in Runner |-> None]
    /\ late = [r \in Runner |-> [a \in Alpha |-> 0]]
    /\ updates = 0
    /\ faults = 0

Owned(r) == {a \in Alpha : strategies[r][a] > 0}

\* len(owned_leases)
OwnedCount(r) == MapThenSumSet(LAMBDA a : strategies[r][a], Alpha)

Fault == faults < MaxFaults /\ faults' = faults + 1

NoFault == UNCHANGED faults

\* A coroutine of r may run: the process is up and not inside dispatch(), which
\* never awaits.
Runs(r) == phase[r] = "up" /\ sending[r] = None

\* The signals of r for alpha a count as late until r holds the lease again.
LeaseIs(newLease) ==
    /\ lease' = newLease
    /\ late' = [r \in Runner |-> [a \in Alpha |->
                  IF newLease[a] = r THEN 0 ELSE late[r][a]]]

-----------------------------------------------------------------------------
(* Redis *)

\* sync_config_to_redis: writes the enabled alphas, prunes the others, publishes.
SyncConfig(enabled) ==
    /\ updates < MaxUpdates
    /\ updates' = updates + 1
    /\ config' = enabled
    /\ notice' = notice \cup {r \in Runner : phase[r] = "up"}
    /\ UNCHANGED <<lease, phase, renewing, strategies, valid, task, sending,
                   late, faults>>

\* The TTL of a lease runs out.
Expire(a) ==
    /\ lease[a] # None
    /\ Fault
    /\ LeaseIs([lease EXCEPT ![a] = None])
    /\ UNCHANGED <<config, process, updates>>

-----------------------------------------------------------------------------
(* Claims: group_alphas_by_tf_set, claim_alpha_group, claim_alpha_groups *)

\* (mutant: what the runner already owns is not counted)
RemainingIgnoringOwned(owned) == MaxAlphas

\* max(0, max_alphas_per_runner - already_owned)
Remaining(owned) == IF owned >= MaxAlphas THEN 0 ELSE MaxAlphas - owned

\* The chunks of one timeframe set, the larger ones first (sets that tie come in
\* the order the keys were scanned: any).
Groups(ids) ==
    LET chunk(a) == {b \in ids : TfSet[b] = TfSet[a]}
        size(a) == IF Cardinality(chunk(a)) > MaxAlphas THEN MaxAlphas
                   ELSE Cardinality(chunk(a))
        first == {a \in ids : \A b \in ids : size(b) <= size(a)}
    IN  UNION {kSubset(size(a), chunk(a)) : a \in first}

\* The next group, cut to the slots that are left.
NextGroup(r, t) ==
    LET k == task[r][t]
        slots == Remaining(k.owned) - Cardinality(k.got)
    IN  /\ k.step = "claim" /\ k.group = {} /\ k.acquired = {}
        /\ IF slots <= 0 \/ k.ids = {}
           THEN task' = [task EXCEPT ![r][t] =
                   IF phase[r] = "down" THEN Idle ELSE [k EXCEPT !.step = "got"]]
           ELSE \E g \in Groups(k.ids) :
                \E cut \in IF Cardinality(g) > slots THEN kSubset(slots, g) ELSE {g} :
                   task' = [task EXCEPT ![r][t].ids = @ \ g, ![r][t].group = cut]
        /\ UNCHANGED <<redis, phase, renewing, strategies, valid, notice,
                       sending, late, updates, faults>>

\* SET NX EX, or EXPIRE of a lease that is ours; another owner rolls the whole
\* group back, leases the runner held before included.
ClaimOne(r, t, a) ==
    LET k == task[r][t]
        mine == {b \in k.acquired : lease[b] = r}
        all == k.acquired \cup {a}
    IN  /\ k.step = "claim" /\ a \in k.group
        /\ \/ /\ lease[a] \in {None, r}
              /\ LeaseIs([lease EXCEPT ![a] = r])
              /\ task' = [task EXCEPT ![r][t] =
                    IF k.group = {a}
                    THEN [k EXCEPT !.group = {}, !.acquired = {}, !.got = @ \cup all]
                    ELSE [k EXCEPT !.group = @ \ {a}, !.acquired = all]]
           \/ /\ lease[a] \notin {None, r}
              /\ LeaseIs([b \in Alpha |-> IF b \in mine THEN None ELSE lease[b]])
              /\ task' = [task EXCEPT ![r][t].group = {}, ![r][t].acquired = {}]
        /\ UNCHANGED <<config, phase, renewing, strategies, valid, notice,
                       sending, updates, faults>>

ClaimFrom(k, owned, ids) ==
    [Idle EXCEPT !.step = "claim", !.owned = owned, !.ids = ids, !.known = k]

-----------------------------------------------------------------------------
(* main.run *)

\* Reads the configuration (the YAML file when Redis has none) and claims.
Boot(r) ==
    /\ phase[r] = "down"
    /\ \A t \in Task : task[r][t] = Idle
    /\ phase' = [phase EXCEPT ![r] = "starting"]
    /\ task' = [task EXCEPT ![r]["claim"] =
                  ClaimFrom({}, 0, IF config = {} THEN Alpha ELSE config)]
    /\ UNCHANGED <<redis, renewing, strategies, valid, notice, sending, late,
                   updates, faults>>

\* One strategy for each claimed alpha whose lease is still ours; warmup and
\* restore follow, and only then the renewal.
Instantiate(r) ==
    LET k == task[r]["claim"]
        started == {a \in k.got : lease[a] = r}
    IN  /\ phase[r] = "starting" /\ k.step = "got"
        /\ strategies' = [strategies EXCEPT ![r] =
              [a \in Alpha |-> IF a \in started THEN 1 ELSE 0]]
        /\ valid' = [valid EXCEPT ![r] = started]
        /\ task' = [task EXCEPT ![r]["claim"] = Idle]
        /\ renewing' = renewing \cup {r}
        /\ UNCHANGED <<redis, phase, notice, sending, late, updates, faults>>

\* The tasks start: strategies, claim and configuration listener.
Serve(r) ==
    /\ phase[r] = "starting" /\ r \in renewing
    /\ phase' = [phase EXCEPT ![r] = "up"]
    /\ UNCHANGED <<redis, renewing, strategies, valid, notice, task, sending,
                   late, updates, faults>>

\* The executor finishes a claim it has begun, whatever becomes of the tasks.
Dead(r) ==
    /\ phase' = [phase EXCEPT ![r] = "down"]
    /\ renewing' = renewing \ {r}
    /\ strategies' = [strategies EXCEPT ![r] = [a \in Alpha |-> 0]]
    /\ valid' = [valid EXCEPT ![r] = {}]
    /\ notice' = notice \ {r}
    /\ sending' = [sending EXCEPT ![r] = None]

\* SIGTERM: the owned leases are released.
Shutdown(r) ==
    /\ Runs(r)
    /\ Fault
    /\ Dead(r)
    /\ LeaseIs([a \in Alpha |->
          IF a \in Owned(r) /\ lease[a] = r THEN None ELSE lease[a]])
    /\ task' = [task EXCEPT ![r] = [t \in Task |->
                  IF @[t].step = "claim" THEN @[t] ELSE Idle]]
    /\ UNCHANGED <<config, updates>>

Crash(r) ==
    /\ phase[r] # "down"
    /\ Fault
    /\ Dead(r)
    /\ task' = [task EXCEPT ![r] = [t \in Task |-> Idle]]
    /\ UNCHANGED <<redis, late, updates>>

\* (mutant: a lost lease is not acquired again)
RenewHeldOnly(r) == {a \in Owned(r) : lease[a] = r}

\* renew_strategy_leases: is_valid then renew, or acquire.  Calls may fail; when
\* none succeeds the task ends for good.
RenewOk(r) == {a \in Owned(r) : lease[a] \in {r, None}}

Renew(r) ==
    /\ r \in renewing /\ sending[r] = None
    /\ \E failed \in SUBSET Owned(r) :
          LET ok == RenewOk(r) \ failed
          IN  /\ IF failed = {} THEN NoFault ELSE Fault
              /\ LeaseIs([a \in Alpha |-> IF a \in ok THEN r ELSE lease[a]])
              /\ valid' = [valid EXCEPT ![r] = ok]
              /\ renewing' = IF Owned(r) # {} /\ ok = {} THEN renewing \ {r}
                             ELSE renewing
    /\ UNCHANGED <<config, phase, strategies, notice, task, sending, updates>>

\* run_periodic_claim: owned_leases is read first, the leases in the executor.
PeriodicClaim(r) ==
    LET unclaimed == {a \in config : lease[a] = None}
    IN  /\ Runs(r) /\ task[r]["claim"] = Idle
        /\ unclaimed # {}
        /\ task' = [task EXCEPT ![r]["claim"] =
                      ClaimFrom({}, OwnedCount(r), unclaimed)]
        /\ UNCHANGED <<redis, phase, renewing, strategies, valid, notice,
                       sending, late, updates, faults>>

\* run_config_listener reads a notice: find_newly_disabled.
Notice(r) ==
    /\ Runs(r) /\ r \in notice /\ task[r]["config"] = Idle
    /\ notice' = notice \ {r}
    /\ task' = [task EXCEPT ![r]["config"] =
                  [Idle EXCEPT !.step = "remove", !.known = Owned(r),
                               !.owned = OwnedCount(r),
                               !.ids = Owned(r) \ config]]
    /\ UNCHANGED <<redis, phase, renewing, strategies, valid, sending, late,
                   updates, faults>>

\* _on_disabled, one alpha; then it awaits the unsubscription.
Disable(r, a) ==
    /\ Runs(r) /\ task[r]["config"].step = "remove"
    /\ a \in task[r]["config"].ids
    /\ LeaseIs([lease EXCEPT ![a] = IF @ = r THEN None ELSE @])
    /\ strategies' = [strategies EXCEPT ![r][a] = IF @ > 0 THEN @ - 1 ELSE 0]
    /\ valid' = [valid EXCEPT ![r] = IF strategies[r][a] > 1 THEN @ ELSE @ \ {a}]
    /\ task' = [task EXCEPT ![r]["config"].ids = @ \ {a}]
    /\ UNCHANGED <<config, phase, renewing, notice, sending, updates, faults>>

\* find_newly_enabled, with the alphas owned when the notice was read.
FindEnabled(r) ==
    LET k == task[r]["config"]
        enabled == {a \in config \ k.known : lease[a] = None}
    IN  /\ Runs(r) /\ k.step = "remove" /\ k.ids = {}
        /\ task' = [task EXCEPT ![r]["config"] =
              IF enabled = {} THEN Idle ELSE ClaimFrom(k.known, k.owned, enabled)]
        /\ UNCHANGED <<redis, phase, renewing, strategies, valid, notice,
                       sending, late, updates, faults>>

\* _on_new_alphas: the filter and the first strategy are one step, each further
\* strategy follows an await of its predecessor's subscription.
StartNew(r, t) ==
    LET k == task[r][t]
        new == IF k.step = "got" THEN k.got \ Owned(r) ELSE k.ids
    IN  /\ Runs(r) /\ k.step \in {"got", "start"}
        /\ \/ /\ new = {}
              /\ task' = [task EXCEPT ![r][t] = Idle]
              /\ UNCHANGED <<strategies, valid>>
           \/ \E a \in new :
                 /\ strategies' = [strategies EXCEPT ![r][a] = @ + 1]
                 /\ valid' = [valid EXCEPT ![r] = @ \cup {a}]
                 /\ task' = [task EXCEPT ![r][t] =
                       IF new = {a} THEN Idle
                       ELSE [Idle EXCEPT !.step = "start", !.ids = new \ {a}]]
        /\ UNCHANGED <<redis, phase, renewing, notice, sending, late, updates,
                       faults>>

\* A call of a claim task raises: it is logged and what was left is forgotten.
TaskFails(r, t) ==
    /\ Runs(r) /\ task[r][t] # Idle
    /\ Fault
    /\ task' = [task EXCEPT ![r][t] = Idle]
    /\ UNCHANGED <<redis, phase, renewing, strategies, valid, notice, sending,
                   late, updates>>

-----------------------------------------------------------------------------
(* SignalDispatcher.dispatch *)

\* (mutant: the flag of the last renewal is trusted instead)
MaySendOnFlag(r, a) == a \in valid[r]

\* is_valid: GET of the lease
MaySend(r, a) == lease[a] = r

CheckLease(r, a) ==
    /\ Runs(r) /\ a \in Owned(r)
    /\ \/ /\ MaySend(r, a)
          /\ sending' = [sending EXCEPT ![r] = a]
          /\ UNCHANGED valid
       \/ /\ ~MaySend(r, a)
          /\ valid' = [valid EXCEPT ![r] = @ \ {a}]
          /\ UNCHANGED sending
    /\ UNCHANGED <<redis, phase, renewing, strategies, notice, task, late,
                   updates, faults>>

\* XADD
Send(r) ==
    LET a == sending[r]
    IN  /\ a # None
        /\ late' = [late EXCEPT ![r][a] = IF lease[a] = r THEN 0 ELSE @ + 1]
        /\ sending' = [sending EXCEPT ![r] = None]
        /\ UNCHANGED <<redis, phase, renewing, strategies, valid, notice, task,
                       updates, faults>>

-----------------------------------------------------------------------------

ClaimStep(r) ==
    \E t \in Task : NextGroup(r, t) \/ StartNew(r, t) \/ \E a \in Alpha : ClaimOne(r, t, a)

Next ==
    \/ \E enabled \in SUBSET Alpha : SyncConfig(enabled)
    \/ \E a \in Alpha : Expire(a)
    \/ \E r \in Runner :
          \/ Boot(r) \/ Instantiate(r) \/ Serve(r) \/ Shutdown(r) \/ Crash(r)
          \/ Renew(r) \/ PeriodicClaim(r) \/ Notice(r) \/ FindEnabled(r)
          \/ ClaimStep(r) \/ Send(r)
          \/ \E a \in Alpha : Disable(r, a) \/ CheckLease(r, a)
          \/ \E t \in Task : TaskFails(r, t)

\* The event loop and the executor of r keep running: every task that can go on does.
RunnerFairness(r) ==
    /\ SF_vars(Renew(r))
    /\ WF_vars(Instantiate(r)) /\ WF_vars(Serve(r))
    /\ SF_vars(PeriodicClaim(r))
    /\ SF_vars(ClaimStep(r))
    /\ WF_vars(Send(r))

Fairness == \A r \in Runner : RunnerFairness(r)

Spec == Init /\ [][Next]_vars /\ Fairness

-----------------------------------------------------------------------------
(* Properties *)

\* The two claim tasks count what the runner owns before they claim, so together
\* they may pass max_alphas_per_runner; they never pass it twice over
\* (claim_alpha_groups' remaining, run_periodic_claim, run_config_listener).
CapacityAtMostDoubled == \A r \in Runner : OwnedCount(r) <= 2 * MaxAlphas

\* GET and XADD are two calls.  A runner that lost the lease of an alpha in
\* between sends that one signal and no other until it holds the lease again
\* (SignalDispatcher.dispatch).
OneLateSignal == \A r \in Runner, a \in Alpha : late[r][a] <= 1

\* As long as the renewal task of a runner lives, a lease that it lost is its own
\* again, or another runner's, or the strategy is gone
\* (renew_strategy_leases acquires what is not valid).
LeaseComesBack ==
    \A r \in Runner, a \in Alpha :
        (a \in Owned(r) /\ lease[a] = None) ~>
            (lease[a] # None \/ a \notin Owned(r) \/ r \notin renewing)

\* An alpha that stays enabled is leased again and again, if some runner stays up
\* with room for it (run_periodic_claim, claim_alpha_group's roll back).
EnabledIsLeased ==
    \A a \in Alpha :
        (\E r \in Runner : <>[](a \in config /\ phase[r] = "up" /\ r \in renewing
                                 /\ OwnedCount(r) < MaxAlphas))
            => []<>(lease[a] # None)

=============================================================================
