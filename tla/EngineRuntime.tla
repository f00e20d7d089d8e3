---------------------------- MODULE EngineRuntime ----------------------------
(***************************************************************************)
(* The runtime states of a standalone alpha (BaseEngine, alphas/base/      *)
(* engine.py): warm-up, startup reconcile, the Pub/Sub listener with its   *)
(* reconnects, and the loops that mark the data, the position snapshot and *)
(* the price-alert registration stale and fresh again.  Data is reduced to *)
(* its age: a message is recent or old.                                    *)
(***************************************************************************)
EXTENDS Integers, FiniteSets

CONSTANTS
    MaxRuntimeFaults  \* bound: Redis errors, silences, failed warm-ups and reconciles

ASSUME EngineRuntimeAssumption == MaxRuntimeFaults \in Nat

VARIABLES
    phase,       \* where run() is: "warmup", "reconcile" or "running"
    state,       \* runtime_state
    stale,       \* the flags _data_stale, _position_reconcile_stale and
                 \* _price_alert_sync_stale that are set
    link,        \* the listener: "down", "connected" (rewarming) or "listening"
    connects,    \* connect_count, 2 for more than one
    gap,         \* age of last_redis_message_at: "never", "recent" or "old"
    cached,      \* enough symbols have candles (is_symbol_data_ready)
    reconciled,  \* history: reconcile_positions has accepted a snapshot
    noticed,     \* history: the monitor saw an old gap and no message came since
    faults

runtimeVars == <<phase, state, stale, link, connects, gap, cached,
                 reconciled, noticed, faults>>

Flags == {"data", "reconcile", "sync"}
States == {"STARTING", "WARMING_UP", "LIVE", "STALE", "RECOVERING"}

RuntimeInit ==
    /\ phase = "warmup" /\ state = "STARTING" /\ stale = {}
    /\ link = "down" /\ connects = 0 /\ gap = "never"
    /\ cached = FALSE
    /\ reconciled = FALSE /\ noticed = FALSE /\ faults = 0

Fault == faults < MaxRuntimeFaults /\ faults' = faults + 1

can_open_new_trades == state = "LIVE" /\ stale = {}

\* _request_warmup: snapshots first, then the stream until a deadline; the answer
\* is whether enough symbols have candles, the ones of earlier rounds included.
RequestWarmup(ok) ==
    \/ ok /\ cached' = TRUE /\ UNCHANGED faults
    \/ ~ ok /\ ~ cached /\ Fault /\ UNCHANGED cached

\* run(): the first warm-up; it may also raise, candles loaded or not.
Warmup ==
    /\ phase = "warmup"
    /\ \/ \E ok \in BOOLEAN :
             /\ RequestWarmup(ok)
             /\ stale' = IF ok THEN stale \ {"data"} ELSE stale \cup {"data"}
             /\ state' = IF ok THEN "LIVE" ELSE "STALE"
       \/ /\ Fault /\ cached' \in {cached, TRUE}
          /\ stale' = stale \cup {"data"} /\ state' = "STALE"
    /\ phase' = "reconcile"
    /\ UNCHANGED <<link, connects, gap, reconciled, noticed>>

\* What a call of reconcile_positions may do: accept a recent snapshot (or a
\* missing one, when nothing is held), accept an old one but suspend entries,
\* clear the positions whatever the age of an empty snapshot, or fail.
Accepts ==
    /\ stale' = stale \ {"reconcile"} /\ reconciled' = TRUE
AcceptsOld ==
    /\ stale' = stale \cup {"reconcile"} /\ reconciled' = TRUE

\* (mutant: a failed startup reconcile is left to the loop)
StartupUnflagged == stale
StartupFailed == stale \cup {"reconcile"}

\* _startup_reconcile retries until it succeeds or its time is up.
StartupReconcile ==
    /\ phase = "reconcile"
    /\ \/ Accepts /\ UNCHANGED <<faults, state>>
       \/ AcceptsOld /\ Fault /\ UNCHANGED state
       \/ /\ Fault /\ stale' = StartupFailed /\ state' = "STALE" /\ UNCHANGED reconciled
    /\ phase' = "running"
    /\ UNCHANGED <<link, connects, gap, cached, noticed>>

\* _position_reconcile_loop: it moves a flag and never the state.
ReconcileTick ==
    /\ phase = "running"
    /\ \/ Accepts /\ UNCHANGED faults
       \/ AcceptsOld /\ Fault
       \/ Fault /\ stale' = stale \cup {"reconcile"} /\ UNCHANGED reconciled
    /\ UNCHANGED <<phase, state, link, connects, gap, cached, noticed>>

\* _price_alert_sync_loop: likewise.
SyncTick ==
    /\ phase = "running"
    /\ \/ stale' = stale \ {"sync"} /\ UNCHANGED faults
       \/ stale' = stale \cup {"sync"} /\ Fault
    /\ UNCHANGED <<phase, state, link, connects, gap, cached, reconciled, noticed>>

\* _listen connects and subscribes; the first connection starts to read at once,
\* a later one rewarms first.
Connect ==
    /\ phase = "running" /\ link = "down"
    /\ connects' = IF connects < 2 THEN connects + 1 ELSE connects
    /\ IF connects = 0 THEN link' = "listening" /\ UNCHANGED state
       ELSE link' = "connected" /\ state' = "RECOVERING"
    /\ UNCHANGED <<phase, stale, gap, cached, reconciled, noticed, faults>>

\* _should_skip_reconnect_warmup: fresh candles, and not a long silence.
ShouldSkipReconnectWarmup == cached /\ gap # "old"

\* A good rewarm-up leaves the flags as they are; only a message clears them.
RewarmFlags(ok) == IF ok THEN stale ELSE stale \cup {"data"}

Rewarm ==
    /\ link = "connected"
    /\ \/ \E ok \in BOOLEAN :
             /\ \/ ShouldSkipReconnectWarmup /\ ok /\ UNCHANGED <<cached, faults>>
                \/ RequestWarmup(ok)
             /\ stale' = RewarmFlags(ok)
       \/ Fault /\ stale' = stale \cup {"data"} /\ UNCHANGED cached
    /\ state' = IF stale' = {} THEN "LIVE" ELSE "STALE"
    /\ link' = "listening"
    /\ UNCHANGED <<phase, connects, gap, reconciled, noticed>>

\* (mutant: the flag waits until nothing else is stale)
RecoverTogether == IF stale \subseteq {"data"} THEN stale \ {"data"} ELSE stale

\* _check_data_stale_recovery, of a recent gap: it clears the data flag whatever
\* the others say, and the state only leaves STALE when it was the last one.
CheckDataStaleRecovery == stale \ {"data"}

RecoveredState ==
    IF "data" \in stale /\ state = "STALE" /\ CheckDataStaleRecovery = {} THEN "LIVE" ELSE state

\* A message of any channel: klines fill the cache.
Message ==
    /\ link = "listening"
    /\ gap' = "recent" /\ noticed' = FALSE
    /\ stale' = CheckDataStaleRecovery /\ state' = RecoveredState
    /\ cached' \in {cached, TRUE}
    /\ UNCHANGED <<phase, link, connects, reconciled, faults>>

\* No message for longer than _stale_threshold_seconds.
Silence ==
    /\ gap = "recent" /\ gap' = "old" /\ Fault
    /\ UNCHANGED <<phase, state, stale, link, connects, cached, reconciled, noticed>>

\* _stale_monitor_loop, of external MDS mode.
StaleMonitor ==
    /\ phase = "running" /\ gap # "never"
    /\ IF gap = "old"
       THEN /\ state = "LIVE" \/ "data" \notin stale
            /\ stale' = stale \cup {"data"} /\ state' = "STALE" /\ noticed' = TRUE
       ELSE stale' = CheckDataStaleRecovery /\ state' = RecoveredState /\ UNCHANGED noticed
    /\ UNCHANGED <<phase, link, connects, gap, cached, reconciled, faults>>

\* The listener loses Redis (STALE at once) or fails otherwise (state kept).
ListenerFails ==
    /\ link # "down" /\ link' = "down" /\ Fault
    /\ state' \in {"STALE", state}
    /\ UNCHANGED <<phase, stale, connects, gap, cached, reconciled, noticed>>

RuntimeNext ==
    \/ Warmup \/ StartupReconcile \/ ReconcileTick \/ SyncTick
    \/ Connect \/ Rewarm \/ Message \/ Silence \/ StaleMonitor \/ ListenerFails

\* Every loop goes on and the market sends messages to whoever listens.
RuntimeFairness ==
    /\ WF_runtimeVars(Warmup) /\ WF_runtimeVars(StartupReconcile) /\ WF_runtimeVars(ReconcileTick)
    /\ WF_runtimeVars(SyncTick) /\ WF_runtimeVars(Connect) /\ WF_runtimeVars(Rewarm) /\ WF_runtimeVars(Message)

RuntimeSpec == RuntimeInit /\ [][RuntimeNext]_runtimeVars /\ RuntimeFairness
-----------------------------------------------------------------------------
RuntimeTypeOK ==
    /\ phase \in {"warmup", "reconcile", "running"} /\ state \in States
    /\ stale \subseteq Flags /\ link \in {"down", "connected", "listening"}
    /\ connects \in 0..2 /\ gap \in {"never", "recent", "old"}
    /\ cached \in BOOLEAN /\ reconciled \in BOOLEAN /\ noticed \in BOOLEAN
    /\ faults \in 0..MaxRuntimeFaults

\* No scan may open a position before the worker's book was accepted once.
EntriesNeedReconcile == phase = "running" /\ can_open_new_trades => reconciled

\* Once the monitor has seen the silence, nothing but a message (no reconnect, no
\* rewarm-up, no reconcile) lets the engine open positions again.
NoEntriesOnKnownStale == noticed => ~ can_open_new_trades

\* An engine opens positions only when it knows the worker's book and its data.
EntriesOnlyWhenKnown == EntriesNeedReconcile /\ NoEntriesOnKnownStale

\* "so fresh data can recover": the data flag does not outlive the silence.
DataFlagClears == "data" \in stale ~> "data" \notin stale
=============================================================================
