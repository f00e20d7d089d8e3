------------------------ MODULE EngineRuntime_proofs ------------------------
(***************************************************************************)
(* Theorems about EngineRuntime and their proofs.                          *)
(*                                                                         *)
(*   1. each flag is set as long as its cause lasts: the flag of the       *)
(*      reconcile until a snapshot was accepted, the flag of the data from *)
(*      the silence the monitor saw to the next message                    *)
(*   2. hence no entries while either lasts                                *)
(***************************************************************************)
EXTENDS EngineRuntime, TLAPS

-----------------------------------------------------------------------------
(***************************************************************************)
(* 1. The flags.                                                           *)
(***************************************************************************)

\* The startup reconcile ends in an accepted snapshot or in the flag, and only an
\* accepted snapshot takes the flag away again.
FlaggedUntilAccepted == phase = "running" /\ ~ reconciled => "reconcile" \in stale

\* After the monitor noticed, only a message makes the gap recent, and until then
\* neither the monitor nor a rewarm-up clears the flag of the data.
FlaggedWhileSilent == noticed => phase = "running" /\ gap = "old" /\ "data" \in stale

RuntimeInv == RuntimeTypeOK /\ FlaggedUntilAccepted /\ FlaggedWhileSilent

LEMMA InitRuntime == RuntimeInit => RuntimeInv
<1> SUFFICES ASSUME RuntimeInit PROVE RuntimeInv
    OBVIOUS
<1>1. cached \in BOOLEAN /\ reconciled \in BOOLEAN /\ noticed \in BOOLEAN
    BY Zenon DEF RuntimeInit
<1>2. /\ phase \in {"warmup", "reconcile", "running"} /\ state \in States
      /\ stale \subseteq Flags /\ link \in {"down", "connected", "listening"}
      /\ gap \in {"never", "recent", "old"}
    BY Zenon DEF RuntimeInit, States
<1>3. connects \in 0..2 /\ faults \in 0..MaxRuntimeFaults
    BY EngineRuntimeAssumption DEF RuntimeInit
<1>4. FlaggedUntilAccepted /\ FlaggedWhileSilent
    BY DEF RuntimeInit, FlaggedUntilAccepted, FlaggedWhileSilent
<1> QED
    BY <1>1, <1>2, <1>3, <1>4 DEF RuntimeInv, RuntimeTypeOK

\* A fault is counted up to the bound.
LEMMA FaultCounts ==
    ASSUME faults \in 0..MaxRuntimeFaults, Fault
    PROVE  faults' \in 0..MaxRuntimeFaults
BY EngineRuntimeAssumption DEF Fault

LEMMA RuntimeStep ==
    ASSUME RuntimeInv, [RuntimeNext]_runtimeVars
    PROVE  RuntimeInv'
<1> USE DEF RuntimeInv, RuntimeTypeOK, FlaggedUntilAccepted, FlaggedWhileSilent, Flags, States
<1>1. CASE Warmup
    BY <1>1, FaultCounts DEF Warmup, RequestWarmup
<1>2. CASE StartupReconcile
    BY <1>2, FaultCounts DEF StartupReconcile, Accepts, AcceptsOld, StartupFailed
<1>3. CASE ReconcileTick
    BY <1>3, FaultCounts DEF ReconcileTick, Accepts, AcceptsOld
<1>4. CASE SyncTick
    BY <1>4, FaultCounts DEF SyncTick
<1>5. CASE Connect
    BY <1>5 DEF Connect
<1>6. CASE Rewarm
    BY <1>6, FaultCounts DEF Rewarm, RewarmFlags, RequestWarmup
<1>7. CASE Message
    BY <1>7 DEF Message, CheckDataStaleRecovery, RecoveredState
<1>8. CASE Silence
    BY <1>8, FaultCounts DEF Silence
<1>9. CASE StaleMonitor
    BY <1>9 DEF StaleMonitor, CheckDataStaleRecovery, RecoveredState
<1>10. CASE ListenerFails
    BY <1>10, FaultCounts DEF ListenerFails
<1>11. CASE UNCHANGED runtimeVars
    BY <1>11 DEF runtimeVars
<1> QED
    BY <1>1, <1>2, <1>3, <1>4, <1>5, <1>6, <1>7, <1>8, <1>9, <1>10, <1>11 DEF RuntimeNext

LEMMA RuntimeInvariant == RuntimeSpec => []RuntimeInv
BY InitRuntime, RuntimeStep, PTL DEF RuntimeSpec

-----------------------------------------------------------------------------
(***************************************************************************)
(* 2. No entries while a flag is set.                                      *)
(***************************************************************************)

\* TypeOK of the runtime: warm-up, listener and monitors keep its states and flags
\* in their sets.
THEOREM RuntimeTypeCorrect == RuntimeSpec => []RuntimeTypeOK
<1>1. RuntimeInv => RuntimeTypeOK
    BY DEF RuntimeInv
<1> QED
    BY RuntimeInvariant, <1>1, PTL

\* can_open_new_trades is false until reconcile_positions accepted a snapshot, and
\* from the tick on that finds the data stale until a message arrives, whatever the
\* reconnects, rewarm-ups and reconciles in between do to runtime_state.
THEOREM EntriesNeedBookAndData == RuntimeSpec => []EntriesOnlyWhenKnown
<1>1. RuntimeInv => EntriesOnlyWhenKnown
    BY DEF RuntimeInv, FlaggedUntilAccepted, FlaggedWhileSilent, EntriesOnlyWhenKnown,
           EntriesNeedReconcile, NoEntriesOnKnownStale, can_open_new_trades
<1> QED
    BY RuntimeInvariant, <1>1, PTL
=============================================================================
