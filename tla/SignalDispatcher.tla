-------------------------- MODULE SignalDispatcher --------------------------
(***************************************************************************)
(* The duplicate guard of a runner's signals                               *)
(* (alphas/runner/signal/dispatcher.py): an LRU of signal ids in memory and*)
(* its copy in a Redis list, written before the signal itself.  One list   *)
(* serves all runners of the signal stream: "own" is the runner whose      *)
(* dispatcher this is, the others push to the list and trim it.            *)
(* RunnerFleet models the lease check that precedes it.                    *)
(***************************************************************************)
EXTENDS Integers, SequencesExt

CONSTANTS
    Id,          \* signal ids: a hash that leaves out quantity, sl and tp
    MaxSeen,     \* max_seen
    MaxSignals   \* bound: calls that get past the duplicate check, of all runners

VARIABLES
    seen,      \* _seen, the oldest first
    dedup,     \* Redis: runner:dedup:{stream} of every runner, the newest first
    log        \* history: the ids remembered, by whom, and whether the list was
               \* given them and read again

dispatchVars == <<seen, dedup, log>>

Entry == [id: Id, own: BOOLEAN, kept: BOOLEAN]

ASSUME SignalDispatcherAssumption ==
    /\ MaxSeen \in Nat \ {0}
    /\ MaxSignals \in Nat

DispatchTypeOK ==
    /\ seen \in Seq(Id) /\ Len(seen) <= MaxSeen /\ IsInjective(seen)
    /\ dedup \in Seq(Id)
    /\ log \in Seq(Entry) /\ Len(log) <= MaxSignals

DispatchInit == seen = <<>> /\ dedup = <<>> /\ log = <<>>

Newest(s, n) == SubSeq(s, 1, IF Len(s) < n THEN Len(s) ELSE n)

\* (mutant: one id too many is dropped)
RememberedOffByOne(id) == Reverse(Newest(<<id>> \o Reverse(seen), MaxSeen - 1))

\* The id goes to the end and the oldest ones out (id is not in seen yet).
Remembered(id) == Reverse(Newest(<<id>> \o Reverse(seen), MaxSeen))

\* LPUSH and LTRIM in one pipeline that is no transaction: both, or the push alone.
Persisted(id) == {Newest(<<id>> \o dedup, MaxSeen), <<id>> \o dedup}

\* dispatch: remember first (the pipeline may fail), then XADD; when that raises the
\* id stays remembered all the same.
Dispatch(id) ==
    /\ id \notin ToSet(seen)
    /\ Len(log) < MaxSignals
    /\ seen' = Remembered(id)
    /\ \E kept \in BOOLEAN :
          /\ dedup' \in IF kept THEN Persisted(id) ELSE {dedup}
          /\ log' = Append(log, [id |-> id, own |-> TRUE, kept |-> kept])

\* dispatch of another runner, as the list sees it.
OtherDispatch(id) ==
    /\ Len(log) < MaxSignals
    /\ dedup' \in Persisted(id)
    /\ log' = Append(log, [id |-> id, own |-> FALSE, kept |-> TRUE])
    /\ UNCHANGED seen

\* _restore_seen: the list's first entry is the most recent one.
Restored == Newest(dedup, MaxSeen)

\* Of a repeated id the dictionary keeps the first place it was inserted at.
Deduplicated(s) ==
    LET first == {i \in DOMAIN s : \A j \in DOMAIN s : s[j] = s[i] => i <= j}
        place(k) == CHOOSE i \in first : Cardinality({j \in first : j <= i}) = k
    IN  [k \in 1..Cardinality(first) |-> s[place(k)]]

\* A new process; the read may fail and leave nothing.
Restart ==
    /\ \/ /\ seen' = Deduplicated(Reverse(Restored))
          /\ UNCHANGED log
       \/ /\ seen' = <<>>
          /\ log' = [i \in DOMAIN log |-> [log[i] EXCEPT !.kept = FALSE]]
    /\ UNCHANGED dedup

DispatchNext == Restart \/ \E id \in Id : Dispatch(id) \/ OtherDispatch(id)

DispatchSpec == DispatchInit /\ [][DispatchNext]_dispatchVars

-----------------------------------------------------------------------------

\* A signal id is not handed to XADD a second time by a runner until max_seen ids of
\* all runners went to the list, over restarts too, if the runner's own ids all
\* reached the list and every start could read it (dispatch's duplicate check,
\* _remember and _restore_seen).  Only of an id that no other runner sends: of one
\* that is in the list twice the dictionary keeps the older place, and forgets it
\* earlier.
NoEarlyRepeat ==
    \A i, j \in DOMAIN log :
        (/\ i < j /\ log[i].id = log[j].id
         /\ \A k \in 1..j : log[k].kept /\ (log[k].id = log[i].id => log[k].own))
        => j - i > MaxSeen

=============================================================================
