--------------------------- MODULE PositionLedger ---------------------------
(***************************************************************************)
(* What the execution worker gives its alphas: every signal_id is settled  *)
(* at most once, in one indivisible step that has the whole effect the     *)
(* signal asks for or none, with one exception: the close of a part whose  *)
(* strategy_runtime cannot be merged is traded and not taken off the       *)
(* position.  There is no stream, no transaction, no failure and no crash  *)
(* here; SignalWorker implements this specification.                       *)
(***************************************************************************)
EXTENDS Integers

CONSTANTS SignalId, PositionId, None, Signals

VARIABLES
    held,     \* the open quantity of every position, None when it is not open
    traded,   \* the quantity of every position moved to trades
    settled   \* signal ids that had their turn

ledger == <<held, traded, settled>>

Init ==
    /\ held = [p \in PositionId |-> None]
    /\ traded = [p \in PositionId |-> 0]
    /\ settled = {}

\* a refused signal, and one that does not concern quantities
NoEffect == UNCHANGED <<held, traded>>

OpenPosition(m) ==
    /\ m.type = "OPEN"
    /\ \E p \in IF m.position_id = None THEN PositionId ELSE {m.position_id} :
          /\ held[p] = None
          /\ held' = [held EXCEPT ![p] = IF m.qty = None THEN 0 ELSE m.qty]
    /\ UNCHANGED traded

\* qty closes only that amount and keeps the rest open
ClosePosition(m) ==
    LET p == m.position_id
        q == IF m.qty = None THEN held[p] ELSE m.qty
    IN  /\ m.type = "CLOSE"
        /\ p \in PositionId
        /\ held[p] # None
        /\ 0 < q /\ q <= held[p]
        /\ held' = [held EXCEPT ![p] = IF q = held[p] THEN None ELSE @ - q]
        /\ traded' = [traded EXCEPT ![p] = @ + q]

\* the close of a part breaks off between its two writes
TradePart(m) ==
    LET p == m.position_id
    IN  /\ m.type = "CLOSE"
        /\ m.runtime # "none"
        /\ p \in PositionId
        /\ held[p] # None
        /\ m.qty # None /\ 0 < m.qty /\ m.qty < held[p]
        /\ traded' = [traded EXCEPT ![p] = @ + m.qty]
        /\ UNCHANGED held

Settle(m) ==
    /\ m.id \in SignalId \ settled
    /\ settled' = settled \cup {m.id}
    /\ OpenPosition(m) \/ ClosePosition(m) \/ TradePart(m) \/ NoEffect

Next == \E m \in Signals : Settle(m)

Spec == Init /\ [][Next]_ledger

=============================================================================
