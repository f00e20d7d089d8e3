----------------------------- MODULE PriceAlerts -----------------------------
(***************************************************************************)
(* Ticks for the symbols a strategy holds: the proxy the strategy syncs    *)
(* (PriceAlertProxy in alphas/runner/strategy/context.py), the loop that   *)
(* reconciles the runner's subscriptions with it and keeps the registration*)
(* at the market data service alive (run_price_alert_reconcile_loop in     *)
(* alphas/runner/main.py), and alphas that are disabled and enabled again. *)
(***************************************************************************)
EXTENDS Integers, FiniteSets

CONSTANTS
    Alpha, Symbol,
    MaxChanges     \* bound: changes of a book, alphas stopped and failed calls

VARIABLES
    running,       \* alphas with a strategy (the list strategies)
    held,          \* ctx.price_alerts.symbols of each running alpha
    subscribed,    \* the loop's own record of what it subscribed, by alpha
    wired,         \* alpha -> symbols whose channel really reaches its queue
    registered,    \* external: the service publishes ticks of these, by alpha
    changes

vars == <<running, held, subscribed, wired, registered, changes>>

TypeOK ==
    /\ running \subseteq Alpha
    /\ {held, subscribed, wired, registered} \subseteq [Alpha -> SUBSET Symbol]
    /\ changes \in 0..MaxChanges

Init ==
    /\ running = Alpha
    /\ held \in [Alpha -> SUBSET Symbol]
    /\ subscribed = [a \in Alpha |-> {}]
    /\ wired = [a \in Alpha |-> {}]
    /\ registered = [a \in Alpha |-> {}]
    /\ changes = 0

Change == changes < MaxChanges /\ changes' = changes + 1

\* proxy.sync: the registration is published, or the publish fails and is logged.
Sync(a, symbols) ==
    /\ a \in running
    /\ Change
    /\ held' = [held EXCEPT ![a] = symbols]
    /\ \E done \in BOOLEAN :
          registered' = IF done THEN [registered EXCEPT ![a] = symbols] ELSE registered
    /\ UNCHANGED <<running, subscribed, wired>>

\* (mutant: the registration is left to the strategy's own changes)
NotRegisteredAgain(a) == registered[a]

\* A nonempty set is registered again at every pass, for its key expires.
RegisteredAgain(a) == IF held[a] # {} THEN held[a] ELSE registered[a]

\* The channels it has not subscribed yet are, those it no longer needs are not.
Reconciled(a) == (wired[a] \cup (held[a] \ subscribed[a])) \ (subscribed[a] \ held[a])

\* One strategy of one pass.
Reconcile(a) ==
    /\ a \in running
    /\ wired' = [wired EXCEPT ![a] = Reconciled(a)]
    /\ subscribed' = [subscribed EXCEPT ![a] = held[a]]
    /\ registered' = [registered EXCEPT ![a] = RegisteredAgain(a)]
    /\ UNCHANGED <<running, held, changes>>

\* A call to Redis raises in the middle: the record keeps its old value.
ReconcileFails(a) ==
    /\ a \in running
    /\ Change
    /\ \E some \in SUBSET (held[a] \ subscribed[a]) :
          wired' = [wired EXCEPT ![a] = @ \cup some]
    /\ UNCHANGED <<running, held, subscribed, registered>>

\* The registration's key expires (60 s), at the service.
RegistrationExpires(a) ==
    /\ registered[a] # {}
    /\ Change
    /\ registered' = [registered EXCEPT ![a] = {}]
    /\ UNCHANGED <<running, held, subscribed, wired>>

\* _on_disabled: unsubscribe_strategy; the record of the loop is not told.
Disable(a) ==
    /\ a \in running
    /\ Change
    /\ running' = running \ {a}
    /\ wired' = [wired EXCEPT ![a] = {}]
    /\ UNCHANGED <<held, subscribed, registered>>

\* _on_new_alphas: a new strategy with the positions it restores.
Enable(a) ==
    /\ a \notin running
    /\ running' = running \cup {a}
    /\ UNCHANGED <<held, subscribed, wired, registered, changes>>

Next ==
    \E a \in Alpha :
        \/ Reconcile(a) \/ ReconcileFails(a) \/ RegistrationExpires(a)
        \/ Disable(a) \/ Enable(a)
        \/ \E symbols \in SUBSET Symbol : Sync(a, symbols)

\* The loop passes over every running strategy, every few seconds.
Fairness == \A a \in Alpha : WF_vars(Reconcile(a))

Spec == Init /\ [][Next]_vars /\ Fairness

-----------------------------------------------------------------------------

\* "this loop additionally re-publishes the registration so MDS keeps the
\* consumer alive": what a running alpha holds is registered again and again.
HeldIsRegistered ==
    \A a \in Alpha : []<>(held[a] \subseteq registered[a] \/ a \notin running)

\* "Keep runner-side price_alert: subscriptions in sync with held positions."
InSync ==
    \A a \in running : subscribed[a] = held[a] => held[a] \subseteq wired[a]

=============================================================================
