----------------------------- MODULE BasketBook -----------------------------
(***************************************************************************)
(* The strategies that trade a basket: at a rebalance they close every     *)
(* position and open the new selection.  cross_sectional (Adopts) also     *)
(* closes what the worker still holds and it lost track of, opens as many  *)
(* LONGs as SHORTs, and takes back an OPEN that was sent without a lease;  *)
(* top10_vote_combo does none of this and rebalances at every candle.      *)
(***************************************************************************)
EXTENDS StrategyBook

CONSTANTS
    Side,      \* [symbol -> "LONG" or "SHORT"]: the sides of an instance
    Adopts     \* cross_sectional (TRUE) or top10_vote_combo (FALSE)

VARIABLES
    clean,     \* history: the last rebalance sent everything, from a drained stream
    spared,    \* history: worker's positions that rebalance took for its own
    raised     \* the dispatcher's memory of the CLOSEs whose XADD raised

basket == <<book, clean, spared, raised>>

Symbols == DOMAIN Side

\* covered: enough symbols have the candle; due: it is a rebalance candle.
Bars == [covered : BOOLEAN, due : IF Adopts THEN BOOLEAN ELSE {TRUE}]
Bar == candle["bar"]

Named(S) == {p.symbol : p \in S}
Longs(w) == {x \in DOMAIN w : w[x] = "LONG"}
Shorts(w) == {x \in DOMAIN w : w[x] = "SHORT"}

\* What select_positions or the vote of the factors may choose.
Picked == SUBSET Symbols

\* The selection, less the symbols without a price or not tradable.
Selections == {[x \in S |-> Side[x]] : S \in Picked}

\* The side with more symbols gives up its weakest; a side that is empty is left.
Trimmed(w, drop) == [x \in DOMAIN w \ drop |-> w[x]]
Pairings(w) ==
    IF ~ Adopts \/ Longs(w) = {} \/ Shorts(w) = {} THEN {w}
    ELSE {v \in {Trimmed(w, drop) : drop \in SUBSET DOMAIN w} :
            /\ Cardinality(Longs(v)) = Cardinality(Shorts(v))
            /\ Longs(v) = Longs(w) \/ Shorts(v) = Shorts(w)}

\* Positions of the worker's snapshot whose symbol the strategy does not hold.
Orphans == IF Adopts /\ published THEN {p \in worker : p.symbol \notin Named(held)} ELSE {}

NewPosition(x, side) ==
    [id |-> <<now["bar"], restarts, faults, x>>, symbol |-> x, side |-> side]

\* The dispatcher names a CLOSE for its position and the candle, and remembers it before
\* XADD: when that raised, the next try on this candle is taken for a repeat, and the
\* position forgotten all the same.  (Those that were sent are repeats too; a second
\* CLOSE in the stream does nothing.)
CloseId(p) == <<p.id, now["bar"]>>
Repeats == {p \in held \cup Orphans : CloseId(p) \in raised}

\* (mutant: only what the strategy remembers is closed)
CloseHeld == ForEach(held \ Repeats, LAMBDA p : <<Send("CLOSE", p)>>) \o <<Clear>>

CloseAll ==
    ForEach(Orphans, LAMBDA p : <<Keep(p)>>)
    \o ForEach((held \cup Orphans) \ Repeats, LAMBDA p : <<Send("CLOSE", p)>>) \o <<Clear>>

OpenAll(w) ==
    ForEach({NewPosition(x, w[x]) : x \in DOMAIN w}, LAMBDA p : <<Keep(p), Send("OPEN", p)>>)

Processed == <<Seen("bar"), Done("bar")>>

\* The send at k is dropped by the dispatcher for want of a lease.
Refused(plan, k) ==
    IF Adopts /\ plan[k].kind = "OPEN" THEN [plan EXCEPT ![k] = Drop(plan[k].pos)]
    ELSE RemoveAt(plan, k)

\* A scan that raises is not processed: the next kline tries again.
ApplySelection(plan) ==
    /\ \/ Becomes(AfterPlan(plan \o Processed)) /\ UNCHANGED <<faults, raised>>
          /\ clean' = (stream = <<>> /\ Repeats = {})
          /\ spared' = {p.id : p \in worker \ (Orphans \cup held)}
       \/ \E k \in 1..Len(plan) :
            /\ plan[k].do = "send" /\ faults < MaxFaults /\ faults' = faults + 1
            /\ \/ /\ Raises(AfterPlan(SubSeq(plan, 1, k - 1) \o <<Done("bar")>>), plan[k])
                  /\ raised' = IF plan[k].kind = "CLOSE"
                               THEN raised \cup {CloseId(plan[k].pos)} ELSE raised
               \/ Becomes(AfterPlan(Refused(plan, k) \o Processed)) /\ UNCHANGED raised
            /\ clean' = FALSE /\ spared' = {}
    /\ UNCHANGED <<now, candle, worker, published, restarts>>

\* The coverage gate is open while positions are held, so that a held symbol
\* without data is closed too.
ShouldScan ==
    /\ Bar.covered \/ held # {}
    /\ ShouldScanAfterEvent("bar") /\ UNCHANGED <<clean, spared, raised>>

Rebalance ==
    \E w \in Selections : \E v \in Pairings(w) :
        ApplySelection(CloseAll \o OpenAll(v) \o <<Save>>)

\* can_open_trades is false, or the volatility target leaves no leverage.
CloseOnly == ApplySelection(CloseAll \o <<Save>>)

\* Too few closed candles for a selection, or no rebalance candle and something
\* to keep: the candle counts as processed.
SkipCandle ==
    /\ Perform(Processed) /\ UNCHANGED <<clean, spared, raised>>

Scan ==
    /\ pending["bar"] # 0
    /\ IF Bar.due \/ held = {} THEN Rebalance \/ CloseOnly \/ (~ Adopts /\ SkipCandle)
       ELSE SkipCandle

Init ==
    /\ clean = FALSE /\ spared = {} /\ raised = {}
    /\ \E c \in Bars : StartBook({[t \in Tf |-> c]})

\* Bound: a candle lasts hours, the worker has taken the signals of one when the next
\* closes.
Next ==
    \/ stream = <<>> /\ CandleCloses("bar", Bars) /\ UNCHANGED <<clean, spared, raised>>
    \/ ShouldScan
    \/ Scan
    \/ WorkerTakes /\ UNCHANGED <<clean, spared, raised>>
    \/ WorkerCloses /\ UNCHANGED <<clean, spared, raised>>
    \/ Restart(LoadPositions) /\ clean' = FALSE /\ spared' = {} /\ UNCHANGED raised

Spec == Init /\ [][Next]_basket
-----------------------------------------------------------------------------
TypeOK ==
    /\ Named(held) \subseteq Symbols /\ Cardinality(Named(held)) = Cardinality(held)
    /\ clean \in BOOLEAN

\* Whatever was lost before, after a rebalance whose signals all went out (and none of
\* whose CLOSEs was lost on an earlier try of its candle) the worker holds no
\* position of a symbol the strategy does not hold: orphans do not outlive it.  Spared
\* is only an orphan whose symbol the strategy held under another id.
NoOrphanAfterRebalance ==
    Adopts /\ clean /\ stream = <<>> =>
        Named({p \in worker : p.id \notin spared}) \subseteq Named(held)
=============================================================================
