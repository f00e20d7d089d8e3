---------------------------- MODULE MCStrategies ----------------------------
(***************************************************************************)
(* Every position-holding strategy of the runner on a small instance, in   *)
(* one run: a behaviour belongs to one strategy ("part").                  *)
(***************************************************************************)
EXTENDS StrategyBook

CONSTANTS
    Parts,                 \* the strategies a run looks at
    None, XAU, PAXG, F1, x, y, z

\* The book is that of every strategy; each one has bounds of its own.
VARIABLES
    part,
    clean, spared, raised  \* BasketBook

vars == <<part, book, clean, spared, raised>>

Xau == INSTANCE SuploXau WITH
    Tf <- {"15m"}, MaxCandles <- 4, MaxRestarts <- 1, MaxFaults <- 1, Prices <- {2, 4, 6}
XauV2 == INSTANCE SupertrendXauV2 WITH
    Tf <- {"15m", "1m"}, MaxCandles <- 3, MaxRestarts <- 1, MaxFaults <- 0, Prices <- {2, 4}
Atr1 == INSTANCE SuploAtr1 WITH
    Tf <- {"15m", "1m"}, MaxCandles <- 3, MaxRestarts <- 0, MaxFaults <- 0,
    Prices <- {2, 4, 6}, Atrs <- {2}
Adx == INSTANCE SupertrendAdx WITH
    Tf <- {"15m"}, MaxCandles <- 5, MaxRestarts <- 1, MaxFaults <- 0, Peaks <- {1, 2}
Ema13 == INSTANCE SupertrendAdxEma13 WITH
    Tf <- {"15m"}, MaxCandles <- 5, MaxRestarts <- 1, MaxFaults <- 0, Peaks <- {1, 2}
Chan == INSTANCE SmoothChan WITH
    Tf <- {"src"}, MaxCandles <- 4, MaxRestarts <- 0, MaxFaults <- 0, Prices <- {2, 4, 6},
    SlDist <- 3, ChanDist <- [p \in 0..6 |-> IF p >= 3 THEN 1 ELSE 3], BeDist <- 1, BarOf <- 1

\* smooth-chan on three-hour bars, of three candles each.
Chan3h == INSTANCE SmoothChan WITH
    Tf <- {"src"}, MaxCandles <- 6, MaxRestarts <- 0, MaxFaults <- 0, Prices <- {2},
    SlDist <- 0, ChanDist <- [p \in 0..6 |-> 1], BeDist <- 1, BarOf <- 3

\* Alpha 4 pyramids; alphas 10 to 12 are gated, hold one leg and never manage it.
Pyramid == INSTANCE XauM30 WITH
    Tf <- {"15m"}, MaxCandles <- 6, MaxRestarts <- 1, MaxFaults <- 0, AllowDuplicate <- TRUE,
    Prices <- {4, 6}, Stop <- 2, HalfAtr <- 1,
    Preset <- [max |-> 2, rr |-> 2, macro_gated |-> FALSE, long_only |-> FALSE,
               managed |-> TRUE, pyramid |-> TRUE]
Gated == INSTANCE XauM30 WITH
    Tf <- {"15m"}, MaxCandles <- 4, MaxRestarts <- 1, MaxFaults <- 0, AllowDuplicate <- FALSE,
    Prices <- {4, 6}, Stop <- 2, HalfAtr <- 1,
    Preset <- [max |-> 1, rr |-> 2, macro_gated |-> TRUE, long_only |-> TRUE,
               managed |-> FALSE, pyramid |-> FALSE]

Meanrev == INSTANCE Bollinger WITH
    Tf <- {"bar"}, MaxCandles <- 5, MaxRestarts <- 1, MaxFaults <- 1,
    LongOnly <- TRUE, Reversed <- FALSE
MeanrevLs == INSTANCE Bollinger WITH
    Tf <- {"bar"}, MaxCandles <- 5, MaxRestarts <- 1, MaxFaults <- 1,
    LongOnly <- FALSE, Reversed <- TRUE

Alpha19 == INSTANCE Vn30 WITH
    Tf <- {"bar"}, MaxCandles <- 4, MaxRestarts <- 1, MaxFaults <- 0,
    Alpha <- 19, Reversed <- FALSE, Lows <- {2, 5}, Highs <- {4, 6}
Alpha21 == INSTANCE Vn30 WITH
    Tf <- {"bar"}, MaxCandles <- 4, MaxRestarts <- 1, MaxFaults <- 0,
    Alpha <- 21, Reversed <- TRUE, Lows <- {2}, Highs <- {4}

Cross == INSTANCE BasketBook WITH
    Tf <- {"bar"}, MaxCandles <- 3, MaxRestarts <- 1, MaxFaults <- 1,
    HashedIds <- FALSE, Adopts <- TRUE,
    Side <- [s \in {x, y} |-> IF s = y THEN "SHORT" ELSE "LONG"]

\* Three symbols, so that the longer side gives one up.
Paired == INSTANCE BasketBook WITH
    Tf <- {"bar"}, MaxCandles <- 2, MaxRestarts <- 0, MaxFaults <- 0,
    HashedIds <- FALSE, Adopts <- TRUE,
    Side <- [s \in {x, y, z} |-> IF s = y THEN "SHORT" ELSE "LONG"]
Top10 == INSTANCE BasketBook WITH
    Tf <- {"bar"}, MaxCandles <- 3, MaxRestarts <- 1, MaxFaults <- 0,
    HashedIds <- FALSE, Adopts <- FALSE,
    Side <- [s \in {x, y} |-> IF s = y THEN "SHORT" ELSE "LONG"]

Init ==
    /\ part \in Parts
    /\ clean = FALSE /\ spared = {} /\ raised = {}
    /\ \/ part = "xau" /\ Xau!Init
       \/ part = "xauV2" /\ XauV2!Init
       \/ part = "atr1" /\ Atr1!Init
       \/ part = "adx" /\ Adx!Init
       \/ part = "ema13" /\ Ema13!Init
       \/ part = "chan" /\ Chan!Init
       \/ part = "chan3h" /\ Chan3h!Init
       \/ part = "pyramid" /\ Pyramid!Init
       \/ part = "gated" /\ Gated!Init
       \/ part = "meanrev" /\ Meanrev!Init
       \/ part = "meanrevLs" /\ MeanrevLs!Init
       \/ part = "alpha19" /\ Alpha19!Init
       \/ part = "alpha21" /\ Alpha21!Init
       \/ part = "cross" /\ Cross!Init
       \/ part = "paired" /\ Paired!Init
       \/ part = "top10" /\ Top10!Init

Next ==
    /\ UNCHANGED part
    /\ \/ part = "cross" /\ Cross!Next
       \/ part = "paired" /\ Paired!Next
       \/ part = "top10" /\ Top10!Next
       \/ /\ UNCHANGED <<clean, spared, raised>>
          /\ \/ part = "xau" /\ Xau!Next
             \/ part = "xauV2" /\ XauV2!Next
             \/ part = "atr1" /\ Atr1!Next
             \/ part = "adx" /\ Adx!Next
             \/ part = "ema13" /\ Ema13!Next
             \/ part = "chan" /\ Chan!Next
             \/ part = "chan3h" /\ Chan3h!Next
             \/ part = "pyramid" /\ Pyramid!Next
             \/ part = "gated" /\ Gated!Next
             \/ part = "meanrev" /\ Meanrev!Next
             \/ part = "meanrevLs" /\ MeanrevLs!Next
             \/ part = "alpha19" /\ Alpha19!Next
             \/ part = "alpha21" /\ Alpha21!Next

Spec == Init /\ [][Next]_vars
-----------------------------------------------------------------------------
\* Every strategy keeps its types.
TypeOK ==
    /\ part = "xau" => Xau!TypeOK
    /\ part = "xauV2" => XauV2!TypeOK
    /\ part = "atr1" => Atr1!TypeOK
    /\ part = "adx" => Adx!TypeOK
    /\ part = "ema13" => Ema13!TypeOK
    /\ part \in {"chan", "chan3h"} => Chan!TypeOK
    /\ part \in {"pyramid", "gated"} => Pyramid!TypeOK
    /\ part = "meanrev" => Meanrev!TypeOK
    /\ part = "meanrevLs" => MeanrevLs!TypeOK
    /\ part \in {"alpha19", "alpha21"} => Alpha19!TypeOK
    /\ part = "paired" => Paired!TypeOK
    /\ part \in {"cross", "top10"} => Cross!TypeOK

\* StrategyBook: the strategies that trade flips enter once for each turn of the trend.
FlipParts == {"xau", "xauV2", "atr1", "adx", "ema13", "chan", "chan3h"}
NoReentry == [][(part \in FlipParts) => OneEntryPerTurn]_vars

\* The levels of a position, whatever the strategy calls them, only tighten.
TrailOnlyTightens ==
  [][/\ part = "xau" => Xau!TrailOnlyTightens
     /\ part = "xauV2" => XauV2!TrailOnlyTightens
     /\ part = "atr1" => Atr1!TrailOnlyTightens
     /\ part = "chan" => Chan!TrailOnlyTightens
     /\ part = "pyramid" => Pyramid!TrailOnlyTightens
     /\ part = "alpha19" => Alpha19!TrailOnlyTightens]_vars

\* The worker never holds more legs than max_positions (XauM30), and none after the end
\* of the session (Vn30).  Without a fault no OPEN is taken for a repeat, but for those of
\* XauM30, which scans its bar again after a restart: a strategy holds what the worker
\* will never have nowhere else.
LimitsHeld ==
    /\ faults = 0 /\ dropped # {} => part \in {"pyramid", "gated"} /\ restarts > 0
    /\ part = "pyramid" => Pyramid!CapHeld
    /\ part = "gated" => Gated!CapHeld
    /\ part = "alpha19" => Alpha19!FlatAfterSession
    /\ part = "alpha21" => Alpha21!FlatAfterSession

\* BasketBook: orphans do not outlive a rebalance.
NoOrphanAfterRebalance == part = "cross" => Cross!NoOrphanAfterRebalance

\* SuploXau: a restart keeps the trailing state.
RestartKeepsTrailing == [][part = "xau" => Xau!RestartKeepsTrailing]_vars
=============================================================================
