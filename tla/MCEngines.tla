----------------------------- MODULE MCEngines -----------------------------
(***************************************************************************)
(* The engines behind the signals, each on a small instance, in one run: a *)
(* behaviour belongs to one of them ("part").  The hosts share variables;  *)
(* those that a part does not use rest.  EntriesOnlyWhenKnown and          *)
(* DataFlagClears of EngineRuntime hold of a runtime that rests.           *)
(***************************************************************************)
EXTENDS EngineRuntime, Sequences

CONSTANTS
    Parts,                 \* the parts a run looks at
    None, BTC, x, y

VARIABLES
    part,
    now, minutes, start, published, ready, changed, watched,                \* EngineBook
    closed, task, outbox, seen, saved, manager, gate, opened, clean, rescans,  \* LegacyAdapter
    bar, scanned, held, mind, stream, worker, snapshot, restarts            \* both of them

runtime == <<phase, state, stale, link, connects, gap, cached, reconciled, noticed>>
book == <<now, minutes, start, published, ready, changed, watched>>
adapter == <<closed, task, outbox, seen, saved, manager, gate, opened, clean, rescans>>
shared == <<bar, scanned, held, mind, stream, worker, snapshot, restarts>>
vars == <<part, runtime, book, adapter, shared, faults>>

NoPlan(s, c) == <<>>
NoAlert(s, c, price) == <<>>

\* Engines with a process of their own.
Nr == INSTANCE NrLongShort
ScanNr(s, c) == Nr!ScanSymbol(s, c)
NrBook == INSTANCE EngineBook WITH
    Decide <- ScanNr, Alert <- NoAlert, Manage <- NoPlan, InitMind <- Nr!Mind,
    Market <- Nr!Bars, Ticks <- {}, Polls <- FALSE,
    MaxCandles <- 3, MaxMinutes <- 0, MaxStream <- 4, MaxRestarts <- 1, MaxFaults <- 2

A2 == INSTANCE Alpha2 WITH
    Symbols <- {x, y}, MaxConcurrent <- 1,
    Reads <- {[signal |-> "LONG", bias |-> None, sized |-> TRUE],
              [signal |-> "SHORT", bias |-> "SHORT", sized |-> TRUE],
              [signal |-> "SHORT", bias |-> "LONG", sized |-> TRUE],
              [signal |-> "LONG", bias |-> None, sized |-> FALSE]}
ScanA2(s, c) == A2!ProcessAllSymbols(s, c)
A2Book == INSTANCE EngineBook WITH
    Decide <- ScanA2, Alert <- NoAlert, Manage <- NoPlan, InitMind <- A2!Mind,
    Market <- A2!Bars, Ticks <- {}, Polls <- FALSE,
    MaxCandles <- 2, MaxMinutes <- 0, MaxStream <- 4, MaxRestarts <- 1, MaxFaults <- 1

Ht == INSTANCE HyperTurbo WITH Prices <- {2, 4, 6}, Trail <- 1, Catastrophe <- 3
HtBars ==
    {b \in Ht!Bars :
        <<b.go, b.recommended, b.close, b.open, b.atr>> \in
            {<<"LONG", TRUE, 4, 4, TRUE>>, <<"LONG", FALSE, 4, 4, TRUE>>, <<"SHORT", TRUE, 4, 4, TRUE>>,
             <<None, TRUE, 6, 6, TRUE>>, <<None, TRUE, 4, 4, TRUE>>, <<"LONG", TRUE, 6, 6, FALSE>>}}
ScanHt(s, c) == Ht!ApplyDecision(s, c)
AlertHt(s, c, price) == Ht!OnPriceAlert(s, c, price)
ManageHt(s, c) == Ht!ManagePositions(s, c)
HtBook == INSTANCE EngineBook WITH
    Decide <- ScanHt, Alert <- AlertHt, Manage <- ManageHt, InitMind <- Ht!Mind,
    Market <- HtBars, Ticks <- {2, 6}, Polls <- TRUE,
    MaxCandles <- 3, MaxMinutes <- 1, MaxStream <- 2, MaxRestarts <- 0, MaxFaults <- 0

\* A basket, one that is only rebalanced at midnight, and a sleeve's target book.
Cs == INSTANCE CrossEngine WITH Symbols <- {x, y}, Midnight <- FALSE, BookOnly <- FALSE
CsNight == INSTANCE CrossEngine WITH Symbols <- {x, y}, Midnight <- TRUE, BookOnly <- FALSE
CsSleeve == INSTANCE CrossEngine WITH Symbols <- {x, y}, Midnight <- FALSE, BookOnly <- TRUE
Baskets ==
    {b \in Cs!Bars : /\ b.selection[x] # "SHORT" /\ b.selection[y] # "LONG"
                     /\ (b.priced = {x, y} \/ (b.priced = {x} /\ b.levered))
                     /\ (b.levered \/ b.selection[x] # None)}
ScanCs(s, c) == Cs!ProcessLatestCandle(s, c)
CsBook == INSTANCE EngineBook WITH
    Decide <- ScanCs, Alert <- NoAlert, Manage <- NoPlan, InitMind <- Cs!Mind,
    Market <- {b \in Baskets : b.midnight}, Ticks <- {}, Polls <- FALSE,
    MaxCandles <- 2, MaxMinutes <- 0, MaxStream <- 4, MaxRestarts <- 0, MaxFaults <- 1
ScanNight(s, c) == CsNight!ProcessLatestCandle(s, c)
NightBook == INSTANCE EngineBook WITH
    Decide <- ScanNight, Alert <- NoAlert, Manage <- NoPlan, InitMind <- Cs!Mind,
    Market <- {b \in Baskets : b.levered /\ b.priced = {x, y}}, Ticks <- {}, Polls <- FALSE,
    MaxCandles <- 2, MaxMinutes <- 0, MaxStream <- 4, MaxRestarts <- 1, MaxFaults <- 0
ScanSleeve(s, c) == CsSleeve!ProcessLatestCandle(s, c)
SleeveBook == INSTANCE EngineBook WITH
    Decide <- ScanSleeve, Alert <- NoAlert, Manage <- NoPlan, InitMind <- Cs!Mind,
    Market <- {b \in Baskets : b.midnight}, Ticks <- {}, Polls <- FALSE,
    MaxCandles <- 2, MaxMinutes <- 0, MaxStream <- 4, MaxRestarts <- 1, MaxFaults <- 1

\* Engines inside the runner.
Bangoc == INSTANCE BangocV22
NoIndicators(row, h) == row
NoAlertB(s, c, price) == <<>>
ApplyB(s, c, i) == Bangoc!Apply(s, c, i)
AdoptedB(w) == Bangoc!Adopted(w)
BangocLegacy == INSTANCE LegacyAdapter WITH
    Indicators <- NoIndicators, Apply <- ApplyB, Manage <- NoPlan, Alert <- NoAlertB,
    Adopted <- AdoptedB, InitMind <- Bangoc!Mind, Threaded <- FALSE,
    Market <- {b \in Bangoc!Bars : b.side # None \/ b.dot}, Ticks <- {}, Hours <- TRUE, PerHour <- 2,
    MaxCandles <- 4, MaxRescans <- 1, MaxRestarts <- 1, MaxFaults <- 1

\* Stops, milestones and targets of a long from 4 and a short from 10.
Candle(low, high, green) == [low |-> low, high |-> high, close |-> high, green |-> green, red |-> 10]
Zone == INSTANCE SongThan WITH
    Candles <- {Candle(2, 5, 4), Candle(4, 7, 4), Candle(6, 8, 4), Candle(4, 10, 4),
                Candle(9, 12, 4), Candle(6, 6, 4), Candle(5, 6, None)},
    SlDist <- 2, TpDist <- 5, M1 <- 3, M2 <- 4, M1Sl <- 1, M2Sl <- 2,
    ReverseDist <- 3, ReverseCount <- 1
IndicatorsZ(row, h) == Zone!Indicators(row, h)
ApplyZ(s, c, i) == Zone!Apply(s, c, i)
ManageZ(s, c) == Zone!Manage(s, c)
AlertZ(s, c, price) == Zone!Alert(s, c, price)
AdoptedZ(w) == Zone!Adopted(w)
ZoneLegacy == INSTANCE LegacyAdapter WITH
    Indicators <- IndicatorsZ, Apply <- ApplyZ, Manage <- ManageZ, Alert <- AlertZ,
    Adopted <- AdoptedZ, InitMind <- Zone!Mind, Threaded <- TRUE,
    Market <- Zone!Bars, Ticks <- {2, 12}, Hours <- FALSE, PerHour <- 1,
    MaxCandles <- 3, MaxRescans <- 1, MaxRestarts <- 0, MaxFaults <- 0

Short == INSTANCE ShortBtc WITH
    Prices <- {2, 4, 7}, SlDist <- 3, TpDist <- 2, MaxHold <- 2
ShortBars ==
    {b \in Short!Bars :
        <<b.low, b.high, b.close, b.entry, b.bad>> \in
            {<<4, 7, 4, TRUE, 1>>, <<4, 4, 4, FALSE, 1>>,
             <<4, 4, 4, FALSE, 2>>, <<2, 4, 2, FALSE, 0>>}}
IndicatorsS(row, h) == Short!Indicators(row, h)
ApplyS(s, c, i) == Short!Apply(s, c, i)
ManageS(s, c) == Short!Manage(s, c)
AlertS(s, c, price) == Short!Alert(s, c, price)
AdoptedS(w) == Short!Adopted(w)
ShortLegacy == INSTANCE LegacyAdapter WITH
    Indicators <- IndicatorsS, Apply <- ApplyS, Manage <- ManageS, Alert <- AlertS,
    Adopted <- AdoptedS, InitMind <- Short!Mind, Threaded <- TRUE,
    Market <- ShortBars, Ticks <- {}, Hours <- FALSE, PerHour <- 1,
    MaxCandles <- 3, MaxRescans <- 0, MaxRestarts <- 1, MaxFaults <- 1

Books == {"nr", "alpha2", "turbo", "basket", "night", "sleeve"}
Adapters == {"bangoc", "zone", "short"}

ASSUME PartsAssumption == Parts \subseteq {"runtime"} \cup Books \cup Adapters

BookRests ==
    /\ now = 0 /\ minutes = <<>> /\ start = 0 /\ published = FALSE
    /\ ready = TRUE /\ changed = FALSE /\ watched = {}
AdapterRests ==
    /\ closed = <<>> /\ task = [at |-> "idle"] /\ outbox = <<>> /\ seen = {} /\ saved = {}
    /\ manager = TRUE /\ gate = TRUE /\ opened = 0 /\ clean = TRUE /\ rescans = 0
SharedRests ==
    /\ bar = None /\ scanned = 0 /\ held = {} /\ mind = None /\ stream = <<>>
    /\ worker = {} /\ snapshot = {} /\ restarts = 0

Init ==
    /\ part \in Parts
    /\ RuntimeInit
    /\ part \notin Books => BookRests
    /\ part \notin Adapters => AdapterRests
    /\ part = "runtime" => SharedRests
    /\ part = "nr" => NrBook!Init
    /\ part = "alpha2" => A2Book!Init
    /\ part = "turbo" => HtBook!Init
    /\ part = "basket" => CsBook!Init
    /\ part = "night" => NightBook!Init
    /\ part = "sleeve" => SleeveBook!Init
    /\ part = "bangoc" => BangocLegacy!Init
    /\ part = "zone" => ZoneLegacy!Init
    /\ part = "short" => ShortLegacy!Init

Next ==
    /\ UNCHANGED part
    /\ \/ part = "runtime" /\ RuntimeNext /\ UNCHANGED <<book, adapter, shared>>
       \/ part = "nr" /\ NrBook!Next /\ UNCHANGED <<runtime, adapter>>
       \/ part = "alpha2" /\ A2Book!Next /\ UNCHANGED <<runtime, adapter>>
       \/ part = "turbo" /\ HtBook!Next /\ UNCHANGED <<runtime, adapter>>
       \/ part = "basket" /\ CsBook!Next /\ UNCHANGED <<runtime, adapter>>
       \/ part = "night" /\ NightBook!Next /\ UNCHANGED <<runtime, adapter>>
       \/ part = "sleeve" /\ SleeveBook!Next /\ UNCHANGED <<runtime, adapter>>
       \/ part = "bangoc" /\ BangocLegacy!Next /\ UNCHANGED <<runtime, book>>
       \/ part = "zone" /\ ZoneLegacy!Next /\ UNCHANGED <<runtime, book>>
       \/ part = "short" /\ ShortLegacy!Next /\ UNCHANGED <<runtime, book>>

Spec == Init /\ [][Next]_vars

\* The tasks of a process go on; the actions named here are the same in every book.
FairSpec ==
    /\ Spec
    /\ WF_vars(part \in Books /\ NrBook!WorkerTakes /\ UNCHANGED <<part, runtime, adapter>>)
    /\ WF_vars(part \in Books /\ NrBook!Publish /\ UNCHANGED <<part, runtime, adapter>>)
    /\ WF_vars(part \in Books /\ NrBook!ReconcilePositions /\ UNCHANGED <<part, runtime, adapter>>)
    /\ WF_vars(part \in Books /\ NrBook!RefreshPriceAlertSubscriptions /\ UNCHANGED <<part, runtime, adapter>>)
    /\ WF_vars(part = "runtime" /\ Warmup /\ UNCHANGED <<part, book, adapter, shared>>)
    /\ WF_vars(part = "runtime" /\ StartupReconcile /\ UNCHANGED <<part, book, adapter, shared>>)
    /\ WF_vars(part = "runtime" /\ Connect /\ UNCHANGED <<part, book, adapter, shared>>)
    /\ WF_vars(part = "runtime" /\ Rewarm /\ UNCHANGED <<part, book, adapter, shared>>)
    /\ WF_vars(part = "runtime" /\ Message /\ UNCHANGED <<part, book, adapter, shared>>)
-----------------------------------------------------------------------------

\* Every part keeps its types.
TypeOK ==
    /\ part = "runtime" => RuntimeTypeOK
    /\ part = "nr" => NrBook!TypeOK
    /\ part = "alpha2" => A2Book!TypeOK
    /\ part = "turbo" => HtBook!TypeOK
    /\ part = "basket" => CsBook!TypeOK
    /\ part = "night" => NightBook!TypeOK
    /\ part = "sleeve" => SleeveBook!TypeOK
    /\ part = "bangoc" => BangocLegacy!TypeOK
    /\ part = "zone" => ZoneLegacy!TypeOK
    /\ part = "short" => ShortLegacy!TypeOK

\* EngineBook: whatever is lost, the engine's book becomes the worker's.
BooksMeet == part \in Books => NrBook!BooksMeet

\* EngineBook: what is held for good gets its ticks.
HeldIsWatched == part \in Books => NrBook!HeldIsWatched

\* EngineBook and LegacyAdapter: the stop of a trailed position, the worker's and the
\* engine's, moves with the profit only.
StopsOnlyTighten ==
  [][/\ part = "turbo" => HtBook!WorkerStopOnlyTightens
     /\ part = "zone" => ZoneLegacy!StopNeverLoosens]_vars

\* LegacyAdapter: while nothing is lost both books agree when the stream is drained.
BooksAgree ==
    /\ part = "bangoc" => BangocLegacy!BooksAgree
    /\ part = "zone" => ZoneLegacy!BooksAgree
    /\ part = "short" => ShortLegacy!BooksAgree

\* SongThan: a limit order never rests beside a position.
NoOrderBesidePosition == part = "zone" => held = {} \/ mind.pending = <<>>

\* BangocV22: once both candles that end an hour were scanned, in either order, the
\* position has the side of the newest one, unless the gate was closed or a signal lost.
HourIsDecided ==
    part = "bangoc" /\ clean /\ scanned = closed /\ closed["main"] <= 2 * closed["hour"] =>
        (Bangoc!Allowed(bar) => \E p \in held : p.side = bar.side)

\* LegacyAdapter: "The entry candle predates the position and must never drive an exit."
EntryCandleNeverExits == [][part = "short" => ShortLegacy!EntryCandleNeverExits]_vars
=============================================================================
