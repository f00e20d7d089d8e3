--------------------------- MODULE MCSignalWorker ---------------------------
(***************************************************************************)
(* Small instances of SignalWorker: one alpha, one symbol (so that every   *)
(* two positions compete for the duplicate guard) and the messages that    *)
(* exercise every branch of the handlers.                                  *)
(***************************************************************************)
EXTENDS SignalWorker

Blank == [id |-> Unknown, type |-> "INVALID",
          alpha |-> CHOOSE a \in Alpha : TRUE,
          symbol |-> CHOOSE s \in Symbol : TRUE,
          position_id |-> None, side |-> "LONG", qty |-> None, sl |-> None,
          time |-> "aware", dup |-> FALSE, runtime |-> "none", cols |-> {},
          payload |-> "rows"]

OpenMsg(i, p, side, q, sl, dup) ==
    [Blank EXCEPT !.type = "OPEN", !.id = i, !.position_id = p,
                  !.side = side, !.qty = q, !.sl = sl, !.dup = dup]

CloseMsg(i, p, q) ==
    [Blank EXCEPT !.type = "CLOSE", !.id = i, !.position_id = p, !.qty = q]

\* the same message with a strategy_runtime
With(runtime, m) == [m EXCEPT !.runtime = runtime]

ModifyMsg(i, p, sl) ==
    [Blank EXCEPT !.type = "MODIFY", !.id = i, !.position_id = p, !.sl = sl]

Register(i, cols, payload) ==
    [Blank EXCEPT !.type = "REGISTER_COLUMNS", !.id = i, !.cols = cols,
                  !.payload = payload]

\* quantities: full, partial, rejected and named-by-the-worker positions; a part
\* whose metadata cannot be merged, and the whole, where nothing is merged
BookSignals ==
    {OpenMsg("o1", "p1", "LONG", 2, None, FALSE),
     OpenMsg("o2", "p2", "LONG", 1, None, FALSE),
     OpenMsg("o3", None, "LONG", None, None, TRUE),
     CloseMsg("c1", "p1", 1),
     With("bad", CloseMsg("c2", "p1", None)),
     CloseMsg("c3", "p2", 2),
     With("bad", CloseMsg("c4", "p1", 1))}

\* histories of both sides: stops moved with, against, to nothing and to NaN;
\* partial, full and refused closes, and those whose timestamp or metadata fail
HistorySignals ==
    {With("bad", OpenMsg("o1", "p1", "LONG", 2, 2, TRUE)),
     OpenMsg("o2", "p2", "SHORT", 1, None, TRUE),
     CloseMsg("c1", "p1", 1),
     With("unversioned", CloseMsg("c2", "p1", 1)),
     CloseMsg("c3", "p2", 2),
     CloseMsg("c4", "p1", None),
     [CloseMsg("c5", "p1", 1) EXCEPT !.time = "naive"],
     ModifyMsg("m1", "p1", 1),
     ModifyMsg("m2", "p1", 3),
     ModifyMsg("m3", "p2", 2),
     ModifyMsg("m4", "p2", 3),
     ModifyMsg("m5", "p1", NaN),
     With("versioned", ModifyMsg("m6", "p1", None)),
     With("unversioned", ModifyMsg("m7", "p2", 1))}

\* transport: duplicates, messages without an id, columns and parse errors
StreamSignals ==
    {OpenMsg("o1", "p1", "LONG", 1, None, FALSE),
     CloseMsg("c1", "p1", None),
     Register(Unknown, {"k1"}, "row"),
     Register("r1", {"k1", "k2"}, "rows"),
     Register("r2", {"k2"}, "json"),
     [Blank EXCEPT !.id = "x1"]}

=============================================================================
