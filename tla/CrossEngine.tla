---------------------------- MODULE CrossEngine ----------------------------
(***************************************************************************)
(* CrossSectionalEngine (alphas/cross_alpha/engine.py): at a new candle the*)
(* whole basket is closed and the selection opened, or, for a sleeve, its  *)
(* target book published and nothing held.  What select_positions answers  *)
(* is an input.                                                            *)
(***************************************************************************)
EXTENDS EngineSteps

CONSTANTS
    Symbols, None,
    Midnight,     \* publish_at_midnight_utc
    BookOnly      \* book_only: a sleeve of the portfolio manager

\* selection: the sides of the selected symbols; priced: those with a price above
\* zero and a finite weight; midnight: the candle closes at 00:00 UTC; levered: the
\* volatility target leaves a leverage above zero.
Bars == [selection : [Symbols -> Sides \cup {None}], priced : SUBSET Symbols,
         midnight : BOOLEAN, levered : BOOLEAN]

\* _last_processed_candle, _base_weights and _book_revision.
Mind == [processed |-> 0, weights |-> [s \in Symbols |-> None], revision |-> 0]

Selected(bar) == {s \in Symbols : bar.selection[s] # None}

OpenBasket(c) ==
    FoldLeft(LAMBDA plan, s :
                 plan \o Open(NewPosition(c, s, c.bar.selection[s], 0, 0, None)),
             <<>>, SetToSeq(Selected(c.bar) \cap c.bar.priced))

\* _publish_target_book counts its revisions in the process.
PublishTargetBook(s, c) ==
    Think([s.mind EXCEPT !.weights = c.bar.selection, !.revision = @ + 1])

\* _apply_selection: "Closing and reopening the rebalance basket preserves target
\* quantities and sides."  The weights are taken over even if nothing may be opened.
ApplySelection(s, c) ==
    IF BookOnly
    THEN <<PublishTargetBook(s, c)>> \o [i \in 1..Cardinality(s.held) |-> Pop(SetToSeq(s.held)[i])]
    ELSE CloseAll(s.held)
         \o <<Think([s.mind EXCEPT !.weights = c.bar.selection])>>
         \o (IF c.bar.levered /\ c.ready THEN OpenBasket(c) ELSE <<>>)

\* _process_latest_candle: once per candle; a candle is processed when all of it went
\* through, or when it is not the one that closes the day.
ProcessLatestCandle(s, c) ==
    LET plan == IF Midnight /\ ~ c.bar.midnight THEN <<>> ELSE ApplySelection(s, c)
    IN IF c.n <= s.mind.processed THEN <<>>
       ELSE plan \o <<Think([After(s, plan).mind EXCEPT !.processed = c.n])>>
=============================================================================
