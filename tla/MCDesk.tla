------------------------------- MODULE MCDesk -------------------------------
(***************************************************************************)
(* A Tuesday morning before the London session; two strategies, or two     *)
(* signals to test.  A behaviour is a scan or the making of a backtest.    *)
(***************************************************************************)
EXTENDS Desk

MCSessions == {[start |-> 600, end |-> 720], [start |-> 990, end |-> 1110], [start |-> 990, end |-> 1140]}
MCRollover == [start |-> 1435, end |-> 10]
MCMargin   == [high |-> 20, medium |-> 10]
MCStart    == 1440 + 599
MCCalendar == [imported |-> TRUE, at |-> 1440,
               events |-> {[currency |-> "USD", impact |-> "medium", at |-> MCStart + 13],
                           [currency |-> "JPY", impact |-> "high", at |-> MCStart]}]

Order(side, type, level, sl, tp) ==
    [side |-> side, type |-> type, level |-> level, sl |-> sl, tp |-> tp, hold |-> 1]

\* Market entries, and the legs of a straddle.
Buy  == Order("buy", "", 0, 2, 1)
Sell == Order("sell", "", 0, 2, 4)
Up   == Order("buy", "buy_stop", 4, 2, 1)
Down == Order("sell", "sell_stop", 2, 2, 1)
Fade == Order("sell", "sell_limit", 3, 2, 2)
Dip  == Order("buy", "buy_limit", 2, 2, 2)

MCSignals == {Buy, Sell, Up, Down, Fade, Dip}

MCStrategies == <<"F1", "F4">>

Quotes(times, bids, widths) == {[msc |-> t, bid |-> b, ask |-> b + w] : t \in times, b \in bids, w \in widths}

ScanBound == [ticks |-> 2, quotes |-> Quotes(0..1, {3}, {1, 2}), ideas |-> {<<>>, <<Sell, Buy>>},
              faults |-> 1, sims |-> BOOLEAN, scans |-> TRUE, tests |-> FALSE]
TestBound == [ticks |-> 4, quotes |-> Quotes(0..2, 1..3, {0}), ideas |-> {<<Buy>>, <<Up, Down>>, <<Fade>>},
              faults |-> 0, sims |-> {TRUE}, scans |-> FALSE, tests |-> TRUE]
WideBound == [TestBound EXCEPT !.ticks = 3, !.quotes = Quotes(0..2, 1..5, {1})]
MCBounds  == [scan |-> ScanBound, test |-> TestBound, wide |-> WideBound]
=============================================================================
