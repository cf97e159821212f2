------------------------------ MODULE Backtest ------------------------------
(***************************************************************************)
(* TickBacktester.run_signal (backtest/tick_engine.py) as a function of a  *)
(* series of ticks, a signal, the time it was decided at and the latency   *)
(* drawn for it.  Prices are in quarters of a point, so that the stressed  *)
(* spread, one and a half times the quoted one, is an integer.             *)
(***************************************************************************)
EXTENDS Integers, Sequences

CONSTANTS
    SpreadHalves, \* StressConfig.spread_multiple in halves: 2 or 3
    Slippage,     \* points a market order slips, the stress included
    OrderTtl      \* 30 min, in the unit of the ticks' times

\* Spreads only widen.
ASSUME BacktestConfig ==
    /\ SpreadHalves \in Nat /\ SpreadHalves >= 2
    /\ Slippage \in Nat /\ OrderTtl \in Nat

NoFill == [reason |-> "NONE"]

\* Ticks carry whole points; an ask is not below its bid.
Tick == [msc : Nat, bid : Nat, ask : Nat]

Sides        == {"buy", "sell"}
PendingTypes == {"buy_stop", "sell_stop", "buy_limit", "sell_limit"}

\* A signal: pending, with a type and a level, or a market entry ("").
Signal == [side : Sides, type : PendingTypes \cup {""}, level : Nat, sl : Nat, tp : Nat, hold : Nat]

Quarter(points) == 4 * points

\* _stressed_prices: the spread is widened around the mid.
Bid(t) == 2 * (t.bid + t.ask) - SpreadHalves * (t.ask - t.bid)
Ask(t) == 2 * (t.bid + t.ask) + SpreadHalves * (t.ask - t.bid)

\* What the position is worth: the side of the book that closes it.
Mark(sig, t) == IF sig.side = "buy" THEN Bid(t) ELSE Ask(t)

Sign(sig) == IF sig.side = "buy" THEN 1 ELSE -1

First(S) == CHOOSE i \in S : \A j \in S : i <= j

\* bisect_left over times that never decrease: the ticks at or after a time.
AtOrAfter(ts, time) == {i \in DOMAIN ts : ts[i].msc >= time}

-----------------------------------------------------------------------------
(* Entry *)

\* A pending order triggers at touch, on the correct side of the book.
Touches(sig, t) ==
    \/ sig.type = "buy_stop"   /\ Ask(t) >= Quarter(sig.level)
    \/ sig.type = "sell_stop"  /\ Bid(t) <= Quarter(sig.level)
    \/ sig.type = "buy_limit"  /\ Ask(t) <= Quarter(sig.level)
    \/ sig.type = "sell_limit" /\ Bid(t) >= Quarter(sig.level)

\* The ticks an order may enter at.  The first of the decision's own
\* millisecond is one of them, whether the strategy has seen it or not.
Entries(ts, sig, decided, latency) ==
    IF sig.type = ""
    THEN AtOrAfter(ts, decided + latency)
    ELSE {i \in AtOrAfter(ts, decided) : ts[i].msc <= decided + OrderTtl /\ Touches(sig, ts[i])}

\* A market entry pays the spread and slips; a pending one gets its level.
EntryPrice(sig, t) ==
    IF sig.type # "" THEN Quarter(sig.level)
    ELSE IF sig.side = "buy" THEN Ask(t) + Quarter(Slippage)
    ELSE Bid(t) - Quarter(Slippage)

-----------------------------------------------------------------------------
(* Exit *)

\* Points gained, in quarters, at a price.
Gain(sig, entry, price) == Sign(sig) * (price - entry)

StopHit(sig, entry, t)   == Gain(sig, entry, Mark(sig, t)) <= -Quarter(sig.sl)
TargetHit(sig, entry, t) == Gain(sig, entry, Mark(sig, t)) >= Quarter(sig.tp)

\* max_hold_s, or 900 when it is zero, which no configuration allows.
Expired(sig, opened, t) == t.msc >= opened + sig.hold

\* The ticks that end the position, of those after its entry.
Exits(ts, sig, i, entry) ==
    {j \in (i + 1)..Len(ts) : \/ StopHit(sig, entry, ts[j])
                              \/ TargetHit(sig, entry, ts[j])
                              \/ Expired(sig, ts[i].msc, ts[j])}

\* The stop is looked at first, then the target, then the clock.
Closed(sig, i, entry, j, t) ==
    IF StopHit(sig, entry, t)
    THEN [entry |-> i, price |-> entry, exit |-> j, reason |-> "SL",
          paid |-> entry - Sign(sig) * Quarter(sig.sl)]
    ELSE IF TargetHit(sig, entry, t)
    THEN [entry |-> i, price |-> entry, exit |-> j, reason |-> "TP",
          paid |-> entry + Sign(sig) * Quarter(sig.tp)]
    ELSE [entry |-> i, price |-> entry, exit |-> j, reason |-> "TIME_STOP", paid |-> Mark(sig, t)]

Cut(ts, sig, i, entry) ==
    [entry |-> i, price |-> entry, exit |-> Len(ts), reason |-> "END_OF_DATA",
     paid |-> Mark(sig, ts[Len(ts)])]

MutantPosition(ts, sig, i, entry) ==
    LET exits == Exits(ts, sig, i, entry)
        last == CHOOSE j \in exits : \A k \in exits : k <= j
    IN  IF exits = {} THEN Cut(ts, sig, i, entry) ELSE Closed(sig, i, entry, last, ts[last])

Position(ts, sig, i, entry) ==
    LET exits == Exits(ts, sig, i, entry) IN
    IF exits = {} THEN Cut(ts, sig, i, entry)
                  ELSE Closed(sig, i, entry, First(exits), ts[First(exits)])

run_signal(ts, sig, decided, latency) ==
    LET entries == Entries(ts, sig, decided, latency) IN
    IF entries = {} THEN NoFill
    ELSE Position(ts, sig, First(entries), EntryPrice(sig, ts[First(entries)]))

\* The fill has ended, by its own rules and not for want of data.
Settled(fill) == fill.reason \in {"TP", "SL", "TIME_STOP"}

GrossPoints(sig, fill) == Gain(sig, fill.price, fill.paid)
=============================================================================
