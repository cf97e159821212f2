------------------------------ MODULE Council ------------------------------
(***************************************************************************)
(* Council.decide (consensus/council.py) and the gates it asks: the cost   *)
(* engine, the liquidity window, the sessions and the news calendar        *)
(* (cost/).  Distances and costs count tenths of a point, time counts      *)
(* minutes from a Monday 00:00 of the broker's server, scores hundredths.  *)
(***************************************************************************)
EXTENDS Integers, Sequences, FiniteSets

CONSTANTS
    KMultiple,   \* cost_gate.k_multiple, in tenths
    MinNetRR,    \* cost_gate.min_net_rr, in hundredths
    Commission,  \* round trip, in the symbol's points
    Slip,        \* slippage_points: the measured p50 or the prior
    SpreadCap,   \* max_spread_points
    MinSamples,  \* liquidity.MIN_SAMPLES
    Percentile,  \* spread_percentile_max
    HistoryDays,
    Sessions,    \* entry windows of the default scope, a set of records
    Rollover,    \* rollover_blackout
    FridayCutoff,
    NewsMargin,  \* impact -> minutes on either side of an event
    StaleAfter   \* stale_calendar_hours, in minutes

Day == 24 * 60

\* What the validators of the configuration let through: the hard floors of the
\* gate, a percentile, windows of HH:MM times, margins around the news.
CostGateCfg   == KMultiple \in Nat /\ KMultiple >= 30 /\ MinNetRR \in Nat /\ MinNetRR >= 80
LiquidityCfg  == Percentile \in 1..100 /\ HistoryDays \in Nat \ {0}
SessionWindow == [start : 0..(Day - 1), end : 0..(Day - 1)]
NewsBlackout  == NewsMargin \in [{"high", "medium"} -> Nat \ {0}] /\ StaleAfter \in Nat \ {0}

ASSUME CouncilConfig ==
    /\ CostGateCfg /\ LiquidityCfg /\ NewsBlackout
    /\ Sessions \subseteq SessionWindow /\ Rollover \in SessionWindow
    /\ Commission \in Nat /\ Slip \in Nat /\ SpreadCap \in Nat
    /\ MinSamples \in Nat \ {0}

MinuteOfDay(t) == t % Day
HourOf(t)      == MinuteOfDay(t) \div 60
Weekday(t)     == (t \div Day) % 7 \* 0 is Monday

-----------------------------------------------------------------------------
(* The cost gate: o is an order's idea, [sl, tp, spread, symbol] *)

CostOf(o) == o.spread + Commission + Slip

CostGateFails(o) == o.tp * 10 < KMultiple * CostOf(o)

\* With no cost and no stop there is nothing to divide by: the ratio is zero.
RRTooLow(o) ==
    IF o.sl + CostOf(o) > 0
    THEN (o.tp - CostOf(o)) * 100 < MinNetRR * (o.sl + CostOf(o))
    ELSE MinNetRR > 0

\* SpreadHistory: which samples are of the same hour and not too old.
SameHour(history, t) ==
    {i \in DOMAIN history : HourOf(history[i].at) = HourOf(t) /\ history[i].at >= t - HistoryDays * Day}

\* The value at a rank, from 0, of the sorted samples.
AtRank(history, same, k) ==
    history[CHOOSE i \in same :
              /\ Cardinality({j \in same : history[j].spread < history[i].spread}) <= k
              /\ Cardinality({j \in same : history[j].spread <= history[i].spread}) > k].spread

\* Linear interpolation between the two ranks, in hundredths.
percentile(history, same, pct) ==
    LET rank == pct * (Cardinality(same) - 1)
    IN  AtRank(history, same, rank \div 100) * (100 - (rank % 100))
          + AtRank(history, same, (rank + 99) \div 100) * (rank % 100)

\* Too few samples close the window.
LiquidityShut(o, history, t) ==
    LET same == SameHour(history, t)
    IN  Cardinality(same) < MinSamples \/ o.spread * 100 > percentile(history, same, Percentile)

\* A window that ends before it starts crosses midnight.
InWindow(minute, w) ==
    IF w.start <= w.end THEN w.start <= minute /\ minute < w.end
                        ELSE minute >= w.start \/ minute < w.end

check_session(t) ==
    IF InWindow(MinuteOfDay(t), Rollover) THEN "ROLLOVER_BLACKOUT"
    ELSE IF Weekday(t) = 4 /\ MinuteOfDay(t) >= FridayCutoff THEN "FRIDAY_CUTOFF"
    ELSE IF Weekday(t) < 5 /\ \E w \in Sessions : InWindow(MinuteOfDay(t), w) THEN ""
    ELSE "SESSION_BLOCKED"

\* NewsCalendar.status, of the time it is given: the events' times are UTC, the
\* cost engine passes the server's.
news_status(calendar, symbol, t) ==
    IF ~calendar.imported \/ t - calendar.at > StaleAfter THEN "NEWS_UNKNOWN_BLOCKED"
    ELSE IF \E e \in calendar.events :
              /\ e.currency \in symbol /\ e.impact \in DOMAIN NewsMargin
              /\ e.at - NewsMargin[e.impact] <= t /\ t <= e.at + NewsMargin[e.impact]
         THEN "NEWS_BLACKOUT"
    ELSE ""

\* CostEngine.evaluate: every reason, not the first.
evaluate_cost(o, history, calendar, t) ==
    {r \in {"COST_GATE_FAIL"} : CostGateFails(o)}
      \cup {r \in {"RR_TOO_LOW"} : RRTooLow(o)}
      \cup {r \in {"SPREAD_TOO_HIGH"} : o.spread > SpreadCap}
      \cup {r \in {"LIQUIDITY_WINDOW"} : LiquidityShut(o, history, t)}
      \cup ({check_session(t), news_status(calendar, o.symbol, t)} \ {""})

-----------------------------------------------------------------------------
(* The council *)

\* CouncilInputs, but for the signal: what the caller says of it.
Inputs == [integrity : 0..100, tickAge : Int, signalAge : Int, maxAge : Nat, exposed : BOOLEAN,
           quarantined : BOOLEAN, reliability : 0..100, slippageOk : BOOLEAN]

TickMaxAge == 500 \* ms

\* The hard gates on what the caller says; ages in ms.
Objections(in) ==
    {r \in {"DATA_STALE"} : in.integrity < 70 \/ in.tickAge \notin -TickMaxAge..TickMaxAge}
      \cup {r \in {"SIGNAL_TOO_OLD"} : in.signalAge > in.maxAge}
      \cup {r \in {"CONFLICTING_EXPOSURE"} : in.exposed}
      \cup {r \in {"STRATEGY_QUARANTINED"} : in.quarantined}

\* Headroom is tp over eight times the cost, at most one, and zero if the trade
\* costs nothing; it is the fraction Room/Full here.
Full(o) == IF CostOf(o) > 0 THEN 8 * CostOf(o) ELSE 1
Room(o) == IF CostOf(o) = 0 THEN 0 ELSE IF o.tp < Full(o) THEN o.tp ELSE Full(o)

\* The quality, in ten-thousandths, reaches a floor.
Reaches(o, in, floor) ==
    3500 * Room(o)
      + Full(o) * (30 * in.reliability + 20 * in.integrity + (IF in.slippageOk THEN 1500 ELSE 600))
    >= floor * Full(o)

Graded(o, in) ==
    IF Reaches(o, in, 6000) THEN "APPROVE"
    ELSE IF Reaches(o, in, 4500) THEN "APPROVE_REDUCED"
    ELSE IF Reaches(o, in, 3000) THEN "SHADOW_ONLY"
    ELSE "REJECT"

decide(o, in, history, calendar, t) ==
    IF evaluate_cost(o, history, calendar, t) \cup Objections(in) # {} THEN "REJECT"
    ELSE Graded(o, in)

MutantScanInputs(maxAge) ==
    [integrity |-> 95, tickAge |-> 0, signalAge |-> 0, maxAge |-> maxAge, exposed |-> FALSE,
     quarantined |-> FALSE, reliability |-> 0, slippageOk |-> TRUE]

\* What the scan tells the council of every signal it has just made (runtime.py):
\* the tick is the clock, nothing else is open.
ScanInputs(maxAge) ==
    [integrity |-> 95, tickAge |-> 0, signalAge |-> 0, maxAge |-> maxAge, exposed |-> FALSE,
     quarantined |-> FALSE, reliability |-> 50, slippageOk |-> TRUE]
=============================================================================
