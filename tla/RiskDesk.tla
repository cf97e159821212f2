------------------------------ MODULE RiskDesk ------------------------------
(***************************************************************************)
(* The risk commander and its guards (risk/), the persisted anchors and    *)
(* counters (core/anchors.py) and the preflight (execution/preflight.py)   *)
(* on the way of an order: size, evaluate, preflight, send, record.  Slots *)
(* are the threads on that way; the process may be killed at any moment    *)
(* and keeps what is on disk.  Nothing under src/ composes these parts;    *)
(* their docstrings and tests give the order of the calls.                 *)
(***************************************************************************)
EXTENDS Arming, Sizing, Sequences, FiniteSets, FiniteSetsExt, TLC

CONSTANTS
    Slots, Symbols,
    Quotes,   \* sizing requests
    Risk,     \* RiskConfig's limits, a record; windows and pauses in clock ticks
    Weight,   \* CorrelationsConfig.weight
    Bounds    \* what a behaviour may do: its time, fills, kills, equities, slippages, modes ...

\* The limits the configuration's validators let through, a tighter halt before a
\* looser one, and the weights of a pair of symbols.
Positive == Nat \ {0}
Limits ==
    {l \in [hour : Positive, rateDay : Positive, day : Positive, week : Positive, minute : Positive,
             dailyHalt : 1..1000, weeklyHalt : 1..2000, hardHalt : 1..3000,
             maxPositions : Positive, maxPerSymbol : Positive,
             maxOpenRisk : 1..500, maxWeightedRisk : Positive,
             hourCap : Positive, symbolHourCap : Positive, dayCap : Positive,
             lossLimit : Positive, lossWindow : Positive, pause : Positive,
             streakLimit : Positive, cooldown : Positive, antiChurn : Nat,
             fuseCap : Positive, slipWindow : Positive, slipBound : Nat,
             verdictAge : Nat, accountTtl : Nat] :
        l.dailyHalt < l.weeklyHalt /\ l.weeklyHalt < l.hardHalt}
Correlations == [Symbols -> [Symbols -> 0..100]]

\* What a bound may say; an order is sent once at least.
Courses == [time : Nat, busy : Nat, fills : Nat, sends : Positive, crashes : Nat,
            equity : SUBSET Positive, slips : SUBSET Nat, results : SUBSET {"win", "loss", "stop"},
            modes : SUBSET STRING, denials : BOOLEAN, arming : BOOLEAN,
            watch : SUBSET STRING, symbols : SUBSET Symbols]

ASSUME RiskDeskConfig ==
    /\ IsFiniteSet(Slots) /\ Slots # {}
    /\ Risk \in Limits /\ Quotes \subseteq Requests
    /\ Weight \in Correlations /\ \A y \in Symbols : Weight[y][y] = 100
    /\ Bounds \subseteq Courses

VARIABLES
    now,    \* the server's clock
    equity,
    disk,   \* anchors.json and counters.json, but for canary_fills
    mem,    \* what dies with the process
    broker, \* permission to trade, and every fill
    slot,   \* the order a thread has in hand
    since,  \* since when each veto has stood without a break
    real,   \* canary-sized fills there really were in LIVE_CANARY mode
    bound

riskVars == <<now, equity, disk, mem, broker, slot, real, bound>>
vars     == <<riskVars, armVars, canaryFills, since>>

Never == -1 \* no time
Ids   == DOMAIN broker.fills
Fill(i)  == broker.fills[i]
OpenIds  == {i \in Ids : Fill(i).state = "open"}
Idle     == [pc |-> "idle"]
Fresh(m) == [mode |-> m, sends |-> {}, blown |-> FALSE, after |-> 0,
             slips |-> [y \in Symbols |-> <<>>], tripped |-> {}, account |-> [ok |-> FALSE, expires |-> Never]]

InitDisk == [day |-> Never, week |-> Never, dayAnchor |-> Never, weekAnchor |-> Never,
             peak |-> Never, trades |-> {}, symTrades |-> {}, losses |-> {}, pauseUntil |-> 0,
             streak |-> [y \in Symbols |-> 0], coolUntil |-> [y \in Symbols |-> 0],
             stopout |-> [y \in Symbols |-> Never]]

-----------------------------------------------------------------------------
(* EquityAnchors *)

RollDay(d) ==
    IF d.day # now \div Risk.day
    THEN [d EXCEPT !.day = now \div Risk.day, !.dayAnchor = equity] ELSE d
RollWeek(d) ==
    IF d.week # now \div Risk.week
    THEN [d EXCEPT !.week = now \div Risk.week, !.weekAnchor = equity] ELSE d
RollPeak(d) == IF equity > d.peak THEN [d EXCEPT !.peak = equity] ELSE d

\* roll writes the file up to three times; a kill may leave the first ones.
Rolled == {RollDay(disk), RollWeek(RollDay(disk)), RollPeak(RollWeek(RollDay(disk)))}

\* status: without an anchor there is no loss.
LossFrac(anchor, eq) == IF anchor > eq THEN ((anchor - eq) * Whole) \div anchor ELSE 0
-----------------------------------------------------------------------------
(* The guards: what each of them rejects at time t. *)

Within(ids, t, window) == Cardinality({i \in ids : Fill(i).at >= t - window})
OfSymbol(ids, y) == {i \in ids : Fill(i).sym = y}

check_halts(kind, eq) ==
    \/ kind = "HARD_DRAWDOWN" /\ LossFrac(disk.peak, eq) >= Risk.hardHalt
    \/ kind = "WEEKLY_LOSS_HALT" /\ LossFrac(disk.weekAnchor, eq) >= Risk.weeklyHalt
    \/ kind = "DAILY_LOSS_HALT" /\ LossFrac(disk.dayAnchor, eq) >= Risk.dailyHalt

check_position_caps(y) ==
    \/ Cardinality(OpenIds) >= Risk.maxPositions
    \/ Cardinality(OfSymbol(OpenIds, y)) >= Risk.maxPerSymbol

check_open_risk(y, frac) ==
    \/ MapThenSumSet(LAMBDA i : Fill(i).frac, OpenIds) + frac > Risk.maxOpenRisk
    \/ MapThenSumSet(LAMBDA i : Fill(i).frac * Weight[y][Fill(i).sym], OpenIds) + frac * 100
         > Risk.maxWeightedRisk * 100

MutantTradeRate(y, t) ==
    \/ Within(disk.trades, t, Risk.hour) > Risk.hourCap
    \/ Within(OfSymbol(disk.symTrades, y), t, Risk.hour) > Risk.symbolHourCap
    \/ Within(disk.trades, t, Risk.rateDay) > Risk.dayCap

TradeRate(y, t) ==
    \/ Within(disk.trades, t, Risk.hour) >= Risk.hourCap
    \/ Within(OfSymbol(disk.symTrades, y), t, Risk.hour) >= Risk.symbolHourCap
    \/ Within(disk.trades, t, Risk.rateDay) >= Risk.dayCap

\* R lost in the window: every loss is one R here.
Lost(t) == Cardinality({i \in disk.losses : Fill(i).closed >= t - Risk.lossWindow})
LossVelocity(t) == t < disk.pauseUntil \/ Lost(t) >= Risk.lossLimit
MicroCooldown(y, t) == t < disk.coolUntil[y]
AntiChurn(y, t) == disk.stopout[y] # Never /\ t - disk.stopout[y] < Risk.antiChurn

\* A send is its time and its number among those of that time.
Recent(sends, t) == {x \in sends : x.at >= t - Risk.minute}
RecentSends(t) == Cardinality(Recent(mem.sends, t))
MutantOrderStorm(t) == RecentSends(t) >= Risk.fuseCap
OrderStorm(t) == mem.blown \/ RecentSends(t) >= Risk.fuseCap

Guards == {"HARD_DRAWDOWN", "WEEKLY_LOSS_HALT", "DAILY_LOSS_HALT", "MAX_POSITIONS", "HOURLY_CAP",
           "LOSS_VELOCITY_HALT", "MICRO_COOLDOWN", "ANTI_CHURN", "ORDER_STORM", "SLIPPAGE_BREAKER"}

Rejects(g, y, t, eq) ==
    \/ check_halts(g, eq)
    \/ g = "MAX_POSITIONS" /\ check_position_caps(y)
    \/ g = "HOURLY_CAP" /\ TradeRate(y, t)
    \/ g = "LOSS_VELOCITY_HALT" /\ LossVelocity(t)
    \/ g = "MICRO_COOLDOWN" /\ MicroCooldown(y, t)
    \/ g = "ANTI_CHURN" /\ AntiChurn(y, t)
    \/ g = "ORDER_STORM" /\ OrderStorm(t)
    \/ g = "SLIPPAGE_BREAKER" /\ y \in mem.tripped
-----------------------------------------------------------------------------
(* An order's way *)

MutantCanaryActive == mem.mode = "LIVE_CANARY" /\ canaryFills + 1 < CanaryFills
CanaryActive == mem.mode = "LIVE_CANARY" /\ canaryFills < CanaryFills

Keep == UNCHANGED <<now, equity, bound, armVars>>

RiskFrac(o) == (o.size.risk * Whole) \div o.eq

\* size_position; the time and the equity it is given go with the order.
Size(s, y, r) ==
    /\ slot[s].pc = "idle" /\ Len(broker.fills) < bound.fills
    /\ Cardinality({x \in Slots : slot[x].pc # "idle"}) < bound.busy
    /\ slot' = [slot EXCEPT ![s] =
                  [pc |-> "sized", sym |-> y, asOf |-> now, eq |-> equity, started |-> now,
                   size |-> size_position(r, equity, CanaryActive, 0)]]
    /\ UNCHANGED <<disk, mem, broker, real, canaryFills>> /\ Keep

MutantApproved(o) ==
    /\ o.size.ok
    /\ \A g \in Guards \ {"HARD_DRAWDOWN", "WEEKLY_LOSS_HALT", "DAILY_LOSS_HALT"} :
          ~Rejects(g, o.sym, o.asOf, o.eq)
    /\ ~check_open_risk(o.sym, RiskFrac(o))

\* evaluate: the whole chain, at the order's time and equity.
Approved(o) ==
    /\ o.size.ok
    /\ \A g \in Guards : ~Rejects(g, o.sym, o.asOf, o.eq)
    /\ ~check_open_risk(o.sym, RiskFrac(o))

\* Two of the checks write: a pause begins, the fuse latches.
Evaluate(s) ==
    LET o == slot[s] IN
    /\ o.pc = "sized"
    /\ slot' = [slot EXCEPT ![s] = IF Approved(o) THEN [o EXCEPT !.pc = "judged"] ELSE Idle]
    /\ disk' = [disk EXCEPT !.pauseUntil =
                  IF o.asOf >= @ /\ LossVelocity(o.asOf) THEN o.asOf + Risk.pause ELSE @]
    /\ mem' = [mem EXCEPT !.blown = OrderStorm(o.asOf)]
    /\ UNCHANGED <<broker, real, canaryFills>> /\ Keep

\* Preflight.run and _account: the server's time is the caller's argument, taken
\* before the account is asked for.
Preflight(s) ==
    /\ slot[s].pc = "judged"
    /\ slot' = [slot EXCEPT ![s].started = now,
                            ![s].pc = IF mem.account.expires < now THEN "asking" ELSE "gates"]
    /\ UNCHANGED <<disk, mem, broker, real, canaryFills>> /\ Keep

MutantAccountAnswers(s) ==
    /\ slot[s].pc = "asking"
    /\ slot' = [slot EXCEPT ![s].pc = "gates"]
    /\ mem' = [mem EXCEPT !.account = [ok |-> broker.perm \/ @.ok,
                                       expires |-> slot[s].started + Risk.accountTtl]]
    /\ UNCHANGED <<disk, broker, real, canaryFills>> /\ Keep

\* account_info, through the gateway's queue; the entry expires by the time it
\* was asked for.  No account is cached as such.
AccountAnswers(s) ==
    /\ slot[s].pc = "asking"
    /\ slot' = [slot EXCEPT ![s].pc = "gates"]
    /\ mem' = [mem EXCEPT !.account = [ok |-> broker.perm,
                                       expires |-> slot[s].started + Risk.accountTtl]]
    /\ UNCHANGED <<disk, broker, real, canaryFills>> /\ Keep

MutantMayCheck(o) == mem.account.ok /\ mem.mode # "SHADOW"

\* The reasons run collects, but for the tick, the cost gate and the key.
MayCheck(o) ==
    /\ mem.account.ok /\ mem.mode # "SHADOW"
    /\ o.started - o.asOf <= Risk.verdictAge

Gates(s) ==
    /\ slot[s].pc = "gates"
    /\ slot' = [slot EXCEPT ![s] = IF MayCheck(@) THEN [@ EXCEPT !.pc = "checking"] ELSE Idle]
    /\ UNCHANGED <<disk, mem, broker, real, canaryFills>> /\ Keep

\* order_check answers 0: the preflight has passed.
OrderChecked(s) ==
    /\ slot[s].pc = "checking"
    /\ slot' = [slot EXCEPT ![s].pc = "passed"]
    /\ UNCHANGED <<disk, mem, broker, real, canaryFills>> /\ Keep

\* A stale tick, a dear spread, a key in use, a failed check, a timed-out call.
Abandon(s) ==
    /\ slot[s].pc \in {"asking", "gates", "checking"}
    /\ slot' = [slot EXCEPT ![s] = Idle]
    /\ UNCHANGED <<disk, mem, broker, real, canaryFills>> /\ Keep

\* execute_market asks the fuse once, before its first send.
Enter(s) ==
    /\ slot[s].pc = "passed"
    /\ slot' = [slot EXCEPT ![s] = IF OrderStorm(now) THEN Idle
                                   ELSE [pc |-> "sending", sym |-> @.sym, sends |-> 0,
                                         size |-> @.size, frac |-> RiskFrac(@)]]
    /\ mem' = [mem EXCEPT !.blown = OrderStorm(now)]
    /\ UNCHANGED <<disk, broker, real, canaryFills>> /\ Keep

\* record_send drops what is older than a minute, and latches; after counts the
\* sends made since the fuse blew.
Counted ==
    LET one == [at |-> now, nr |-> Cardinality({x \in mem.sends : x.at = now})]
        sends == Recent(mem.sends \cup {one}, now)
    IN  [mem EXCEPT !.sends = sends, !.blown = @ \/ Cardinality(sends) >= Risk.fuseCap,
                    !.after = IF mem.blown THEN @ + 1 ELSE @]

\* The broker refuses, or asks for another price and the engine tries again.
SendFails(s) ==
    /\ slot[s].pc = "sending"
    /\ mem' = Counted
    /\ slot' \in {[slot EXCEPT ![s] = Idle]}
         \cup IF slot[s].sends + 1 < bound.sends
              THEN {[slot EXCEPT ![s].sends = @ + 1]} ELSE {}
    /\ UNCHANGED <<disk, broker, real, canaryFills>> /\ Keep

\* percentile(bucket, 90), in tenths of a hundredth.
P90(seq) ==
    LET sorted == SortSeq(seq, <)
        rank == 90 * (Len(seq) - 1)
        at(k) == sorted[1 + k]
    IN  at(rank \div 100) * (100 - (rank % 100))
          + at((rank + 99) \div 100) * (rank % 100)

\* SlippageBreaker.record_fill: the last window_fills samples, when full.
Slipped(m, y, points) ==
    LET all == Append(m.slips[y], points)
        kept == SubSeq(all, Len(all) - Min({Len(all), Risk.slipWindow}) + 1, Len(all))
    IN  [m EXCEPT !.slips[y] = kept,
                  !.tripped = IF Len(kept) >= Risk.slipWindow /\ P90(kept) > Risk.slipBound * 100
                              THEN @ \cup {y} ELSE @]

\* The order fills; its slippage goes to the breaker.
SendFills(s) ==
    LET o == slot[s] IN
    /\ o.pc = "sending" /\ Len(broker.fills) < bound.fills
    /\ \E points \in bound.slips : mem' = Slipped(Counted, o.sym, points)
    /\ broker' = [broker EXCEPT !.fills =
                    Append(@, [sym |-> o.sym, at |-> now, frac |-> o.frac,
                               state |-> "open", closed |-> Never, result |-> "none"])]
    /\ slot' = [slot EXCEPT ![s] = [pc |-> "filled", size |-> o.size, id |-> Len(broker.fills) + 1]]
    /\ real' = IF o.size.canary THEN real + 1 ELSE real
    /\ UNCHANGED <<disk, canaryFills>> /\ Keep

MutantRecordGlobal(s) ==
    /\ slot[s].pc = "filled"
    /\ slot' = [slot EXCEPT ![s].pc = "recorded"]
    /\ UNCHANGED <<disk, mem, broker, real, canaryFills>> /\ Keep

\* record_fill: two buckets of the counters file, one after the other ...
RecordGlobal(s) ==
    /\ slot[s].pc = "filled"
    /\ disk' = [disk EXCEPT !.trades = @ \cup {slot[s].id}]
    /\ slot' = [slot EXCEPT ![s].pc = "recorded"]
    /\ UNCHANGED <<mem, broker, real, canaryFills>> /\ Keep

RecordSymbol(s) ==
    /\ slot[s].pc = "recorded"
    /\ disk' = [disk EXCEPT !.symTrades = @ \cup {slot[s].id}]
    /\ slot' = [slot EXCEPT ![s] = IF CanaryActive THEN [pc |-> "canary", size |-> @.size] ELSE Idle]
    /\ UNCHANGED <<mem, broker, real, canaryFills>> /\ Keep

\* ... then, if the canary is still active, its count is read and written back:
\* of two such writes the later one wins.
ReadCanary(s) ==
    /\ slot[s].pc = "canary"
    /\ slot' = [slot EXCEPT ![s] = [pc |-> "counting", size |-> @.size, seen |-> canaryFills]]
    /\ UNCHANGED <<disk, mem, broker, real, canaryFills>> /\ Keep

CountCanary(s) ==
    /\ slot[s].pc = "counting"
    /\ canaryFills' = slot[s].seen + 1
    /\ slot' = [slot EXCEPT ![s] = Idle]
    /\ UNCHANGED <<disk, mem, broker, real>> /\ Keep
-----------------------------------------------------------------------------
(* A position's end *)

Close(i) ==
    /\ Fill(i).state = "open"
    /\ \E result \in bound.results :
          broker' = [broker EXCEPT !.fills[i] =
                       [@ EXCEPT !.state = "closed", !.result = result, !.closed = now]]
    /\ UNCHANGED <<disk, mem, slot, real, canaryFills>> /\ Keep

\* record_close: the loss, then the streak and the stop-out; a kill between the
\* two leaves the first.
RecordLoss(i) ==
    /\ Fill(i).state = "closed"
    /\ broker' = [broker EXCEPT !.fills[i].state = "half"]
    /\ disk' = IF Fill(i).result = "win" THEN disk ELSE [disk EXCEPT !.losses = @ \cup {i}]
    /\ UNCHANGED <<mem, slot, real, canaryFills>> /\ Keep

RecordStreak(i) ==
    LET f == Fill(i)
        streak == IF f.result = "win" THEN 0 ELSE disk.streak[f.sym] + 1
        cools == streak >= Risk.streakLimit
    IN
    /\ f.state = "half"
    /\ broker' = [broker EXCEPT !.fills[i].state = "over"]
    /\ disk' = [disk EXCEPT
                  !.streak[f.sym] = IF cools THEN 0 ELSE streak,
                  !.coolUntil[f.sym] = IF cools THEN f.closed + Risk.cooldown ELSE @,
                  !.stopout[f.sym] = IF f.result = "stop" THEN f.closed ELSE @]
    /\ UNCHANGED <<mem, slot, real, canaryFills>> /\ Keep
-----------------------------------------------------------------------------
(* What happens around it *)

Roll ==
    /\ disk' = RollPeak(RollWeek(RollDay(disk))) /\ disk' # disk
    /\ UNCHANGED <<mem, broker, slot, real, canaryFills>> /\ Keep

\* A kill, possibly in the middle of roll, and a restart in any mode.
Restart ==
    /\ bound.crashes > 0 /\ bound' = [bound EXCEPT !.crashes = @ - 1]
    /\ disk' \in Rolled \cup {disk}
    /\ \E m \in bound.modes : mem' = Fresh(m)
    /\ slot' = [s \in Slots |-> Idle]
    /\ UNCHANGED <<now, equity, broker, real, canaryFills, armVars>>

\* The server's clock, the market's effect on equity, the broker's permission.
Tick == now < bound.time /\ now' = now + 1 /\ UNCHANGED <<equity, broker>>
Market ==
    \/ equity' \in bound.equity \ {equity} /\ UNCHANGED <<now, broker>>
    \/ bound.denials /\ broker' = [broker EXCEPT !.perm = ~@] /\ UNCHANGED <<now, equity>>
World == (Tick \/ Market) /\ UNCHANGED <<disk, mem, slot, real, canaryFills, bound, armVars>>
-----------------------------------------------------------------------------
Order(s) ==
    \/ \E y \in bound.symbols, r \in Quotes : Size(s, y, r)
    \/ Evaluate(s) \/ Preflight(s) \/ AccountAnswers(s) \/ Gates(s) \/ OrderChecked(s)
    \/ Abandon(s) \/ Enter(s) \/ SendFails(s) \/ SendFills(s)
    \/ RecordGlobal(s) \/ RecordSymbol(s) \/ ReadCanary(s) \/ CountCanary(s)

Step ==
    \/ \E s \in Slots : Order(s)
    \/ \E i \in Ids : Close(i) \/ RecordLoss(i) \/ RecordStreak(i)
    \/ Roll \/ Restart \/ World
    \/ bound.arming /\ Ceremony /\ UNCHANGED riskVars

\* Vetoes whose beginning is remembered: a guard and a symbol, or the broker's
\* refusal to let the account trade.
Vetoes == {<<g, y>> : g \in Guards, y \in Symbols} \cup {<<"TRADE_NOT_ALLOWED", y>> : y \in Symbols}
Stands(v) == IF v[1] = "TRADE_NOT_ALLOWED" THEN ~broker.perm
             ELSE Rejects(v[1], v[2], now, equity)

Watch == since' = [v \in Vetoes |-> IF v[1] \notin bound.watch \/ ~Stands(v)' THEN Never
                                    ELSE IF since[v] = Never THEN now' ELSE since[v]]

RiskInit ==
    /\ ArmingInit
    /\ bound \in Bounds
    /\ now = 0 /\ equity \in bound.equity
    /\ disk = InitDisk
    /\ \E m \in bound.modes : mem = Fresh(m)
    /\ broker = [perm |-> TRUE, fills |-> <<>>]
    /\ slot = [s \in Slots |-> Idle]
    /\ since = [v \in Vetoes |-> Never]
    /\ real = 0

RiskNext == Step /\ Watch
RiskSpec == RiskInit /\ [][RiskNext]_vars
-----------------------------------------------------------------------------
Passed == {s \in Slots : slot[s].pc = "passed"}

\* A veto that has stood without a break, across restarts too where its state is
\* on disk, stops every order within the age a verdict may have; the broker's
\* withdrawal of permission within the age of the account cache.
VetoesBite ==
    \A s \in Passed, v \in Vetoes :
        v[2] = slot[s].sym /\ since[v] # Never =>
            slot[s].started - since[v]
              <= IF v[1] = "TRADE_NOT_ALLOWED" THEN Risk.accountTtl ELSE Risk.verdictAge

\* The caps are checked before the order and counted after the fill: they may be
\* exceeded, but by no more than the threads on the way, and by the fills whose
\* record a kill lost.
LostRecords == {i \in Ids \ disk.trades : \A s \in Slots : slot[s].pc = "filled" => slot[s].id # i}
CapsOvershootBySlots ==
    /\ Cardinality(OpenIds) < Risk.maxPositions + Cardinality(Slots)
    /\ MapThenSumSet(LAMBDA i : Fill(i).frac, OpenIds)
         <= Risk.maxOpenRisk + (Cardinality(Slots) - 1) * MaxRiskPerTrade
    /\ \A t \in 0..now :
          Cardinality({i \in Ids \ LostRecords : Fill(i).at \in t..(t + Risk.hour)})
            < Risk.hourCap + Cardinality(Slots)

\* A blown fuse stays blown: what a process still sends comes from the threads
\* that asked the fuse before, and is within their budgets, retries included.
SendsAreFused == mem.after < Cardinality(Slots) * bound.sends

\* In LIVE_CANARY an order is sized above the minimal lot, and a token says LIVE,
\* only after canary_fills minimal-lot fills, though the count of them is read and
\* written by several threads and a kill may lose some.
FullSizeIsEarned ==
    \/ real >= CanaryFills
    \/ /\ \A s \in Slots : slot[s].pc # "idle" /\ mem.mode = "LIVE_CANARY" => slot[s].size.canary
       /\ token \in Live => token.mode # "LIVE"

Pcs == {"idle", "sized", "judged", "asking", "gates", "checking", "passed", "sending", "filled",
        "recorded", "canary", "counting"}
RiskTypeOK ==
    /\ ArmingTypeOK
    /\ now \in Nat /\ equity \in Nat \ {0} /\ real \in Nat
    /\ \A s \in Slots : slot[s].pc \in Pcs
    /\ disk.trades \subseteq Ids /\ disk.symTrades \subseteq disk.trades
    /\ disk.losses \subseteq {i \in Ids : Fill(i).result \in {"loss", "stop"}}
    /\ mem.tripped \subseteq Symbols
=============================================================================
