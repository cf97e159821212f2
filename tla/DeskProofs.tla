----------------------------- MODULE DeskProofs -----------------------------
(***************************************************************************)
(* The council's grades and gates, and the backtester's ignorance of later *)
(* ticks, for every configuration, signal and series of ticks.             *)
(***************************************************************************)
EXTENDS Desk, WellFoundedInduction, FiniteSetTheorems, TLAPS

-----------------------------------------------------------------------------
(* The council *)

Trade == [sl : Nat, tp : Nat, spread : Nat, symbol : SUBSET STRING]

\* In the scan (runtime.py) a trade that costs anything and passes the cost gate
\* is approved outright, whatever k the configuration has: the two verdicts in
\* between are never given.
THEOREM NothingBetween ==
  ASSUME NEW o \in Trade, CostOf(o) > 0, NEW age \in Nat, NEW history, NEW calendar, NEW t
  PROVE  decide(o, ScanInputs(age), history, calendar, t) \in {"APPROVE", "REJECT"}
<1>1. CASE CostGateFails(o)
  BY <1>1 DEF decide, evaluate_cost
<1>2. CASE ~CostGateFails(o)
  <2> DEFINE c == CostOf(o)
  <2>1. c \in Nat /\ c > 0 /\ o.tp \in Nat
    BY CouncilConfig DEF CostGateCfg, CostOf, Trade
  <2>2. o.tp * 10 >= KMultiple * c
    BY <1>2, <2>1, CouncilConfig DEF CostGateCfg, CostGateFails
  <2>3. KMultiple * c >= 30 * c
    BY <2>1, CouncilConfig DEF CostGateCfg
  <2>4. o.tp >= 3 * c
    BY <2>1, <2>2, <2>3, CouncilConfig DEF CostGateCfg
  <2>5. Full(o) = 8 * c /\ Room(o) \in Nat /\ Room(o) >= 3 * c
    BY <2>1, <2>4 DEF Full, Room
  <2>6. Reaches(o, ScanInputs(age), 6000)
    BY <2>1, <2>5 DEF Reaches, ScanInputs
  <2> QED
    BY <2>6 DEF decide, Graded
<1> QED
  BY <1>1, <1>2

\* The strategies that aim at twice their stop, as all that originate do
\* (fast_family.py), never fail the net reward-to-risk gate alone: with k at 4 and
\* the floor at 1, as shipped, the cost gate has refused the trade already.
THEOREM CostGateCoversRR ==
  ASSUME NEW o \in Trade, o.tp = 2 * o.sl, o.sl > 0, KMultiple >= 40, MinNetRR <= 100
  PROVE  RRTooLow(o) => CostGateFails(o)
<1> DEFINE c == CostOf(o)
<1>1. c \in Nat /\ o.tp \in Nat /\ o.sl \in Nat
  BY CouncilConfig DEF CostGateCfg, CostOf, Trade
<1>2. SUFFICES ASSUME ~CostGateFails(o)
               PROVE  ~RRTooLow(o)
  OBVIOUS
<1>3. KMultiple * c >= 40 * c
  BY <1>1, CouncilConfig DEF CostGateCfg
<1>4. o.sl >= 2 * c
  BY <1>1, <1>2, <1>3, CouncilConfig DEF CostGateCfg, CostGateFails
<1>5. MinNetRR * (o.sl + c) <= 100 * (o.sl + c)
  BY <1>1, CouncilConfig DEF CostGateCfg
<1> QED
  BY <1>1, <1>4, <1>5, CouncilConfig DEF CostGateCfg, RRTooLow

-----------------------------------------------------------------------------
(* The backtester *)

LEMMA LeastExists ==
  ASSUME NEW S \in SUBSET Nat, S # {}
  PROVE  First(S) \in S /\ \A j \in S : First(S) <= j
<1>1. \E x \in S : \A y \in S : ~(<<y, x>> \in OpToRel(<, Nat))
  BY NatLessThanWellFounded, WFMin
<1>2. \E i \in S : \A j \in S : i <= j
  <2>1. PICK x \in S : \A y \in S : ~(<<y, x>> \in OpToRel(<, Nat))
    BY <1>1
  <2>2. ASSUME NEW j \in S
        PROVE  x <= j
    <3>1. x \in Nat /\ j \in Nat /\ <<j, x>> \in Nat \X Nat
      OBVIOUS
    <3>2. ~(j < x)
      BY <2>1, <3>1 DEF OpToRel
    <3> QED BY <3>1, <3>2
  <2> QED BY <2>2
<1> QED
  BY <1>2 DEF First

\* What comes after a first index does not change it.
LEMMA FirstStays ==
  ASSUME NEW S \in SUBSET Nat, S # {}, NEW T \in SUBSET Nat, S \subseteq T,
         \A i \in S, j \in T \ S : i < j
  PROVE  First(T) = First(S)
<1>1. First(S) \in S /\ \A j \in S : First(S) <= j
  BY LeastExists
<1>2. First(T) \in T /\ \A j \in T : First(T) <= j
  BY LeastExists
<1>3. First(S) \in Nat /\ First(T) \in Nat /\ First(T) <= First(S)
  BY <1>1, <1>2
<1>4. First(T) \in S
  <2>1. First(T) \in T \ S => First(S) < First(T)
    BY <1>1
  <2> QED BY <1>2, <1>3, <2>1
<1>5. First(S) <= First(T)
  BY <1>1, <1>4
<1> QED
  BY <1>3, <1>5

LEMMA OneMore ==
  ASSUME NEW S, NEW ts \in Seq(S), NEW t \in S
  PROVE  LET us == Append(ts, t) IN
         /\ Len(ts) \in Nat /\ DOMAIN ts = 1..Len(ts)
         /\ Len(us) = Len(ts) + 1 /\ DOMAIN us = 1..(Len(ts) + 1)
         /\ us \in Seq(S) /\ us[Len(ts) + 1] = t
         /\ \A i \in 1..Len(ts) : us[i] = ts[i]
OBVIOUS

LEMMA EntriesStay ==
  ASSUME NEW ts \in Seq(Tick), NEW t \in Tick, NEW sig, NEW decided, NEW latency
  PROVE  LET was == Entries(ts, sig, decided, latency)
             is == Entries(Append(ts, t), sig, decided, latency) IN
         was \subseteq 1..Len(ts) /\ was \subseteq is /\ is \ was \subseteq {Len(ts) + 1}
<1> DEFINE us == Append(ts, t)
           may(qs, i) == IF sig.type = "" THEN qs[i].msc >= decided + latency
                         ELSE /\ qs[i].msc >= decided
                              /\ qs[i].msc <= decided + OrderTtl /\ Touches(sig, qs[i])
<1>1. /\ Entries(ts, sig, decided, latency) = {i \in DOMAIN ts : may(ts, i)}
      /\ Entries(us, sig, decided, latency) = {i \in DOMAIN us : may(us, i)}
  BY DEF Entries, AtOrAfter
<1>2. /\ DOMAIN ts = 1..Len(ts) /\ Len(ts) \in Nat /\ DOMAIN us = 1..(Len(ts) + 1)
      /\ \A i \in 1..Len(ts) : us[i] = ts[i]
  BY OneMore
<1>3. \A i \in 1..Len(ts) : may(us, i) = may(ts, i)
  BY <1>2
<1> HIDE DEF us, may
<1> QED
  BY <1>1, <1>2, <1>3 DEF us

LEMMA ExitsStay ==
  ASSUME NEW ts \in Seq(Tick), NEW t \in Tick, NEW sig, NEW i \in 1..Len(ts), NEW entry
  PROVE  LET was == Exits(ts, sig, i, entry)
             is == Exits(Append(ts, t), sig, i, entry) IN
         was \subseteq 1..Len(ts) /\ was \subseteq is /\ is \ was \subseteq {Len(ts) + 1}
BY OneMore DEF Exits

\* A settled fill is the same with one tick more.
LEMMA SettledStays ==
  ASSUME NEW ts \in Seq(Tick), NEW t \in Tick, NEW sig, NEW decided, NEW latency,
         Settled(run_signal(ts, sig, decided, latency))
  PROVE  run_signal(Append(ts, t), sig, decided, latency) = run_signal(ts, sig, decided, latency)
<1> DEFINE us == Append(ts, t)
           was == Entries(ts, sig, decided, latency)
           is == Entries(us, sig, decided, latency)
           i == First(was)
           entry == EntryPrice(sig, ts[i])
           out == Exits(ts, sig, i, entry)
           outs == Exits(us, sig, i, entry)
<1>0. Len(ts) \in Nat /\ \A k \in 1..Len(ts) : us[k] = ts[k]
  BY OneMore
<1>1. was # {}
  BY DEF run_signal, Settled, NoFill
<1>2. was \subseteq 1..Len(ts) /\ was \subseteq is /\ is \ was \subseteq {Len(ts) + 1}
  BY EntriesStay
<1>3. i \in was /\ First(is) = i
  <2> HIDE DEF was, is
  <2>1. was \in SUBSET Nat /\ is \in SUBSET Nat /\ \A k \in was, j \in is \ was : k < j
    BY <1>0, <1>2
  <2> QED BY <1>1, <1>2, <2>1, LeastExists, FirstStays
<1>4. i \in 1..Len(ts) /\ us[i] = ts[i]
  BY <1>0, <1>2, <1>3
<1>5. run_signal(ts, sig, decided, latency) = Position(ts, sig, i, entry)
  BY <1>1 DEF run_signal
<1>6. run_signal(us, sig, decided, latency) = Position(us, sig, i, entry)
  BY <1>1, <1>2, <1>3, <1>4 DEF run_signal
<1>7. out # {}
  BY <1>5 DEF Position, Cut, Settled
<1>8. out \subseteq 1..Len(ts) /\ out \subseteq outs /\ outs \ out \subseteq {Len(ts) + 1}
  <2> HIDE DEF i, entry
  <2> QED BY <1>4, ExitsStay
<1>9. First(out) \in out /\ First(outs) = First(out)
  <2> HIDE DEF out, outs
  <2>1. out \in SUBSET Nat /\ outs \in SUBSET Nat /\ \A k \in out, j \in outs \ out : k < j
    BY <1>0, <1>8
  <2> QED BY <1>7, <1>8, <2>1, LeastExists, FirstStays
<1>10. us[First(out)] = ts[First(out)]
  BY <1>0, <1>8, <1>9
<1>11. Position(us, sig, i, entry) = Position(ts, sig, i, entry)
  BY <1>7, <1>8, <1>9, <1>10 DEF Position
<1> QED
  BY <1>5, <1>6, <1>11

\* What the scan has recorded are ticks.
Recorded == bound \in DOMAIN Bounds /\ ticks \in Seq(Tick)

LEMMA OneTickAtATime ==
  ASSUME Recorded, [DeskNext]_vars
  PROVE  bound' = bound /\ (ticks' = ticks \/ \E t \in Tick : ticks' = Append(ticks, t))
<1>1. ASSUME NEW t \in May.quotes, Deliver(t)
      PROVE  bound' = bound /\ t \in Tick /\ ticks' = Append(ticks, t)
  BY <1>1, DeskConfig DEF Recorded, May, Deliver, on_tick
<1>2. CASE RunStrategy \/ SeeSignal \/ AppendSignal \/ Decide \/ AppendDecision \/ AppendRaises
  BY <1>2 DEF RunStrategy, SeeSignal, AppendSignal, Decide, AppendDecision, AppendRaises
<1>3. CASE ReadSignals \/ ReadDecisions \/ SumUp \/ StopGateway \/ CloseLedger \/ Kill
  BY <1>3 DEF ReadSignals, ReadDecisions, SumUp, StopGateway, CloseLedger, Kill
<1>4. CASE Load \/ Walk
  BY <1>4 DEF Load, Walk, scanVars
<1>5. CASE UNCHANGED vars
  BY <1>5 DEF vars, scanVars
<1> QED
  BY <1>1, <1>2, <1>3, <1>4, <1>5 DEF DeskNext, Scan

\* For every signal, latency and series of ticks, a position that has ended by its
\* own rules stays as it is whatever ticks follow: neither its entry nor its exit
\* uses a later one (tick_engine.py: "No look-ahead").
THEOREM LaterTicksDoNotMatter == DeskSpec => NoLookAhead
<1>1. DeskInit => Recorded
  BY DEF DeskInit, Recorded
<1>2. Recorded /\ [DeskNext]_vars => Recorded'
  BY OneTickAtATime DEF Recorded
<1>3. Recorded /\ [DeskNext]_vars =>
        [ticks' # ticks =>
          \A sig \in Signals, d \in DOMAIN ticks, latency \in Latencies :
             LET before == run_signal(ticks, sig, ticks[d].msc, latency) IN
             Settled(before) => run_signal(ticks', sig, ticks[d].msc, latency) = before]_ticks
  <2> SUFFICES ASSUME Recorded, [DeskNext]_vars, ticks' # ticks,
                      NEW sig \in Signals, NEW d \in DOMAIN ticks, NEW latency \in Latencies,
                      Settled(run_signal(ticks, sig, ticks[d].msc, latency))
               PROVE  run_signal(ticks', sig, ticks[d].msc, latency)
                        = run_signal(ticks, sig, ticks[d].msc, latency)
    OBVIOUS
  <2>1. PICK t \in Tick : ticks' = Append(ticks, t)
    BY OneTickAtATime
  <2>2. ticks \in Seq(Tick)
    BY DEF Recorded
  <2> QED
    BY <2>1, <2>2, SettledStays
<1> QED
  BY <1>1, <1>2, <1>3, PTL DEF DeskSpec, NoLookAhead

-----------------------------------------------------------------------------
(* The walk *)

Reasons == {"SL", "TP", "TIME_STOP", "END_OF_DATA"}
Fill    == [entry : Nat, price : Int, exit : Nat, reason : Reasons, paid : Int]
Filled  == [sig : Signals, fill : Fill]

LEMMA Prices ==
  ASSUME NEW t \in Tick, NEW sig \in Signal
  PROVE  Bid(t) \in Int /\ Ask(t) \in Int /\ Mark(sig, t) \in Int /\ EntryPrice(sig, t) \in Int
<1>1. t.msc \in Nat /\ t.bid \in Nat /\ t.ask \in Nat /\ sig.level \in Nat
  BY DEF Tick, Signal
<1>2. SpreadHalves \in Nat /\ Slippage \in Nat
  BY BacktestConfig
<1>3. Bid(t) \in Int /\ Ask(t) \in Int
  BY <1>1, <1>2 DEF Bid, Ask
<1>4. Quarter(sig.level) \in Int /\ Quarter(Slippage) \in Int
  BY <1>1, <1>2 DEF Quarter
<1>5. Ask(t) + Quarter(Slippage) \in Int /\ Bid(t) - Quarter(Slippage) \in Int
  BY <1>3, <1>4
<1>6. Mark(sig, t) \in Int
  BY <1>3 DEF Mark
<1>7. EntryPrice(sig, t) \in {Quarter(sig.level), Ask(t) + Quarter(Slippage), Bid(t) - Quarter(Slippage)}
  BY DEF EntryPrice
<1> QED
  BY <1>3, <1>4, <1>5, <1>6, <1>7

LEMMA Signs ==
  ASSUME NEW sig \in Signal, NEW q \in Int, NEW e \in Int
  PROVE  /\ Sign(sig) \in Int
         /\ e - Sign(sig) * q \in Int /\ Sign(sig) * ((e - Sign(sig) * q) - e) = -q
         /\ e + Sign(sig) * q \in Int /\ Sign(sig) * ((e + Sign(sig) * q) - e) = q
<1>1. CASE sig.side = "buy"
  <2>1. Sign(sig) = 1
    BY <1>1 DEF Sign
  <2> QED BY <2>1
<1>2. CASE sig.side # "buy"
  <2>1. Sign(sig) = -1
    BY <1>2 DEF Sign
  <2> QED BY <2>1
<1> QED
  BY <1>1, <1>2

\* What a position pays, and that no loss exceeds the stop while a tick follows
\* the entry.
LEMMA PositionSound ==
  ASSUME NEW ts \in Seq(Tick), NEW sig \in Signal, NEW i \in 1..Len(ts), NEW entry \in Int
  PROVE  LET f == Position(ts, sig, i, entry) IN
         /\ f \in Fill /\ f.entry = i /\ f.exit \in 1..Len(ts)
         /\ GrossPoints(sig, f) < -Quarter(sig.sl) => i = Len(ts)
<1> DEFINE out == Exits(ts, sig, i, entry)
           j == First(out)
<1> DEFINE stop == Quarter(sig.sl)
           target == Quarter(sig.tp)
<1>1. Len(ts) \in Nat /\ \A k \in 1..Len(ts) : ts[k] \in Tick
  OBVIOUS
<1>2. stop \in Nat /\ target \in Nat
  <2>1. sig.sl \in Nat /\ sig.tp \in Nat
    BY DEF Signal
  <2> QED BY <2>1 DEF Quarter
<1>3. \A k \in 1..Len(ts) : Mark(sig, ts[k]) \in Int
  BY <1>1, Prices
<1>4. CASE out = {}
  <2> DEFINE paid == Mark(sig, ts[Len(ts)])
             f == [entry |-> i, price |-> entry, exit |-> Len(ts), reason |-> "END_OF_DATA", paid |-> paid]
  <2>1. Position(ts, sig, i, entry) = f
    BY <1>4 DEF Position, Cut
  <2>2. Len(ts) \in 1..Len(ts) /\ paid \in Int
    BY <1>1, <1>3
  <2>3. i # Len(ts) => ~(Gain(sig, entry, paid) <= -stop)
    <3>1. i # Len(ts) => Len(ts) \in (i + 1)..Len(ts)
      BY <1>1
    <3> QED BY <1>4, <3>1 DEF Exits, StopHit
  <2>4. Gain(sig, entry, paid) \in Int
    <3> HIDE DEF paid
    <3>1. Sign(sig) \in Int
      BY Signs
    <3> QED BY <2>2, <3>1 DEF Gain
  <2> HIDE DEF paid
  <2>5. f \in Fill /\ f.entry = i /\ f.exit = Len(ts) /\ f.price = entry /\ f.paid = paid
    <3>1. i \in Nat /\ Len(ts) \in Nat
      BY <1>1
    <3>2. f \in Fill
      BY <2>2, <3>1 DEF Fill, Reasons
    <3> QED BY <3>2
  <2>6. GrossPoints(sig, f) = Gain(sig, entry, paid)
    <3> HIDE DEF f
    <3> QED BY <2>5 DEF GrossPoints
  <2> HIDE DEF f, stop
  <2> QED BY <1>2, <2>1, <2>2, <2>3, <2>4, <2>5, <2>6 DEF stop
<1>5. CASE out # {}
  <2>1. out \subseteq (i + 1)..Len(ts) /\ j \in out
    <3>1. out \subseteq (i + 1)..Len(ts) /\ out \in SUBSET Nat
      BY DEF Exits
    <3> HIDE DEF out
    <3> QED BY <1>5, <3>1, LeastExists
  <2> DEFINE paid == IF StopHit(sig, entry, ts[j]) THEN entry - Sign(sig) * stop
                     ELSE IF TargetHit(sig, entry, ts[j]) THEN entry + Sign(sig) * target
                     ELSE Mark(sig, ts[j])
             reason == IF StopHit(sig, entry, ts[j]) THEN "SL"
                       ELSE IF TargetHit(sig, entry, ts[j]) THEN "TP" ELSE "TIME_STOP"
             f == [entry |-> i, price |-> entry, exit |-> j, reason |-> reason, paid |-> paid]
  <2>2. Position(ts, sig, i, entry) = f
    <3>1. Position(ts, sig, i, entry) = Closed(sig, i, entry, j, ts[j])
      BY <1>5 DEF Position
    <3> HIDE DEF j
    <3>2. Closed(sig, i, entry, j, ts[j]) = f
      BY DEF Closed
    <3> QED BY <3>1, <3>2
  <2>3. j \in 1..Len(ts) /\ Mark(sig, ts[j]) \in Int
    <3> HIDE DEF j, out
    <3>1. j \in 1..Len(ts) BY <1>1, <2>1
    <3> QED BY <3>1, <1>3
  <2> HIDE DEF j, out, stop, target
  <2>5. paid \in Int /\ ~(Gain(sig, entry, paid) < -stop)
    <3>1. CASE StopHit(sig, entry, ts[j])
      <4>1. paid = entry - Sign(sig) * stop
        BY <3>1
      <4>2. Sign(sig) * ((entry - Sign(sig) * stop) - entry) = -stop /\ entry - Sign(sig) * stop \in Int
        <5>1. stop \in Int
          BY <1>2
        <5> QED BY <5>1, Signs, Zenon
      <4>3. Gain(sig, entry, paid) = -stop /\ paid \in Int
        BY <4>1, <4>2 DEF Gain
      <4> QED BY <1>2, <4>3
    <3>2. CASE ~StopHit(sig, entry, ts[j]) /\ TargetHit(sig, entry, ts[j])
      <4>1. paid = entry + Sign(sig) * target
        BY <3>2
      <4>2. Sign(sig) * ((entry + Sign(sig) * target) - entry) = target /\ entry + Sign(sig) * target \in Int
        <5>1. target \in Int
          BY <1>2
        <5> QED BY <5>1, Signs, Zenon
      <4>3. Gain(sig, entry, paid) = target /\ paid \in Int
        BY <4>1, <4>2 DEF Gain
      <4> QED BY <1>2, <4>3
    <3>3. CASE ~StopHit(sig, entry, ts[j]) /\ ~TargetHit(sig, entry, ts[j])
      <4>1. paid = Mark(sig, ts[j])
        BY <3>3
      <4>2. Gain(sig, entry, paid) \in Int
        <5>1. Sign(sig) \in Int
          BY Signs
        <5> QED BY <2>3, <4>1, <5>1 DEF Gain
      <4>3. ~(Gain(sig, entry, paid) <= -stop)
        BY <3>3, <4>1 DEF StopHit, stop
      <4> QED BY <1>2, <2>3, <4>1, <4>2, <4>3
    <3> QED BY <3>1, <3>2, <3>3
  <2> HIDE DEF paid
  <2>6. reason \in Reasons
    BY DEF Reasons
  <2> HIDE DEF paid, reason
  <2>7. f \in Fill /\ f.entry = i /\ f.exit = j /\ f.price = entry /\ f.paid = paid
    <3>1. i \in Nat /\ j \in Nat
      BY <1>1, <2>3
    <3> QED BY <2>5, <2>6, <3>1 DEF Fill
  <2>8. GrossPoints(sig, f) = Gain(sig, entry, paid)
    <3> HIDE DEF f
    <3> QED BY <2>7 DEF GrossPoints
  <2> HIDE DEF f
  <2> QED BY <2>2, <2>3, <2>5, <2>7, <2>8 DEF stop
<1> QED
  BY <1>4, <1>5

\* A fill starts no sooner than it was decided.
LEMMA FillSound ==
  ASSUME NEW ts \in Seq(Tick), NEW sig \in Signal, NEW decided \in Nat, NEW latency \in Nat,
         run_signal(ts, sig, decided, latency) # NoFill
  PROVE  LET f == run_signal(ts, sig, decided, latency) IN
         /\ f \in Fill /\ f.entry \in 1..Len(ts) /\ f.exit \in 1..Len(ts)
         /\ ts[f.entry].msc >= decided
         /\ GrossPoints(sig, f) < -Quarter(sig.sl) => f.entry = Len(ts)
<1> DEFINE may == Entries(ts, sig, decided, latency)
           i == First(may)
<1>1. may # {}
  BY DEF run_signal
<1>2. may \subseteq 1..Len(ts) /\ \A k \in may : ts[k].msc >= decided
  <2>1. \A k \in 1..Len(ts) : ts[k].msc \in Nat
    <3>1. \A k \in 1..Len(ts) : ts[k] \in Tick
      OBVIOUS
    <3> QED BY <3>1 DEF Tick
  <2>2. \A k \in may : k \in 1..Len(ts)
    <3>1. DOMAIN ts = 1..Len(ts)
      OBVIOUS
    <3> QED BY <3>1 DEF Entries, AtOrAfter
  <2>3. \A k \in may : (ts[k].msc >= decided) \/ (ts[k].msc >= decided + latency)
    BY DEF Entries, AtOrAfter
  <2> HIDE DEF may
  <2> QED BY <2>1, <2>2, <2>3
<1>3. run_signal(ts, sig, decided, latency) = Position(ts, sig, i, EntryPrice(sig, ts[i]))
  BY <1>1 DEF run_signal
<1>4. i \in may
  <2>1. may \in SUBSET Nat
    BY <1>2
  <2> HIDE DEF may
  <2> QED BY <1>1, <2>1, LeastExists, Zenon
<1> HIDE DEF may, i
<1>5. i \in 1..Len(ts) /\ EntryPrice(sig, ts[i]) \in Int
  <2>1. i \in 1..Len(ts)
    BY <1>2, <1>4, Zenon
  <2>2. ts[i] \in Tick
    BY <2>1
  <2> QED BY <2>1, <2>2, Prices
<1>6. LET f == Position(ts, sig, i, EntryPrice(sig, ts[i])) IN
      /\ f \in Fill /\ f.entry = i /\ f.exit \in 1..Len(ts)
      /\ GrossPoints(sig, f) < -Quarter(sig.sl) => i = Len(ts)
  BY <1>5, PositionSound
<1> QED
  BY <1>2, <1>3, <1>4, <1>5, <1>6

Tests == [pc : {"idle", "walk", "over"}, ts : Seq(Tick), end : Nat \ {0}, openUntil : Nat,
          fills : Seq(Filled), seen : Nat, untriggered : Nat]

\* Of one fill: where it is, and that it loses no more than its stop.
Bounded(x, ts) ==
    /\ x.fill.entry \in 1..Len(ts) /\ x.fill.exit \in 1..Len(ts)
    /\ GrossPoints(x.sig, x.fill) < -Quarter(x.sig.sl) => x.fill.entry = Len(ts)

\* Each fill is sound, and starts when the one before it has ended.
AllBounded(fills, ts) == \A k \in DOMAIN fills : Bounded(fills[k], ts)
Apart(fills, ts) ==
    \A k \in 1..(Len(fills) - 1) : ts[fills[k + 1].fill.entry].msc >= ts[fills[k].fill.exit].msc

LastExit(fills, ts) == ts[fills[Len(fills)].fill.exit].msc

\* No window is looked at before the last fill has ended.
Walked ==
    /\ Recorded /\ test \in Tests
    /\ test.pc = "idle" => test.fills = <<>>
    /\ AllBounded(test.fills, test.ts) /\ Apart(test.fills, test.ts)
    /\ test.fills # <<>> => test.openUntil = LastExit(test.fills, test.ts)
    /\ test.seen = Len(test.fills) + test.untriggered

LEMMA FillAdded ==
  ASSUME NEW ts \in Seq(Tick), NEW fills \in Seq(Filled), NEW x \in Filled,
         AllBounded(fills, ts), Apart(fills, ts), Bounded(x, ts),
         fills # <<>> => ts[x.fill.entry].msc >= LastExit(fills, ts)
  PROVE  LET more == Append(fills, x) IN
         /\ more \in Seq(Filled) /\ Len(more) = Len(fills) + 1
         /\ AllBounded(more, ts) /\ Apart(more, ts) /\ LastExit(more, ts) = ts[x.fill.exit].msc
<1> DEFINE more == Append(fills, x)
           n == Len(fills)
<1>1. /\ n \in Nat /\ DOMAIN fills = 1..n /\ more \in Seq(Filled) /\ Len(more) = n + 1
      /\ DOMAIN more = 1..(n + 1) /\ more[n + 1] = x /\ \A k \in 1..n : more[k] = fills[k]
  BY OneMore
<1>2. n # 0 => fills # <<>>
  OBVIOUS
<1> HIDE DEF more, n
<1>3. AllBounded(more, ts)
  <2> SUFFICES ASSUME NEW k \in 1..(n + 1)
               PROVE  Bounded(more[k], ts)
    BY <1>1 DEF AllBounded
  <2>1. CASE k \in 1..n
    BY <1>1, <2>1 DEF AllBounded
  <2>2. CASE k = n + 1
    BY <1>1, <2>2
  <2> QED BY <1>1, <2>1, <2>2
<1>4. Apart(more, ts)
  <2> SUFFICES ASSUME NEW k \in 1..n
               PROVE  ts[more[k + 1].fill.entry].msc >= ts[more[k].fill.exit].msc
    <3>1. (n + 1) - 1 = n
      BY <1>1
    <3> QED BY <1>1, <3>1 DEF Apart
  <2>1. CASE k = n
    <3>1. n # 0
      BY <2>1, <1>1
    <3> QED BY <1>1, <1>2, <2>1, <3>1 DEF LastExit, n
  <2>2. CASE k # n
    <3>1. k \in 1..(n - 1) /\ k \in 1..n /\ k + 1 \in 1..n
      BY <1>1, <2>2
    <3>2. ts[fills[k + 1].fill.entry].msc >= ts[fills[k].fill.exit].msc
      BY <3>1 DEF Apart, n
    <3> QED BY <1>1, <3>1, <3>2
  <2> QED BY <2>1, <2>2
<1>5. LastExit(more, ts) = ts[x.fill.exit].msc
  BY <1>1 DEF LastExit
<1> QED
  BY <1>1, <1>3, <1>4, <1>5 DEF more, n

\* A look at a list of signals ends without a fill or with the first that there is.
NothingFills(next) ==
    \E n \in Nat : next = [test EXCEPT !.end = @ + Stride, !.seen = @ + n, !.untriggered = @ + n]
OneFills(next) ==
    \E i \in Nat \ {0}, x \in Filled :
       /\ next = [test EXCEPT !.end = @ + Stride, !.seen = @ + i, !.untriggered = @ + i - 1,
                              !.fills = Append(@, x), !.openUntil = test.ts[x.fill.exit].msc]
       /\ Bounded(x, test.ts)
       /\ test.ts[x.fill.entry].msc >= test.ts[test.end].msc

LEMMA NoLess == \A m, n, k \in Nat : m >= n /\ n >= k => m >= k
OBVIOUS

LEMMA LookIs ==
  ASSUME test \in Tests, test.end < Len(test.ts), NEW sigs \in Seq(Signals), NEW latency \in Nat
  PROVE  NothingFills(Look(sigs, latency)) \/ OneFills(Look(sigs, latency))
<1> DEFINE decided == test.ts[test.end].msc
           fillOf == [k \in DOMAIN sigs |-> run_signal(test.ts, sigs[k], decided, latency)]
           filled == {k \in DOMAIN sigs : fillOf[k] # NoFill}
           i == Taken(sigs, fillOf)
           x == [sig |-> sigs[i], fill |-> fillOf[i]]
<1>1. /\ test.ts \in Seq(Tick) /\ test.end \in Nat \ {0} /\ decided \in Nat
      /\ Len(sigs) \in Nat /\ DOMAIN sigs = 1..Len(sigs)
  <2>1. test.ts \in Seq(Tick) /\ test.end \in Nat \ {0}
    BY DEF Tests
  <2>2. test.ts[test.end] \in Tick
    BY <2>1
  <2>3. decided \in Nat
    BY <2>2 DEF Tick
  <2> QED BY <2>1, <2>3
<1>2. Look(sigs, latency) =
        IF i = 0
        THEN [test EXCEPT !.end = @ + Stride, !.seen = @ + Len(sigs), !.untriggered = @ + Len(sigs)]
        ELSE [test EXCEPT !.end = @ + Stride, !.seen = @ + i, !.untriggered = @ + i - 1,
                          !.fills = Append(@, x), !.openUntil = test.ts[fillOf[i].exit].msc]
  BY DEF Look
<1>3. i = IF filled = {} THEN 0 ELSE First(filled)
  BY DEF Taken
<1>4. CASE filled = {}
  BY <1>1, <1>2, <1>3, <1>4 DEF NothingFills
<1>5. CASE filled # {}
  <2>1. i \in filled
    <3>1. filled \in SUBSET Nat
      BY <1>1
    <3> HIDE DEF filled, i
    <3> QED BY <1>3, <1>5, <3>1, LeastExists
  <2> HIDE DEF i
  <2>2. i \in DOMAIN sigs /\ i \in Nat \ {0} /\ fillOf[i] # NoFill
    BY <1>1, <2>1
  <2>3. sigs[i] \in Signals /\ sigs[i] \in Signal
    BY <2>2, DeskConfig
  <2>4. fillOf[i] = run_signal(test.ts, sigs[i], decided, latency)
    BY <2>2
  <2> HIDE DEF fillOf, decided
  <2>5. /\ fillOf[i] \in Fill /\ fillOf[i].entry \in 1..Len(test.ts) /\ fillOf[i].exit \in 1..Len(test.ts)
        /\ test.ts[fillOf[i].entry].msc >= decided
        /\ GrossPoints(sigs[i], fillOf[i]) < -Quarter(sigs[i].sl) => fillOf[i].entry = Len(test.ts)
    BY <1>1, <2>2, <2>3, <2>4, FillSound
  <2>6. x \in Filled /\ x.sig = sigs[i] /\ x.fill = fillOf[i]
    BY <2>3, <2>5 DEF Filled
  <2> HIDE DEF x
  <2>7. Bounded(x, test.ts) /\ test.ts[x.fill.entry].msc >= test.ts[test.end].msc
    BY <2>5, <2>6 DEF Bounded, decided
  <2> QED BY <1>2, <2>2, <2>6, <2>7 DEF OneFills
<1> QED
  BY <1>4, <1>5

LEMMA WalkStep ==
  ASSUME Walked, Walk
  PROVE  Walked'
<1>0. /\ Recorded' /\ test.pc = "walk" /\ test \in Tests /\ bound \in DOMAIN Bounds
      /\ test.ts \in Seq(Tick) /\ test.fills \in Seq(Filled)
      /\ test.end \in Nat \ {0} /\ Stride \in Nat \ {0}
      /\ test.openUntil \in Nat /\ test.seen \in Nat /\ test.untriggered \in Nat
      /\ Len(test.fills) \in Nat /\ test.seen = Len(test.fills) + test.untriggered
  BY DeskConfig DEF Walked, Recorded, Walk, Tests, scanVars
<1> DEFINE e == test.end
           a == test.seen
           b == Len(test.fills)
           c == test.untriggered
<1>s. /\ e + Stride \in Nat \ {0}
      /\ \A m \in Nat : a + m \in Nat /\ c + m \in Nat /\ a + m = b + (c + m)
      /\ \A i \in Nat \ {0} : a + i \in Nat /\ c + i - 1 \in Nat /\ a + i = (b + 1) + (c + i - 1)
  <2>1. e \in Nat \ {0} /\ Stride \in Nat \ {0} /\ a \in Nat /\ b \in Nat /\ c \in Nat /\ a = b + c
    BY <1>0
  <2> HIDE DEF e, a, b, c
  <2> QED BY <2>1
<1> HIDE DEF e, a, b, c
<1>1. ASSUME test.end >= Len(test.ts), test' = [test EXCEPT !.pc = "over"]
      PROVE  Walked'
  <2>1. /\ test' \in Tests /\ test'.fills = test.fills /\ test'.ts = test.ts /\ test'.pc # "idle"
        /\ test'.openUntil = test.openUntil /\ test'.seen = test.seen
        /\ test'.untriggered = test.untriggered
    BY <1>0, <1>1 DEF Tests
  <2> QED BY <1>0, <2>1 DEF Walked
<1>2. ASSUME test' = [test EXCEPT !.end = @ + Stride]
      PROVE  Walked'
  <2>1. test.end + Stride \in Nat \ {0}
    BY <1>s DEF e
  <2>2. /\ test'.fills = test.fills /\ test'.ts = test.ts /\ test'.pc # "idle"
        /\ test'.openUntil = test.openUntil /\ test'.seen = test.seen
        /\ test'.untriggered = test.untriggered
    BY <1>0, <1>2 DEF Tests
  <2>3. test' \in Tests
    BY <1>0, <1>2, <2>1 DEF Tests
  <2> QED BY <1>0, <2>2, <2>3 DEF Walked
<1>3. ASSUME ~(test.end >= Len(test.ts)), ~(test.ts[test.end].msc < test.openUntil),
             NEW sigs \in Seq(Signals), NEW latency \in Nat, test' = Look(sigs, latency)
      PROVE  Walked'
  <2>1. test.end < Len(test.ts)
    BY <1>0, <1>3
  <2>2. ASSUME NEW m \in Nat,
               test' = [test EXCEPT !.end = @ + Stride, !.seen = @ + m, !.untriggered = @ + m]
        PROVE  Walked'
    <3>1. /\ test.end + Stride \in Nat \ {0} /\ test.seen + m \in Nat /\ test.untriggered + m \in Nat
          /\ test.seen + m = Len(test.fills) + (test.untriggered + m)
      BY <1>s DEF e, a, b, c
    <3>2. /\ test'.fills = test.fills /\ test'.ts = test.ts /\ test'.pc # "idle"
          /\ test'.openUntil = test.openUntil /\ test'.seen = test.seen + m
          /\ test'.untriggered = test.untriggered + m
      BY <1>0, <2>2 DEF Tests
    <3>3. test' \in Tests
      BY <1>0, <2>2, <3>1 DEF Tests
    <3>4. test'.seen = Len(test'.fills) + test'.untriggered
      BY <3>1, <3>2
    <3> QED BY <1>0, <3>2, <3>3, <3>4 DEF Walked
  <2>3. ASSUME NEW i \in Nat \ {0}, NEW x \in Filled,
               test' = [test EXCEPT !.end = @ + Stride, !.seen = @ + i, !.untriggered = @ + i - 1,
                                    !.fills = Append(@, x), !.openUntil = test.ts[x.fill.exit].msc],
               Bounded(x, test.ts), test.ts[x.fill.entry].msc >= test.ts[test.end].msc
        PROVE  Walked'
    <3> DEFINE more == Append(test.fills, x)
               until == test.ts[x.fill.exit].msc
    <3>1. /\ test.ts[x.fill.entry].msc \in Nat /\ until \in Nat /\ test.ts[test.end].msc \in Nat
      <4>1. \A k \in 1..Len(test.ts) : test.ts[k] \in Tick
        BY <1>0
      <4>2. \A k \in 1..Len(test.ts) : test.ts[k].msc \in Nat
        BY <4>1 DEF Tick
      <4>3. test.end \in 1..Len(test.ts)
        <5>1. Len(test.ts) \in Nat
          BY <1>0
        <5> QED BY <1>0, <2>1, <5>1
      <4>4. x.fill.exit \in 1..Len(test.ts) /\ x.fill.entry \in 1..Len(test.ts)
        BY <2>3 DEF Bounded
      <4> QED BY <4>2, <4>3, <4>4
    <3>2. test.fills # <<>> => test.ts[x.fill.entry].msc >= LastExit(test.fills, test.ts)
      <4>1. test.fills # <<>> => test.openUntil = LastExit(test.fills, test.ts)
        BY DEF Walked
      <4>2. test.ts[x.fill.entry].msc >= test.openUntil
        <5>1. test.openUntil \in Nat
          BY <1>0
        <5>2. test.ts[test.end].msc >= test.openUntil
          BY <1>3, <3>1, <5>1
        <5> QED BY <2>3, <3>1, <5>1, <5>2, NoLess, Zenon
      <4> QED BY <4>1, <4>2
    <3>3. /\ more \in Seq(Filled) /\ Len(more) = Len(test.fills) + 1
          /\ AllBounded(more, test.ts) /\ Apart(more, test.ts) /\ LastExit(more, test.ts) = until
      BY <1>0, <2>3, <3>2, FillAdded DEF Walked
    <3>4. /\ test.end + Stride \in Nat \ {0} /\ test.seen + i \in Nat /\ test.untriggered + i - 1 \in Nat
          /\ test.seen + i = (Len(test.fills) + 1) + (test.untriggered + i - 1)
      BY <1>s DEF e, a, b, c
    <3> HIDE DEF more, until
    <3>5. test' = [test EXCEPT !.end = @ + Stride, !.seen = @ + i, !.untriggered = @ + i - 1,
                               !.fills = more, !.openUntil = until]
      BY <2>3 DEF more, until
    <3>6. /\ test'.fills = more /\ test'.ts = test.ts /\ test'.pc = "walk" /\ test'.openUntil = until
          /\ test'.seen = test.seen + i /\ test'.untriggered = test.untriggered + i - 1
      BY <1>0, <3>5 DEF Tests
    <3>7. test' \in Tests
      BY <1>0, <3>1, <3>3, <3>4, <3>5 DEF Tests
    <3>8. test'.seen = Len(test'.fills) + test'.untriggered
      BY <3>3, <3>4, <3>6
    <3>9. test'.openUntil = LastExit(test'.fills, test'.ts)
      BY <3>3, <3>6
    <3>10. AllBounded(test'.fills, test'.ts) /\ Apart(test'.fills, test'.ts) /\ test'.pc # "idle"
      BY <3>3, <3>6
    <3>11. Recorded'
      BY <1>0
    <3> QED BY <3>7, <3>8, <3>9, <3>10, <3>11 DEF Walked
  <2>4. NothingFills(test') \/ OneFills(test')
    <3>1. NothingFills(Look(sigs, latency)) \/ OneFills(Look(sigs, latency))
      <4>1. test \in Tests
        BY <1>0
      <4> QED BY <2>1, <4>1, LookIs
    <3> QED BY <1>3, <3>1
  <2>5. NothingFills(test') => Walked'
    BY <2>2 DEF NothingFills
  <2>6. OneFills(test') => Walked'
    BY <2>3 DEF OneFills
  <2> QED BY <2>4, <2>5, <2>6
<1> QED
  <2>1. May.ideas \subseteq Seq(Signals) /\ Latencies \subseteq Nat
    BY <1>0, DeskConfig DEF May
  <2> QED BY <1>1, <1>2, <1>3, <2>1 DEF Walk

LEMMA LoadStep ==
  ASSUME Walked, Load
  PROVE  Walked'
<1>1. /\ Recorded' /\ test \in Tests /\ test.fills = <<>> /\ test.pc = "idle" /\ ticks \in Seq(Tick)
      /\ test.seen = Len(test.fills) + test.untriggered
  BY DEF Walked, Recorded, Load, scanVars
<1>2. PICK ts \in {ticks, <<>>} : test' = Begun(ts)
  BY DEF Load, Loads
<1>3. ts \in Seq(Tick)
  <2>1. <<>> \in Seq(Tick)
    OBVIOUS
  <2> QED BY <1>1, <1>2, <2>1
<1>4. /\ test' \in Tests /\ test'.fills = <<>> /\ test'.pc # "idle"
      /\ test'.seen = test.seen /\ test'.untriggered = test.untriggered
  BY <1>1, <1>2, <1>3 DEF Begun, Tests
<1>5. test'.seen = Len(test'.fills) + test'.untriggered
  BY <1>1, <1>4
<1>6. AllBounded(<<>>, test'.ts) /\ Apart(<<>>, test'.ts)
  BY DEF AllBounded, Apart
<1> QED
  BY <1>1, <1>4, <1>5, <1>6 DEF Walked

LEMMA Walking == DeskSpec => []Walked
<1>1. DeskInit => Walked
  <2> SUFFICES ASSUME DeskInit
               PROVE  Walked
    OBVIOUS
  <2>1. Recorded /\ test.fills = <<>> /\ test.seen = 0 /\ test.untriggered = 0
    BY DEF DeskInit, Recorded
  <2>2. test \in Tests
    BY DeskConfig DEF DeskInit, Tests
  <2>3. test.seen = Len(test.fills) + test.untriggered
    BY <2>1
  <2>4. AllBounded(test.fills, test.ts) /\ Apart(test.fills, test.ts)
    BY <2>1 DEF AllBounded, Apart
  <2> QED BY <2>1, <2>2, <2>3, <2>4 DEF Walked
<1>2. Walked /\ [DeskNext]_vars => Walked'
  <2> SUFFICES ASSUME Walked, [DeskNext]_vars
               PROVE  Walked'
    OBVIOUS
  <2>1. Recorded'
    BY OneTickAtATime DEF Recorded, Walked
  <2>2. CASE Scan \/ UNCHANGED vars
    <3>1. UNCHANGED test
      <4>1. CASE UNCHANGED vars
        BY <4>1 DEF vars
      <4>2. CASE RunStrategy \/ SeeSignal \/ AppendSignal \/ Decide \/ AppendDecision \/ AppendRaises
        BY <4>2 DEF RunStrategy, SeeSignal, AppendSignal, Decide, AppendDecision, AppendRaises
      <4>3. CASE ReadSignals \/ ReadDecisions \/ SumUp \/ StopGateway \/ CloseLedger \/ Kill
        BY <4>3 DEF ReadSignals, ReadDecisions, SumUp, StopGateway, CloseLedger, Kill
      <4>4. CASE \E t \in May.quotes : Deliver(t)
        BY <4>4 DEF Deliver
      <4> QED BY <2>2, <4>1, <4>2, <4>3, <4>4 DEF Scan
    <3> QED BY <2>1, <3>1 DEF Walked
  <2> QED BY <2>2, WalkStep, LoadStep DEF DeskNext
<1> QED
  BY <1>1, <1>2, PTL DEF DeskSpec

\* For every series of ticks, windows, signals and latencies, the walk holds one
\* position at a time, loses no more than a stop while ticks follow, and accounts
\* for every signal (run_strategy_over_ticks).
THEOREM OnePositionAtATime == DeskSpec => []FillsAreApart
<1>1. Walked => FillsAreApart
  BY DEF Walked, FillsAreApart, AllBounded, Apart, Bounded
<1> QED
  BY <1>1, Walking, PTL

-----------------------------------------------------------------------------
(* The scan *)

Counts   == [signals : Nat, decisions : Nat]
Verdicts == {"APPROVE", "APPROVE_REDUCED", "SHADOW_ONLY", "REJECT"}
Lefts    == Seq(STRING) \ {<<>>}
Lists    == Seq(Signals) \ {<<>>}

Running == [pc : {"strategies"}, left : Seq(STRING)]
Handling == [pc : {"seen", "signal", "decide"}, left : Lefts, sigs : Lists]
Deciding == [pc : {"decision"}, left : Lefts, sigs : Lists, verdict : Verdicts]
Pumps    == {Waiting} \cup Running \cup Handling \cup Deciding

SignalRow   == [kind : {"signal"}, id : Nat]
DecisionRow == [kind : {"decision"}, id : Nat, verdict : Verdicts]
SummaryRow  == [kind : {"summary"}, id : {0}, counts : Counts]
Row         == SignalRow \cup DecisionRow \cup SummaryRow

ScanTyped ==
    /\ Recorded /\ isSim \in BOOLEAN /\ lost \in Nat /\ counts \in Counts /\ summary \in Counts
    /\ main \in {"scanning", "reading", "summing", "stopping", "stopped", "closed", "killed"}
    /\ rows \in Seq(Row) /\ pump \in Pumps

LEMMA CountsGrow ==
  ASSUME NEW c \in Counts
  PROVE  [c EXCEPT !.signals = @ + 1] \in Counts /\ [c EXCEPT !.decisions = @ + 1] \in Counts
BY DEF Counts

LEMMA PumpAt ==
  ASSUME pump \in Pumps
  PROVE  /\ pump.pc \in {"idle", "strategies", "seen", "signal", "decide", "decision"}
         /\ pump.pc = "idle" => pump = Waiting
         /\ pump.pc = "strategies" => pump \in Running
         /\ pump.pc \in {"seen", "signal", "decide"} => pump \in Handling
         /\ pump.pc = "decision" => pump \in Deciding
BY DEF Pumps, Waiting, Running, Handling, Deciding

LEMMA AfterIs ==
  ASSUME NEW left \in Lefts, NEW sigs \in Lists
  PROVE  /\ Len(sigs) > 1 => Tail(sigs) \in Lists
         /\ Tail(left) \in Seq(STRING)
<1>1. sigs \in Seq(Signals) /\ sigs # <<>> /\ left \in Seq(STRING) /\ left # <<>>
  BY DEF Lefts, Lists
<1>2. Tail(sigs) \in Seq(Signals) /\ Len(Tail(sigs)) = Len(sigs) - 1 /\ Len(sigs) \in Nat
  BY <1>1
<1>3. Len(sigs) > 1 => Tail(sigs) # <<>>
  <2>1. Len(sigs) > 1 => Len(Tail(sigs)) # 0
    BY <1>2
  <2> QED BY <2>1
<1> QED
  BY <1>1, <1>2, <1>3 DEF Lists

LEMMA VerdictIs ==
  ASSUME NEW o, NEW in, NEW history, NEW calendar, NEW t
  PROVE  decide(o, in, history, calendar, t) \in Verdicts
BY DEF decide, Graded, Verdicts

LEMMA ScanTypedInit == DeskInit => ScanTyped
<1> SUFFICES ASSUME DeskInit
             PROVE  ScanTyped
  OBVIOUS
<1>1. bound \in DOMAIN Bounds /\ isSim \in May.sims /\ May.sims \subseteq BOOLEAN
  BY DeskConfig DEF DeskInit, May
<1> QED
  BY <1>1 DEF DeskInit, ScanTyped, Recorded, Counts, Pumps

LEMMA ScanTypedStep ==
  ASSUME ScanTyped, [DeskNext]_vars
  PROVE  ScanTyped'
<1>0. Recorded' /\ bound' = bound
  BY OneTickAtATime DEF ScanTyped, Recorded
<1>1. /\ May.ideas \subseteq Seq(Signals) /\ Strategies \in Seq(STRING) /\ counts.signals \in Nat
      /\ counts.decisions \in Nat /\ Waiting \in Pumps /\ pump \in Pumps /\ rows \in Seq(Row)
      /\ lost \in Nat /\ lost + 1 \in Nat /\ counts \in Counts /\ summary \in Counts
  BY DeskConfig DEF ScanTyped, Recorded, May, Counts, Pumps
<1>2. ASSUME NEW t \in May.quotes, Deliver(t)
      PROVE  ScanTyped'
  <2>1. [pc |-> "strategies", left |-> Strategies] \in Pumps
    BY <1>1 DEF Pumps, Running
  <2> QED BY <1>0, <1>1, <1>2, <2>1 DEF Deliver, ScanTyped
<1>3. CASE RunStrategy
  <2>1. pump \in Running
    BY <1>1, <1>3, PumpAt DEF RunStrategy
  <2>2. CASE pump.left = <<>>
    BY <1>0, <1>1, <1>3, <2>2 DEF RunStrategy, ScanTyped
  <2>3. CASE pump.left # <<>>
    <3>1. PICK sigs \in IF Ready(Head(pump.left)) THEN May.ideas ELSE {<<>>} :
              pump' = IF sigs = <<>> THEN [pump EXCEPT !.left = Tail(@)]
                      ELSE [pc |-> "seen", left |-> pump.left, sigs |-> sigs]
      BY <1>3, <2>3 DEF RunStrategy
    <3>2. pump.left \in Lefts /\ Tail(pump.left) \in Seq(STRING)
      BY <2>1, <2>3 DEF Running, Lefts
    <3>3. [pump EXCEPT !.left = Tail(@)] \in Running
      BY <2>1, <3>2 DEF Running
    <3>4. sigs # <<>> => sigs \in Lists
      BY <1>1, <3>1 DEF Lists
    <3>5. sigs # <<>> => [pc |-> "seen", left |-> pump.left, sigs |-> sigs] \in Handling
      BY <3>2, <3>4 DEF Handling
    <3>6. pump' \in Pumps
      BY <3>1, <3>3, <3>5 DEF Pumps
    <3> QED BY <1>0, <1>1, <1>3, <3>6 DEF RunStrategy, ScanTyped
  <2> QED BY <2>2, <2>3
<1>4. CASE SeeSignal
  <2>1. pump \in Handling
    BY <1>1, <1>4, PumpAt DEF SeeSignal
  <2>2. [pump EXCEPT !.pc = "signal"] \in Handling
    BY <2>1 DEF Handling
  <2>3. [counts EXCEPT !.signals = @ + 1] \in Counts
    BY <1>1, CountsGrow
  <2> QED BY <1>0, <1>1, <1>4, <2>2, <2>3 DEF SeeSignal, ScanTyped, Pumps
<1>5. CASE AppendSignal
  <2>1. pump \in Handling
    BY <1>1, <1>5, PumpAt DEF AppendSignal
  <2>2. [pump EXCEPT !.pc = "decide"] \in Handling
    BY <2>1 DEF Handling
  <2>3. [kind |-> "signal", id |-> counts.signals] \in Row
    BY <1>1 DEF Row, SignalRow
  <2>4. rows' \in Seq(Row)
    BY <1>1, <1>5, <2>3 DEF AppendSignal
  <2> QED BY <1>0, <1>1, <1>5, <2>2, <2>4 DEF AppendSignal, ScanTyped, Pumps
<1>6. CASE Decide
  <2> DEFINE verdict == decide(Idea(Head(pump.sigs), ticks[Len(ticks)]), ScanInputs(MaxAge(Head(pump.sigs))),
                               spreads, Calendar, TimeOf(ticks[Len(ticks)]))
  <2>1. pump \in Handling
    BY <1>1, <1>6, PumpAt DEF Decide
  <2>2. verdict \in Verdicts
    BY VerdictIs
  <2>3. pump' = [pc |-> "decision", left |-> pump.left, sigs |-> pump.sigs, verdict |-> verdict]
    BY <1>6 DEF Decide
  <2> HIDE DEF verdict
  <2>4. pump' \in Pumps
    BY <2>1, <2>2, <2>3 DEF Handling, Deciding, Pumps
  <2>5. [counts EXCEPT !.decisions = @ + 1] \in Counts
    BY <1>1, CountsGrow
  <2>6. /\ counts' \in Counts
        /\ UNCHANGED <<isSim, ticks, window, spreads, cooling, main, summary, rows, lost, test, bound>>
    BY <1>6, <2>5 DEF Decide
  <2> QED BY <1>0, <2>4, <2>6 DEF ScanTyped
<1>7. ASSUME pump.pc = "decision" PROVE AfterSignal \in Pumps /\ pump \in Deciding
  <2>1. pump \in Deciding
    BY <1>1, <1>7, PumpAt
  <2>2. pump.left \in Lefts /\ pump.sigs \in Lists
    BY <2>1 DEF Deciding
  <2>3. CASE Len(pump.sigs) > 1
    <3>1. [pc |-> "seen", left |-> pump.left, sigs |-> Tail(pump.sigs)] \in Handling
      BY <2>2, <2>3, AfterIs DEF Handling
    <3> QED BY <2>1, <2>3, <3>1 DEF AfterSignal, Pumps
  <2>4. CASE ~(Len(pump.sigs) > 1)
    <3>1. [pc |-> "strategies", left |-> Tail(pump.left)] \in Running
      BY <2>2, AfterIs DEF Running
    <3> QED BY <2>1, <2>4, <3>1 DEF AfterSignal, Pumps
  <2> QED BY <2>3, <2>4
<1>8. CASE AppendDecision
  <2>1. pump \in Deciding /\ pump' \in Pumps
    BY <1>7, <1>8 DEF AppendDecision
  <2>2. [kind |-> "decision", id |-> counts.signals, verdict |-> pump.verdict] \in Row
    BY <1>1, <2>1 DEF Row, DecisionRow, Deciding
  <2>3. rows' \in Seq(Row)
    BY <1>1, <1>8, <2>2 DEF AppendDecision
  <2> QED BY <1>0, <1>1, <1>8, <2>1, <2>3 DEF AppendDecision, ScanTyped
<1>9. CASE AppendRaises
  BY <1>0, <1>1, <1>9 DEF AppendRaises, ScanTyped
<1>10. CASE ReadSignals \/ ReadDecisions
  <2>1. /\ [summary EXCEPT !.signals = counts.signals] \in Counts
        /\ [summary EXCEPT !.decisions = counts.decisions] \in Counts
    BY <1>1 DEF Counts
  <2> QED BY <1>0, <1>10, <2>1 DEF ReadSignals, ReadDecisions, ScanTyped
<1>11. CASE SumUp
  <2>1. [kind |-> "summary", id |-> 0, counts |-> summary] \in Row
    BY <1>1 DEF Row, SummaryRow
  <2>2. Append(rows, [kind |-> "summary", id |-> 0, counts |-> summary]) \in Seq(Row)
    BY <1>1, <2>1
  <2>3. rows' \in Seq(Row) /\ lost' \in Nat
    BY <1>1, <1>11, <2>2 DEF SumUp
  <2> QED BY <1>0, <1>1, <1>11, <2>3 DEF SumUp, ScanTyped
<1>12. CASE StopGateway \/ CloseLedger \/ Kill
  BY <1>0, <1>1, <1>12 DEF StopGateway, CloseLedger, Kill, ScanTyped
<1>13. CASE Load \/ Walk \/ UNCHANGED vars
  BY <1>0, <1>13 DEF Load, Walk, vars, scanVars, ScanTyped
<1> QED
  BY <1>2, <1>3, <1>4, <1>5, <1>6, <1>8, <1>9, <1>10, <1>11, <1>12, <1>13 DEF DeskNext, Scan

\* Every quote that a scan may see costs something: a spread, a commission or the
\* slippage assumed.  Without that the council may approve with a reduced size.
EveryTradeCosts ==
    \A b \in DOMAIN Bounds : Bounds[b].scans =>
        \A t \in Bounds[b].quotes : t.ask >= t.bid /\ 10 * (t.ask - t.bid) + Commission + Slip > 0

Sound(verdict) == verdict \in {"APPROVE", "REJECT"} /\ (verdict = "APPROVE" => isSim)

\* The scan decides on quotes it was given, and has no history at a terminal.
Judged ==
    /\ ScanTyped
    /\ \A i \in DOMAIN ticks : ticks[i] \in May.quotes
    /\ pump.pc # "idle" => ticks # <<>>
    /\ pump.pc \notin {"idle", "strategies"} => May.scans
    /\ ~isSim => spreads = <<>>
    /\ pump.pc = "decision" => Sound(pump.verdict)
    /\ \A i \in RowsOf("decision") : Sound(rows[i].verdict)

\* With no history the liquidity window is shut.
LEMMA NoHistory ==
  ASSUME NEW o, NEW t, NEW in, NEW calendar
  PROVE  decide(o, in, <<>>, calendar, t) = "REJECT"
<1>1. SameHour(<<>>, t) = {}
  BY DEF SameHour
<1>2. Cardinality(SameHour(<<>>, t)) = 0
  BY <1>1, FS_EmptySet
<1>3. 0 < MinSamples
  BY CouncilConfig
<1>4. LiquidityShut(o, <<>>, t)
  BY <1>2, <1>3 DEF LiquidityShut
<1>5. "LIQUIDITY_WINDOW" \in evaluate_cost(o, <<>>, calendar, t)
  BY <1>4, Zenon DEF evaluate_cost
<1> QED
  BY <1>5 DEF decide

LEMMA Widths  == \A a, b \in Nat : a >= b => a - b \in Nat
OBVIOUS

LEMMA Tenfold == \A n \in Nat : 10 * n \in Nat
OBVIOUS

LEMMA DecidesSoundly ==
  ASSUME EveryTradeCosts, Judged, pump.pc = "decide",
         NEW t, t = ticks[Len(ticks)], NEW sig, sig = Head(pump.sigs)
  PROVE  Sound(decide(Idea(sig, t), ScanInputs(MaxAge(sig)), spreads, Calendar, TimeOf(t)))
<1> DEFINE verdict == decide(Idea(sig, t), ScanInputs(MaxAge(sig)), spreads, Calendar, TimeOf(t))
<1>1. sig \in Signal
  <2>1. pump.sigs \in Seq(Signals) /\ pump.sigs # <<>>
    BY PumpAt DEF Judged, ScanTyped, Handling, Lists
  <2>2. sig \in Signals
    BY <2>1
  <2> QED BY <2>2, DeskConfig
<1>2. t \in May.quotes /\ t \in Tick
  <2>1. ticks \in Seq(Tick) /\ ticks # <<>>
    BY DEF Judged, ScanTyped, Recorded
  <2>2. Len(ticks) \in DOMAIN ticks
    BY <2>1
  <2> QED BY <2>1, <2>2 DEF Judged
<1>3. t.ask >= t.bid /\ 10 * (t.ask - t.bid) + Commission + Slip > 0
  BY <1>2 DEF EveryTradeCosts, Judged, ScanTyped, Recorded, May
<1>4. t.ask \in Nat /\ t.bid \in Nat /\ sig.sl \in Nat /\ sig.tp \in Nat
  BY <1>1, <1>2 DEF Tick, Signal
<1>5. 10 * (t.ask - t.bid) \in Nat /\ 10 * sig.sl \in Nat /\ 10 * sig.tp \in Nat
  <2>1. t.ask - t.bid \in Nat
    BY <1>3, <1>4, Widths
  <2> QED BY <1>4, <2>1, Tenfold
<1>6. Idea(sig, t) \in Trade /\ CostOf(Idea(sig, t)) > 0
  BY <1>3, <1>5, DeskConfig DEF Idea, Trade, CostOf
<1>7. MaxAge(sig) \in Nat
  BY DEF MaxAge
<1>8. verdict \in {"APPROVE", "REJECT"}
  BY <1>6, <1>7, NothingBetween
<1>9. ~isSim => verdict = "REJECT"
  BY NoHistory DEF Judged
<1> QED
  BY <1>8, <1>9 DEF Sound

LEMMA JudgedStep ==
  ASSUME EveryTradeCosts, Judged, [DeskNext]_vars
  PROVE  Judged'
<1>0. ScanTyped /\ ScanTyped' /\ bound' = bound /\ ticks \in Seq(Tick) /\ rows \in Seq(Row) /\ pump \in Pumps
  BY ScanTypedStep, OneTickAtATime DEF Judged, ScanTyped, Recorded
<1>1. isSim' = isSim
  <2>1. CASE \E t \in May.quotes : Deliver(t)
    BY <2>1 DEF Deliver
  <2>2. CASE RunStrategy \/ SeeSignal \/ AppendSignal \/ Decide \/ AppendDecision \/ AppendRaises
    BY <2>2 DEF RunStrategy, SeeSignal, AppendSignal, Decide, AppendDecision, AppendRaises
  <2>3. CASE ReadSignals \/ ReadDecisions \/ SumUp \/ StopGateway \/ CloseLedger \/ Kill
    BY <2>3 DEF ReadSignals, ReadDecisions, SumUp, StopGateway, CloseLedger, Kill
  <2>4. CASE Load \/ Walk \/ UNCHANGED vars
    BY <2>4 DEF Load, Walk, vars, scanVars
  <2> QED BY <2>1, <2>2, <2>3, <2>4 DEF DeskNext, Scan
\* Rows that were sound stay so, and a row is added only as sound.
<1>2. ASSUME NEW row \in Row, rows' = Append(rows, row), row.kind = "decision" => Sound(row.verdict)
      PROVE  \A i \in RowsOf("decision")' : Sound(rows'[i].verdict)
  <2>1. /\ DOMAIN rows' = 1..(Len(rows) + 1) /\ rows'[Len(rows) + 1] = row /\ Len(rows) \in Nat
        /\ DOMAIN rows = 1..Len(rows) /\ \A i \in 1..Len(rows) : rows'[i] = rows[i]
    BY <1>0, <1>2, OneMore
  <2>2. \A i \in DOMAIN rows' : (i \in DOMAIN rows /\ rows'[i] = rows[i]) \/ rows'[i] = row
    BY <2>1
  <2>3. \A i \in RowsOf("decision") : Sound(rows[i].verdict)
    BY DEF Judged
  <2> QED BY <1>2, <2>2, <2>3 DEF RowsOf
<1>3. rows' = rows => \A i \in RowsOf("decision")' : Sound(rows'[i].verdict)
  BY DEF Judged, RowsOf
<1>4. ASSUME NEW t \in May.quotes, Deliver(t)
      PROVE  Judged'
  <2>1. ticks' = Append(ticks, t) /\ t \in Tick
    BY <1>0, <1>4, DeskConfig DEF Deliver, on_tick, ScanTyped, Recorded, May
  <2>2. \A i \in DOMAIN ticks' : ticks'[i] \in May.quotes
    <3>1. /\ DOMAIN ticks' = 1..(Len(ticks) + 1) /\ ticks'[Len(ticks) + 1] = t /\ Len(ticks) \in Nat
          /\ DOMAIN ticks = 1..Len(ticks) /\ \A i \in 1..Len(ticks) : ticks'[i] = ticks[i]
      BY <1>0, <2>1, OneMore
    <3>2. \A i \in DOMAIN ticks' : i \in DOMAIN ticks \/ i = Len(ticks) + 1
      BY <3>1
    <3> QED BY <1>4, <3>1, <3>2 DEF Judged
  <2>3. ticks' # <<>>
    BY <1>0, <2>1
  <2>4. pump'.pc \in {"idle", "strategies"} /\ (~isSim => spreads' = <<>>) /\ rows' = rows
    BY <1>4 DEF Deliver, Waiting, Judged
  <2>5. May.quotes' = May.quotes
    BY <1>0 DEF May
  <2> QED BY <1>0, <1>1, <1>3, <2>2, <2>3, <2>4, <2>5 DEF Judged, May, Sound
<1>5. ASSUME ticks' = ticks, spreads' = spreads, pump'.pc # "idle" => pump.pc # "idle",
             pump'.pc \notin {"idle", "strategies"} => May.scans,
             pump'.pc = "decision" => Sound(pump'.verdict),
             \A i \in RowsOf("decision")' : Sound(rows'[i].verdict)
      PROVE  Judged'
  BY <1>0, <1>1, <1>5 DEF Judged, May, Sound
<1>6. CASE RunStrategy /\ May.scans
  <2>1. pump'.pc # "decision"
    <3>1. pump \in Running
      BY <1>0, <1>6, PumpAt DEF RunStrategy
    <3> QED BY <1>6, <3>1 DEF RunStrategy, Waiting, Running
  <2> QED BY <1>3, <1>5, <1>6, <2>1 DEF RunStrategy
<1>7. CASE SeeSignal
  <2>1. pump'.pc = "signal"
    BY <1>0, <1>7, PumpAt DEF SeeSignal, Handling
  <2> QED BY <1>3, <1>5, <1>7, <2>1 DEF SeeSignal, Judged
<1>8. CASE AppendSignal
  <2>1. pump'.pc = "decide"
    BY <1>0, <1>8, PumpAt DEF AppendSignal, Handling
  <2> DEFINE row == [kind |-> "signal", id |-> counts.signals]
  <2>2. row \in Row /\ row.kind # "decision" /\ rows' = Append(rows, row)
    BY <1>0, <1>8 DEF Row, SignalRow, AppendSignal, ScanTyped, Counts
  <2> HIDE DEF row
  <2>3. \A i \in RowsOf("decision")' : Sound(rows'[i].verdict)
    BY <1>2, <2>2
  <2> QED BY <1>5, <1>8, <2>1, <2>3 DEF AppendSignal, Judged
<1>9. CASE Decide
  <2>1. pump'.pc = "decision" /\ Sound(pump'.verdict)
    BY <1>9, DecidesSoundly DEF Decide
  <2> QED BY <1>3, <1>5, <1>9, <2>1 DEF Decide, Judged
<1>10. ASSUME pump.pc = "decision" PROVE AfterSignal.pc \in {"seen", "strategies"}
  BY DEF AfterSignal
<1>11. CASE AppendDecision
  <2> DEFINE row == [kind |-> "decision", id |-> counts.signals, verdict |-> pump.verdict]
  <2>1. pump \in Deciding /\ Sound(pump.verdict)
    BY <1>0, <1>11, PumpAt DEF AppendDecision, Judged
  <2>2. row \in Row /\ row.verdict = pump.verdict /\ rows' = Append(rows, row)
    BY <1>0, <1>11, <2>1 DEF Row, DecisionRow, Deciding, AppendDecision, ScanTyped, Counts
  <2> HIDE DEF row
  <2>3. \A i \in RowsOf("decision")' : Sound(rows'[i].verdict)
    BY <1>2, <2>1, <2>2
  <2> QED BY <1>5, <1>10, <1>11, <2>3 DEF AppendDecision, Judged
<1>12. CASE AppendRaises
  <2>1. pump'.pc = "idle"
    BY <1>12 DEF AppendRaises, Waiting
  <2> QED BY <1>3, <1>5, <1>12, <2>1 DEF AppendRaises
<1>13. CASE ReadSignals \/ ReadDecisions \/ StopGateway \/ CloseLedger
  BY <1>3, <1>5, <1>13 DEF ReadSignals, ReadDecisions, StopGateway, CloseLedger, Judged
<1>14. CASE SumUp
  <2> DEFINE row == [kind |-> "summary", id |-> 0, counts |-> summary]
  <2>1. row \in Row /\ row.kind # "decision"
    BY <1>0 DEF Row, SummaryRow, ScanTyped
  <2>2. rows' = Append(rows, row) \/ rows' = rows
    BY <1>14 DEF SumUp
  <2> HIDE DEF row
  <2>3. \A i \in RowsOf("decision")' : Sound(rows'[i].verdict)
    BY <1>2, <1>3, <2>1, <2>2
  <2> QED BY <1>5, <1>14, <2>3 DEF SumUp, Judged
<1>15. CASE Kill
  <2>1. pump'.pc = "idle"
    BY <1>15 DEF Kill, Waiting
  <2> QED BY <1>3, <1>5, <1>15, <2>1 DEF Kill
<1>16. CASE Load \/ Walk \/ UNCHANGED vars
  BY <1>3, <1>5, <1>16 DEF Load, Walk, vars, scanVars, Judged
<1> QED
  BY <1>4, <1>6, <1>7, <1>8, <1>9, <1>11, <1>12, <1>13, <1>14, <1>15, <1>16 DEF DeskNext, Scan

\* With a cost on every trade, whatever the rest of the configuration, a scan's
\* verdicts are an approval or a rejection, and only a simulation's approve.
THEOREM ApprovalsAreSimulated ==
  ASSUME EveryTradeCosts
  PROVE  DeskSpec => []ScanVerdicts
<1>1. DeskInit => Judged
  <2> SUFFICES ASSUME DeskInit
               PROVE  Judged
    OBVIOUS
  <2>1. ticks = <<>> /\ rows = <<>> /\ spreads = <<>> /\ pump.pc = "idle"
    BY DEF DeskInit, Waiting
  <2>2. ScanTyped
    BY ScanTypedInit
  <2> QED BY <2>1, <2>2 DEF Judged, RowsOf
<1>2. Judged /\ [DeskNext]_vars => Judged'
  BY JudgedStep
<1>3. Judged => ScanVerdicts
  BY DEF Judged, ScanVerdicts, Sound
<1> QED
  BY <1>1, <1>2, <1>3, PTL DEF DeskSpec

Size(kind) == Cardinality(RowsOf(kind))
Num(b)     == IF b THEN 1 ELSE 0

\* Ids are given once, to a signal and then to its decision.
Ids ==
    /\ \A i \in RowsOf("signal") : rows[i].id <= counts.signals
    /\ \A i, j \in RowsOf("signal") : rows[i].id = rows[j].id => i = j
    /\ pump.pc = "signal" => \A i \in RowsOf("signal") : rows[i].id # counts.signals
    /\ pump.pc \in {"decide", "decision"} =>
          /\ \E i \in RowsOf("signal") : rows[i].id = counts.signals
          /\ \A i \in RowsOf("decision") : rows[i].id # counts.signals
    /\ \A i \in RowsOf("decision") : \E j \in RowsOf("signal") : j < i /\ rows[j].id = rows[i].id
    /\ \A i, j \in RowsOf("decision") : rows[i].id = rows[j].id => i = j

\* How many rows there are for what has been counted and lost, and what is in hand.
InHand == pump.pc \in {"decide", "decision"} \/ main = "killed"
Counting == main \in {"scanning", "reading", "summing"}
Numbers ==
    /\ main = "killed" => pump.pc = "idle"
    /\ Size("signal") <= Size("decision") + lost + Num(InHand)
    /\ main # "killed" =>
          /\ counts.signals <= Size("signal") + lost + Num(pump.pc = "signal")
          /\ counts.decisions <= Size("decision") + lost + Num(pump.pc = "decision")
    /\ isSim /\ Counting =>
          /\ counts.signals = Size("signal") + Num(pump.pc = "signal")
          /\ counts.decisions = Size("decision") + Num(pump.pc = "decision")

\* What the main thread has read of the counts.
Readings ==
    /\ main \in {"reading", "summing"} =>
          /\ summary.signals <= Size("signal") + lost + 1
          /\ isSim => pump.pc = "idle" /\ summary.signals = counts.signals
    /\ main = "summing" =>
          /\ summary.decisions <= Size("decision") + lost + 1
          /\ isSim => summary.decisions = counts.decisions

\* A summary of the counts c, with so many rows before it, tells no more than they.
Tells(c, signals, decisions, sim, missed) ==
    LET slack == IF sim THEN 0 ELSE missed + 1 IN
    /\ c.signals <= signals + slack
    /\ c.decisions <= decisions + slack
    /\ sim => c.signals = signals /\ c.decisions = decisions
Summaries ==
    \A n \in RowsOf("summary") :
        Tells(rows[n].counts, Before("signal", n), Before("decision", n), isSim, lost)

Told == ScanTyped /\ Ids /\ Numbers /\ Readings /\ Summaries

LEMMA SizeIsNat ==
  ASSUME ScanTyped, NEW kind
  PROVE  /\ IsFiniteSet(RowsOf(kind)) /\ Size(kind) \in Nat /\ RowsOf(kind) \subseteq 1..Len(rows)
         /\ \A n : Before(kind, n) \in Nat
<1>1. Len(rows) \in Nat /\ DOMAIN rows = 1..Len(rows)
  BY DEF ScanTyped
<1>2. RowsOf(kind) \subseteq 1..Len(rows) /\ IsFiniteSet(1..Len(rows))
  BY <1>1, FS_Interval DEF RowsOf
<1>3. IsFiniteSet(RowsOf(kind))
  BY <1>2, FS_Subset
<1>4. ASSUME NEW n
      PROVE  Before(kind, n) \in Nat
  <2>1. {i \in RowsOf(kind) : i < n} \subseteq RowsOf(kind)
    OBVIOUS
  <2> QED BY <1>3, <2>1, FS_Subset, FS_CardinalityType DEF Before
<1> QED
  BY <1>2, <1>3, <1>4, FS_CardinalityType DEF Size

\* What a row appended changes.
LEMMA RowAdded ==
  ASSUME ScanTyped, NEW row \in Row, rows' = Append(rows, row), NEW kind
  PROVE  /\ DOMAIN rows' = 1..(Len(rows) + 1) /\ rows'[Len(rows) + 1] = row /\ Len(rows) \in Nat
         /\ \A i \in 1..Len(rows) : rows'[i] = rows[i]
         /\ row.kind = kind => /\ RowsOf(kind)' = RowsOf(kind) \cup {Len(rows) + 1}
                               /\ Size(kind)' = Size(kind) + 1
         /\ row.kind # kind => RowsOf(kind)' = RowsOf(kind) /\ Size(kind)' = Size(kind)
         /\ \A n \in 1..Len(rows) : Before(kind, n)' = Before(kind, n)
         /\ \A n : n = Len(rows) + 1 => Before(kind, n)' = Size(kind)
<1> DEFINE top == Len(rows) + 1
<1>1. /\ DOMAIN rows' = 1..(Len(rows) + 1) /\ rows'[Len(rows) + 1] = row /\ Len(rows) \in Nat
      /\ DOMAIN rows = 1..Len(rows) /\ \A i \in 1..Len(rows) : rows'[i] = rows[i]
  BY OneMore DEF ScanTyped
<1>2. RowsOf(kind) \subseteq 1..Len(rows) /\ IsFiniteSet(RowsOf(kind)) /\ Size(kind) \in Nat
  BY SizeIsNat
<1>3. top \notin RowsOf(kind) /\ 1..top = (1..Len(rows)) \cup {top}
  BY <1>1, <1>2
<1>4. RowsOf(kind)' = RowsOf(kind) \cup (IF row.kind = kind THEN {top} ELSE {})
  <2>1. RowsOf(kind)' = {i \in 1..top : rows'[i].kind = kind}
    BY <1>1 DEF RowsOf
  <2>2. RowsOf(kind) = {i \in 1..Len(rows) : rows[i].kind = kind}
    BY <1>1 DEF RowsOf
  <2>3. \A i \in 1..Len(rows) : rows'[i].kind = rows[i].kind
    BY <1>1
  <2>4. rows'[top].kind = row.kind
    BY <1>1
  <2> HIDE DEF top
  <2> QED BY <1>3, <2>1, <2>2, <2>3, <2>4
<1> HIDE DEF top
<1>5. /\ row.kind = kind => RowsOf(kind)' = RowsOf(kind) \cup {top} /\ Size(kind)' = Size(kind) + 1
      /\ row.kind # kind => RowsOf(kind)' = RowsOf(kind) /\ Size(kind)' = Size(kind)
  <2>1. Cardinality(RowsOf(kind) \cup {top}) = Cardinality(RowsOf(kind)) + 1
    BY <1>2, <1>3, FS_AddElement
  <2>2. CASE row.kind = kind
    BY <1>4, <2>1, <2>2 DEF Size
  <2>3. CASE row.kind # kind
    <3>1. RowsOf(kind)' = RowsOf(kind)
      BY <1>4, <2>3
    <3> QED BY <2>3, <3>1 DEF Size
  <2> QED BY <2>2, <2>3
<1>6. ASSUME NEW n \in 1..Len(rows)
      PROVE  Before(kind, n)' = Before(kind, n)
  <2>1. ~(top < n)
    BY <1>1 DEF top
  <2>2. {i \in RowsOf(kind)' : i < n} = {i \in RowsOf(kind) : i < n}
    BY <1>4, <2>1
  <2> QED BY <2>2 DEF Before
<1>7. ASSUME NEW n, n = top
      PROVE  Before(kind, n)' = Size(kind)
  <2>1. \A i \in RowsOf(kind) : i < top
    BY <1>1, <1>2 DEF top
  <2>2. ~(top < top)
    BY <1>1 DEF top
  <2>3. {i \in RowsOf(kind)' : i < n} = RowsOf(kind)
    BY <1>4, <1>7, <2>1, <2>2
  <2> QED BY <2>3 DEF Before, Size
<1> QED
  BY <1>1, <1>5, <1>6, <1>7 DEF top

LEMMA CountsAreNat ==
  ASSUME ScanTyped
  PROVE  /\ counts.signals \in Nat /\ counts.decisions \in Nat
         /\ summary.signals \in Nat /\ summary.decisions \in Nat
BY DEF ScanTyped, Counts

\* Where the pump is after each of its steps.
LEMMA PumpMoves ==
  ASSUME ScanTyped
  PROVE  /\ SeeSignal => pump'.pc = "signal"
         /\ AppendSignal => pump'.pc = "decide"
         /\ Decide => pump'.pc = "decision"
         /\ AppendDecision => pump'.pc \in {"seen", "strategies"}
         /\ RunStrategy => pump'.pc \in {"idle", "seen", "strategies"}
         /\ AppendRaises \/ Kill => pump'.pc = "idle"
         /\ \A t : Deliver(t) => pump'.pc \in {"idle", "strategies"}
<1>1. pump \in Pumps
  BY DEF ScanTyped
<1>2. SeeSignal => pump'.pc = "signal"
  BY <1>1, PumpAt DEF SeeSignal, Handling
<1>3. AppendSignal => pump'.pc = "decide"
  BY <1>1, PumpAt DEF AppendSignal, Handling
<1>4. RunStrategy => pump'.pc \in {"idle", "seen", "strategies"}
  <2>1. RunStrategy => pump \in Running
    BY <1>1, PumpAt DEF RunStrategy
  <2> QED BY <2>1 DEF RunStrategy, Running, Waiting
<1>5. AppendDecision => pump'.pc \in {"seen", "strategies"}
  BY DEF AppendDecision, AfterSignal
<1> QED
  BY <1>2, <1>3, <1>4, <1>5 DEF Decide, AppendRaises, Kill, Deliver, Waiting

LEMMA IdsStep ==
  ASSUME Told, [DeskNext]_vars
  PROVE  Ids'
<1>0. ScanTyped /\ Ids /\ counts.signals \in Nat /\ counts \in Counts
  BY CountsAreNat DEF Told, ScanTyped
<1>1. ASSUME counts'.signals = counts.signals,
             RowsOf("signal")' = RowsOf("signal"), RowsOf("decision")' = RowsOf("decision"),
             \A i \in RowsOf("signal") \cup RowsOf("decision") : rows'[i] = rows[i],
             \/ pump'.pc = pump.pc
             \/ pump'.pc \in {"idle", "strategies", "seen"}
             \/ pump.pc = "decide" /\ pump'.pc = "decision"
      PROVE  Ids'
  BY <1>0, <1>1 DEF Ids
<1>2. ASSUME rows' = rows, counts'.signals = counts.signals,
             \/ pump'.pc = pump.pc
             \/ pump'.pc \in {"idle", "strategies", "seen"}
             \/ pump.pc = "decide" /\ pump'.pc = "decision"
      PROVE  Ids'
  <2>1. RowsOf("signal")' = RowsOf("signal") /\ RowsOf("decision")' = RowsOf("decision")
    BY <1>2 DEF RowsOf
  <2> QED BY <1>1, <1>2, <2>1
<1>3. CASE (\E t \in May.quotes : Deliver(t)) \/ RunStrategy \/ AppendRaises \/ Kill
  <2>1. rows' = rows /\ counts' = counts
    BY <1>3 DEF Deliver, RunStrategy, AppendRaises, Kill
  <2> QED BY <1>0, <1>2, <1>3, <2>1, PumpMoves
<1>4. CASE ReadSignals \/ ReadDecisions \/ StopGateway \/ CloseLedger \/ Load \/ Walk \/ UNCHANGED vars
  <2>1. rows' = rows /\ counts' = counts /\ pump' = pump
    BY <1>4 DEF ReadSignals, ReadDecisions, StopGateway, CloseLedger, Load, Walk, vars, scanVars
  <2> QED BY <1>2, <2>1
<1>5. CASE SeeSignal
  <2>1. rows' = rows /\ counts'.signals = counts.signals + 1 /\ pump'.pc = "signal"
    BY <1>0, <1>5, PumpMoves DEF SeeSignal, Counts
  <2>2. RowsOf("signal")' = RowsOf("signal") /\ RowsOf("decision")' = RowsOf("decision")
    BY <2>1 DEF RowsOf
  <2>3. \A i \in RowsOf("signal") : rows[i].id \in Nat
    BY <1>0 DEF RowsOf, ScanTyped, Row, SignalRow, DecisionRow, SummaryRow
  <2>4. \A i \in RowsOf("signal") : rows[i].id <= counts.signals + 1 /\ rows[i].id # counts.signals + 1
    BY <1>0, <2>3 DEF Ids
  <2> QED BY <1>0, <2>1, <2>2, <2>4 DEF Ids
<1>6. CASE AppendSignal
  <2> DEFINE row == [kind |-> "signal", id |-> counts.signals]
  <2>1. row \in Row /\ row.kind = "signal" /\ row.id = counts.signals /\ rows' = Append(rows, row)
    BY <1>0, <1>6 DEF Row, SignalRow, AppendSignal
  <2>2. pump.pc = "signal" /\ pump'.pc = "decide" /\ counts' = counts
    BY <1>0, <1>6, PumpMoves DEF AppendSignal
  <2> HIDE DEF row
  <2> DEFINE top == Len(rows) + 1
  <2>3. /\ RowsOf("signal")' = RowsOf("signal") \cup {top} /\ RowsOf("decision")' = RowsOf("decision")
        /\ rows'[top] = row /\ \A i \in 1..Len(rows) : rows'[i] = rows[i]
    <3>1. RowsOf("signal")' = RowsOf("signal") \cup {top}
      BY <1>0, <2>1, RowAdded
    <3>2. RowsOf("decision")' = RowsOf("decision")
      BY <1>0, <2>1, RowAdded
    <3>3. rows'[top] = row /\ \A i \in 1..Len(rows) : rows'[i] = rows[i]
      BY <1>0, <2>1, RowAdded
    <3> QED BY <3>1, <3>2, <3>3
  <2>4. RowsOf("signal") \subseteq 1..Len(rows) /\ RowsOf("decision") \subseteq 1..Len(rows)
    BY <1>0, SizeIsNat
  <2> HIDE DEF top
  <2>5. /\ \A i \in RowsOf("signal") : rows'[i] = rows[i]
        /\ \A i \in RowsOf("decision") : rows'[i] = rows[i]
        /\ rows'[top].id = counts.signals
    BY <2>1, <2>3, <2>4
  \* Every decision follows a signal, so none has the new id yet.
  <2>6. \A i \in RowsOf("decision") : rows[i].id # counts.signals
    BY <1>0, <2>2 DEF Ids
  <2>7. \A i, j \in RowsOf("signal")' : rows'[i].id = rows'[j].id => i = j
    BY <1>0, <2>2, <2>3, <2>5 DEF Ids
  <2>8. \A i \in RowsOf("signal")' : rows'[i].id <= counts.signals
    BY <1>0, <2>3, <2>5 DEF Ids
  <2>9. \A i \in RowsOf("decision")' : \E j \in RowsOf("signal")' : j < i /\ rows'[j].id = rows'[i].id
    BY <1>0, <2>3, <2>5 DEF Ids
  <2> QED BY <1>0, <2>2, <2>3, <2>5, <2>6, <2>7, <2>8, <2>9 DEF Ids
<1>7. CASE Decide
  <2>1. rows' = rows /\ counts'.signals = counts.signals /\ pump.pc = "decide" /\ pump'.pc = "decision"
    BY <1>0, <1>7, PumpMoves DEF Decide, Counts
  <2> QED BY <1>2, <2>1
<1>8. CASE AppendDecision
  <2> DEFINE row == [kind |-> "decision", id |-> counts.signals, verdict |-> pump.verdict]
  <2>1. row \in Row /\ row.kind = "decision" /\ row.id = counts.signals /\ rows' = Append(rows, row)
    <3>1. pump.verdict \in Verdicts
      BY <1>0, <1>8, PumpAt DEF AppendDecision, ScanTyped, Deciding
    <3> QED BY <1>0, <1>8, <3>1 DEF Row, DecisionRow, AppendDecision
  <2>2. pump.pc = "decision" /\ pump'.pc \in {"seen", "strategies"} /\ counts' = counts
    BY <1>0, <1>8, PumpMoves DEF AppendDecision
  <2> HIDE DEF row
  <2> DEFINE top == Len(rows) + 1
  <2>3. /\ RowsOf("decision")' = RowsOf("decision") \cup {top} /\ RowsOf("signal")' = RowsOf("signal")
        /\ rows'[top] = row /\ (\A i \in 1..Len(rows) : rows'[i] = rows[i]) /\ Len(rows) \in Nat
    <3>1. RowsOf("signal")' = RowsOf("signal")
      BY <1>0, <2>1, RowAdded
    <3>2. RowsOf("decision")' = RowsOf("decision") \cup {top}
      BY <1>0, <2>1, RowAdded
    <3>3. rows'[top] = row /\ (\A i \in 1..Len(rows) : rows'[i] = rows[i]) /\ Len(rows) \in Nat
      BY <1>0, <2>1, RowAdded
    <3> QED BY <3>1, <3>2, <3>3
  <2>4. RowsOf("signal") \subseteq 1..Len(rows) /\ RowsOf("decision") \subseteq 1..Len(rows)
    BY <1>0, SizeIsNat
  <2>5. \A i \in RowsOf("signal") : i < top
    BY <2>3, <2>4
  <2> HIDE DEF top
  <2>6. /\ \A i \in RowsOf("signal") : rows'[i] = rows[i]
        /\ \A i \in RowsOf("decision") : rows'[i] = rows[i]
        /\ rows'[top].id = counts.signals
    BY <2>1, <2>3, <2>4
  <2>7. \A i, j \in RowsOf("decision")' : rows'[i].id = rows'[j].id => i = j
    BY <1>0, <2>2, <2>3, <2>6 DEF Ids
  <2>8. \A i \in RowsOf("decision")' : \E j \in RowsOf("signal")' : j < i /\ rows'[j].id = rows'[i].id
    BY <1>0, <2>2, <2>3, <2>5, <2>6 DEF Ids
  <2> QED BY <1>0, <2>2, <2>3, <2>6, <2>7, <2>8 DEF Ids
<1>9. CASE SumUp
  <2> DEFINE row == [kind |-> "summary", id |-> 0, counts |-> summary]
  <2>1. row \in Row /\ row.kind = "summary"
    BY <1>0 DEF Row, SummaryRow, ScanTyped
  <2>2. (rows' = Append(rows, row) \/ rows' = rows) /\ counts' = counts /\ pump' = pump
    BY <1>9 DEF SumUp
  <2> HIDE DEF row
  <2>3. CASE rows' = Append(rows, row)
    <3>1. /\ RowsOf("decision")' = RowsOf("decision") /\ RowsOf("signal")' = RowsOf("signal")
          /\ \A i \in 1..Len(rows) : rows'[i] = rows[i]
      <4>1. RowsOf("signal")' = RowsOf("signal")
        BY <1>0, <2>1, <2>3, RowAdded
      <4>2. RowsOf("decision")' = RowsOf("decision")
        BY <1>0, <2>1, <2>3, RowAdded
      <4>3. \A i \in 1..Len(rows) : rows'[i] = rows[i]
        BY <1>0, <2>1, <2>3, RowAdded
      <4> QED BY <4>1, <4>2, <4>3
    <3>2. RowsOf("signal") \subseteq 1..Len(rows) /\ RowsOf("decision") \subseteq 1..Len(rows)
      BY <1>0, SizeIsNat
    <3> QED BY <1>1, <2>2, <3>1, <3>2
  <2> QED BY <1>2, <2>2, <2>3
<1> QED
  BY <1>3, <1>4, <1>5, <1>6, <1>7, <1>8, <1>9 DEF DeskNext, Scan

LEMMA SizesStay ==
  ASSUME rows' = rows
  PROVE  /\ Size("signal")' = Size("signal") /\ Size("decision")' = Size("decision")
BY DEF Size, RowsOf

\* A row of a signal, of a decision or of the summary, in numbers.
LEMMA SizesGrow ==
  ASSUME ScanTyped
  PROVE  /\ AppendSignal => /\ Size("signal")' = Size("signal") + 1
                            /\ Size("decision")' = Size("decision")
         /\ AppendDecision => /\ Size("signal")' = Size("signal")
                              /\ Size("decision")' = Size("decision") + 1
         /\ SumUp => Size("signal")' = Size("signal") /\ Size("decision")' = Size("decision")
<1>1. ASSUME AppendSignal
      PROVE  Size("signal")' = Size("signal") + 1 /\ Size("decision")' = Size("decision")
  <2> DEFINE row == [kind |-> "signal", id |-> counts.signals]
  <2>1. row \in Row /\ row.kind = "signal" /\ rows' = Append(rows, row)
    BY <1>1, CountsAreNat DEF Row, SignalRow, AppendSignal
  <2> HIDE DEF row
  <2>2. Size("signal")' = Size("signal") + 1
    BY <2>1, RowAdded
  <2>3. Size("decision")' = Size("decision")
    BY <2>1, RowAdded
  <2> QED BY <2>2, <2>3
<1>2. ASSUME AppendDecision
      PROVE  Size("signal")' = Size("signal") /\ Size("decision")' = Size("decision") + 1
  <2> DEFINE row == [kind |-> "decision", id |-> counts.signals, verdict |-> pump.verdict]
  <2>1. pump.verdict \in Verdicts
    BY <1>2, PumpAt DEF AppendDecision, ScanTyped, Deciding
  <2>2. row \in Row /\ row.kind = "decision" /\ rows' = Append(rows, row)
    BY <1>2, <2>1, CountsAreNat DEF Row, DecisionRow, AppendDecision
  <2> HIDE DEF row
  <2>3. Size("signal")' = Size("signal")
    BY <2>2, RowAdded
  <2>4. Size("decision")' = Size("decision") + 1
    BY <2>2, RowAdded
  <2> QED BY <2>3, <2>4
<1>3. ASSUME SumUp
      PROVE  Size("signal")' = Size("signal") /\ Size("decision")' = Size("decision")
  <2> DEFINE row == [kind |-> "summary", id |-> 0, counts |-> summary]
  <2>1. row \in Row /\ row.kind = "summary"
    BY DEF Row, SummaryRow, ScanTyped
  <2>2. rows' = Append(rows, row) \/ rows' = rows
    BY <1>3 DEF SumUp
  <2> HIDE DEF row
  <2>3. rows' = Append(rows, row) => Size("signal")' = Size("signal")
    BY <2>1, RowAdded
  <2>4. rows' = Append(rows, row) => Size("decision")' = Size("decision")
    BY <2>1, RowAdded
  <2> QED BY <2>2, <2>3, <2>4, SizesStay
<1> QED
  BY <1>1, <1>2, <1>3

LEMMA NumbersStep ==
  ASSUME Told, [DeskNext]_vars
  PROVE  Numbers'
<1>0. /\ ScanTyped /\ Numbers /\ counts \in Counts /\ lost \in Nat
      /\ counts.signals \in Nat /\ counts.decisions \in Nat
      /\ Size("signal") \in Nat /\ Size("decision") \in Nat
  BY CountsAreNat, SizeIsNat DEF Told, ScanTyped
<1> USE DEF Num, InHand, Counting, Numbers
<1>1. ASSUME NEW t \in May.quotes, Deliver(t)
      PROVE  Numbers'
  <2>1. /\ pump.pc = "idle" /\ pump'.pc \in {"idle", "strategies"} /\ main # "killed"
        /\ main' = main /\ rows' = rows /\ counts' = counts /\ lost' = lost /\ isSim' = isSim
    BY <1>0, <1>1, PumpMoves DEF Deliver, Delivers
  <2> QED BY <1>0, <2>1, SizesStay
<1>2. CASE RunStrategy
  <2>1. /\ pump.pc = "strategies" /\ pump'.pc \in {"idle", "seen", "strategies"}
        /\ main' = main /\ rows' = rows /\ counts' = counts /\ lost' = lost /\ isSim' = isSim
    BY <1>0, <1>2, PumpMoves DEF RunStrategy
  <2> QED BY <1>0, <2>1, SizesStay
<1>3. CASE SeeSignal
  <2>1. /\ pump.pc = "seen" /\ pump'.pc = "signal" /\ counts'.signals = counts.signals + 1
        /\ counts'.decisions = counts.decisions
        /\ main' = main /\ rows' = rows /\ lost' = lost /\ isSim' = isSim
    BY <1>0, <1>3, PumpMoves DEF SeeSignal, Counts
  <2> QED BY <1>0, <2>1, SizesStay
<1>4. CASE AppendSignal
  <2>1. /\ pump.pc = "signal" /\ pump'.pc = "decide" /\ counts' = counts
        /\ main' = main /\ lost' = lost /\ isSim' = isSim
    BY <1>0, <1>4, PumpMoves DEF AppendSignal
  <2> QED BY <1>0, <1>4, <2>1, SizesGrow
<1>5. CASE Decide
  <2>1. /\ pump.pc = "decide" /\ pump'.pc = "decision" /\ counts'.signals = counts.signals
        /\ counts'.decisions = counts.decisions + 1
        /\ main' = main /\ rows' = rows /\ lost' = lost /\ isSim' = isSim
    BY <1>0, <1>5, PumpMoves DEF Decide, Counts
  <2> QED BY <1>0, <2>1, SizesStay
<1>6. CASE AppendDecision
  <2>1. /\ pump.pc = "decision" /\ pump'.pc \in {"seen", "strategies"} /\ counts' = counts
        /\ main' = main /\ lost' = lost /\ isSim' = isSim
    BY <1>0, <1>6, PumpMoves DEF AppendDecision
  <2> QED BY <1>0, <1>6, <2>1, SizesGrow
<1>7. CASE AppendRaises
  <2>1. /\ pump.pc \in {"signal", "decision"} /\ pump'.pc = "idle" /\ counts' = counts
        /\ main' = (IF isSim THEN "stopping" ELSE main)
        /\ rows' = rows /\ lost' = lost + 1 /\ isSim' = isSim
    BY <1>0, <1>7, PumpMoves DEF AppendRaises
  <2> QED BY <1>0, <2>1, SizesStay
<1>8. CASE ReadSignals \/ ReadDecisions \/ StopGateway \/ CloseLedger
  <2>1. /\ pump' = pump /\ rows' = rows /\ counts' = counts /\ lost' = lost /\ isSim' = isSim
        /\ main # "killed" /\ main' # "killed" /\ (main' \in {"reading", "summing"} => Counting)
        /\ main' # "scanning"
    BY <1>8 DEF ReadSignals, ReadDecisions, StopGateway, CloseLedger
  <2> QED BY <1>0, <2>1, SizesStay
<1>9. CASE SumUp
  <2>1. /\ pump' = pump /\ counts' = counts /\ lost' \in {lost, lost + 1} /\ isSim' = isSim
        /\ main # "killed" /\ main' = "stopping"
    BY <1>9 DEF SumUp
  <2> QED BY <1>0, <1>9, <2>1, SizesGrow
<1>10. CASE Kill
  <2>1. pump'.pc = "idle" /\ main' = "killed" /\ rows' = rows /\ counts' = counts /\ lost' = lost
    BY <1>0, <1>10, PumpMoves DEF Kill
  <2> QED BY <1>0, <2>1, SizesStay
<1>11. CASE Load \/ Walk \/ UNCHANGED vars
  <2>1. /\ pump' = pump /\ rows' = rows /\ counts' = counts /\ lost' = lost /\ isSim' = isSim /\ main' = main
    BY <1>11 DEF Load, Walk, vars, scanVars
  <2> QED BY <1>0, <2>1, SizesStay
<1> QED
  BY <1>1, <1>2, <1>3, <1>4, <1>5, <1>6, <1>7, <1>8, <1>9, <1>10, <1>11 DEF DeskNext, Scan

LEMMA ReadingsStep ==
  ASSUME Told, [DeskNext]_vars
  PROVE  Readings'
<1>0. /\ ScanTyped /\ Numbers /\ Readings /\ lost \in Nat
      /\ counts.signals \in Nat /\ counts.decisions \in Nat
      /\ summary.signals \in Nat /\ summary.decisions \in Nat /\ summary \in Counts
      /\ Size("signal") \in Nat /\ Size("decision") \in Nat
  BY CountsAreNat, SizeIsNat DEF Told, ScanTyped
\* In a simulation nothing else moves while the counts are read; at a terminal
\* the rows and the appends lost only become more.
<1>1. ASSUME main' = main \/ main' \notin {"reading", "summing"}, summary' = summary, isSim' = isSim,
             lost' \in {lost, lost + 1},
             Size("signal")' \in {Size("signal"), Size("signal") + 1},
             Size("decision")' \in {Size("decision"), Size("decision") + 1},
             \/ pump' = pump /\ counts' = counts
             \/ ~isSim
             \/ main' \notin {"reading", "summing"}
      PROVE  Readings'
  BY <1>0, <1>1 DEF Readings
<1>2. ASSUME NEW t \in May.quotes, Deliver(t)
      PROVE  Readings'
  BY <1>0, <1>1, <1>2, SizesStay DEF Deliver, Delivers
<1>3. ASSUME pump.pc # "idle", UNCHANGED <<isSim, main, summary, lost>>,
             Size("signal")' \in {Size("signal"), Size("signal") + 1},
             Size("decision")' \in {Size("decision"), Size("decision") + 1}
      PROVE  Readings'
  <2>1. isSim => main \notin {"reading", "summing"}
    BY <1>0, <1>3 DEF Readings
  <2> QED BY <1>0, <1>1, <1>3, <2>1
<1>4. CASE RunStrategy
  BY <1>0, <1>3, <1>4, SizesStay DEF RunStrategy
<1>5. CASE SeeSignal
  BY <1>0, <1>3, <1>5, SizesStay DEF SeeSignal
<1>6. CASE AppendSignal
  BY <1>0, <1>3, <1>6, SizesGrow DEF AppendSignal
<1>7. CASE Decide
  BY <1>0, <1>3, <1>7, SizesStay DEF Decide
<1>8. CASE AppendDecision
  BY <1>0, <1>3, <1>8, SizesGrow DEF AppendDecision
<1>9. CASE AppendRaises
  BY <1>0, <1>1, <1>9, SizesStay DEF AppendRaises
<1>10. CASE ReadSignals
  <2>1. /\ main = "scanning" /\ main' = "reading" /\ (isSim => pump.pc = "idle") /\ isSim' = isSim
        /\ summary'.signals = counts.signals /\ summary'.decisions = summary.decisions
        /\ pump' = pump /\ counts' = counts /\ lost' = lost /\ rows' = rows
    BY <1>0, <1>10 DEF ReadSignals, Counts
  <2>2. counts.signals <= Size("signal") + lost + 1
    BY <1>0, <2>1 DEF Numbers, Num
  <2> QED BY <1>0, <2>1, <2>2, SizesStay DEF Readings
<1>11. CASE ReadDecisions
  <2>1. /\ main = "reading" /\ main' = "summing" /\ isSim' = isSim
        /\ summary'.signals = summary.signals /\ summary'.decisions = counts.decisions
        /\ pump' = pump /\ counts' = counts /\ lost' = lost /\ rows' = rows
    BY <1>0, <1>11 DEF ReadDecisions, Counts
  <2>2. counts.decisions <= Size("decision") + lost + 1
    BY <1>0, <2>1 DEF Numbers, Num
  <2> QED BY <1>0, <2>1, <2>2, SizesStay DEF Readings
<1>12. CASE SumUp \/ StopGateway \/ CloseLedger \/ Kill
  BY <1>12 DEF SumUp, StopGateway, CloseLedger, Kill, Readings
<1>13. CASE Load \/ Walk \/ UNCHANGED vars
  BY <1>0, <1>1, <1>13, SizesStay DEF Load, Walk, vars, scanVars
<1> QED
  BY <1>2, <1>4, <1>5, <1>6, <1>7, <1>8, <1>9, <1>10, <1>11, <1>12, <1>13 DEF DeskNext, Scan

LEMMA Slack == \A n, m, k \in Nat : n <= m + (k + 1) => n <= m + ((k + 1) + 1)
OBVIOUS

LEMMA SummariesStep ==
  ASSUME Told, [DeskNext]_vars
  PROVE  Summaries'
<1>0. /\ ScanTyped /\ ScanTyped' /\ Numbers /\ Readings /\ Summaries /\ lost \in Nat /\ rows \in Seq(Row)
      /\ summary \in Counts /\ counts.signals \in Nat /\ counts.decisions \in Nat
      /\ summary.signals \in Nat /\ summary.decisions \in Nat
      /\ Size("signal") \in Nat /\ Size("decision") \in Nat
  BY CountsAreNat, SizeIsNat, ScanTypedStep DEF Told, ScanTyped
<1>1. \A n \in RowsOf("summary") :
        /\ n \in 1..Len(rows) /\ rows[n].counts.signals \in Nat /\ rows[n].counts.decisions \in Nat
        /\ Before("signal", n) \in Nat /\ Before("decision", n) \in Nat
  <2> TAKE n \in RowsOf("summary")
  <2>1. n \in 1..Len(rows) /\ Before("signal", n) \in Nat /\ Before("decision", n) \in Nat
    BY <1>0, SizeIsNat
  <2>2. rows[n] \in Row /\ rows[n].kind = "summary"
    BY <1>0, <2>1 DEF RowsOf
  <2>3. rows[n].counts \in Counts
    BY <2>2 DEF Row, SignalRow, DecisionRow, SummaryRow
  <2> QED BY <2>1, <2>3 DEF Counts
\* What a summary told it still tells, however many more appends are lost.
<1>2. ASSUME lost' \in {lost, lost + 1},
             NEW c, c.signals \in Nat, c.decisions \in Nat, NEW s \in Nat, NEW d \in Nat,
             Tells(c, s, d, isSim, lost)
      PROVE  Tells(c, s, d, isSim, lost')
  <2>1. lost \in Nat /\ (lost' = lost \/ lost' = lost + 1)
    BY <1>0, <1>2
  <2>2. CASE isSim
    BY <1>2, <2>2, Zenon DEF Tells
  <2>3. CASE ~isSim
    <3>1. /\ c.signals <= s + (lost + 1) /\ c.decisions <= d + (lost + 1)
      BY <1>2, <2>3, Zenon DEF Tells
    <3>2. /\ c.signals <= s + (lost' + 1) /\ c.decisions <= d + (lost' + 1)
      BY <1>2, <2>1, <3>1, Slack, Zenon
    <3> QED BY <2>3, <3>2, Zenon DEF Tells
  <2> QED BY <2>2, <2>3
<1>3. ASSUME isSim' = isSim, lost' \in {lost, lost + 1}, rows' = rows
      PROVE  Summaries'
  <2>1. SUFFICES ASSUME NEW n \in RowsOf("summary")
                 PROVE  Tells(rows[n].counts, Before("signal", n), Before("decision", n), isSim, lost)'
    BY <1>3 DEF Summaries, RowsOf
  <2>2. Before("signal", n)' = Before("signal", n) /\ Before("decision", n)' = Before("decision", n)
    BY <1>3 DEF Before, RowsOf
  <2>3. Tells(rows[n].counts, Before("signal", n), Before("decision", n), isSim, lost)
    BY <1>0, <2>1 DEF Summaries
  <2> QED BY <1>1, <1>2, <1>3, <2>1, <2>2, <2>3
<1>4. ASSUME isSim' = isSim, lost' \in {lost, lost + 1}, NEW row \in Row, rows' = Append(rows, row),
             row.kind = "summary" => /\ row.counts.signals \in Nat /\ row.counts.decisions \in Nat
                                     /\ Tells(row.counts, Size("signal"), Size("decision"), isSim, lost)
      PROVE  Summaries'
  <2>1. /\ rows'[Len(rows) + 1] = row /\ Len(rows) \in Nat /\ \A i \in 1..Len(rows) : rows'[i] = rows[i]
    BY <1>0, <1>4, RowAdded
  <2>2. /\ \A n \in 1..Len(rows) : Before("signal", n)' = Before("signal", n)
        /\ \A n : n = Len(rows) + 1 => Before("signal", n)' = Size("signal")
    BY <1>0, <1>4, RowAdded
  <2>3. /\ \A n \in 1..Len(rows) : Before("decision", n)' = Before("decision", n)
        /\ \A n : n = Len(rows) + 1 => Before("decision", n)' = Size("decision")
    BY <1>0, <1>4, RowAdded
  <2>4. /\ row.kind = "summary" => RowsOf("summary")' = RowsOf("summary") \cup {Len(rows) + 1}
        /\ row.kind # "summary" => RowsOf("summary")' = RowsOf("summary")
    BY <1>0, <1>4, RowAdded
  <2>5. SUFFICES ASSUME NEW n \in RowsOf("summary")'
                 PROVE  Tells(rows[n].counts, Before("signal", n), Before("decision", n), isSim, lost)'
    BY DEF Summaries
  <2>6. CASE n \in RowsOf("summary")
    <3>1. /\ Before("signal", n)' = Before("signal", n) /\ Before("decision", n)' = Before("decision", n)
          /\ rows'[n] = rows[n]
      BY <1>1, <2>1, <2>2, <2>3, <2>6
    <3>2. Tells(rows[n].counts, Before("signal", n), Before("decision", n), isSim, lost)
      BY <1>0, <2>6 DEF Summaries
    <3> QED BY <1>1, <1>2, <1>4, <2>6, <3>1, <3>2
  <2>7. CASE n \notin RowsOf("summary")
    <3>1. row.kind = "summary" /\ n = Len(rows) + 1
      BY <2>4, <2>5, <2>7
    <3>2. /\ Before("signal", n)' = Size("signal") /\ Before("decision", n)' = Size("decision")
          /\ rows'[n] = row
      BY <2>1, <2>2, <2>3, <3>1
    <3> QED BY <1>0, <1>2, <1>4, <3>1, <3>2
  <2> QED BY <2>6, <2>7
<1>5. CASE AppendSignal
  <2> DEFINE row == [kind |-> "signal", id |-> counts.signals]
  <2>1. row \in Row /\ row.kind # "summary" /\ rows' = Append(rows, row) /\ isSim' = isSim /\ lost' = lost
    BY <1>0, <1>5 DEF Row, SignalRow, AppendSignal
  <2> HIDE DEF row
  <2> QED BY <1>4, <2>1
<1>6. CASE AppendDecision
  <2> DEFINE row == [kind |-> "decision", id |-> counts.signals, verdict |-> pump.verdict]
  <2>1. pump.verdict \in Verdicts
    BY <1>0, <1>6, PumpAt DEF AppendDecision, ScanTyped, Deciding
  <2>2. row \in Row /\ row.kind # "summary" /\ rows' = Append(rows, row) /\ isSim' = isSim /\ lost' = lost
    BY <1>0, <1>6, <2>1 DEF Row, DecisionRow, AppendDecision
  <2> HIDE DEF row
  <2> QED BY <1>4, <2>2
<1>7. CASE SumUp
  <2> DEFINE row == [kind |-> "summary", id |-> 0, counts |-> summary]
  <2>1. row \in Row /\ row.counts = summary
    BY <1>0 DEF Row, SummaryRow
  <2>2. Tells(summary, Size("signal"), Size("decision"), isSim, lost)
    <3>1. main = "summing"
      BY <1>7 DEF SumUp
    <3>2. ~isSim => /\ summary.signals <= Size("signal") + lost + 1
                    /\ summary.decisions <= Size("decision") + lost + 1
      BY <1>0, <3>1 DEF Readings
    <3>3. isSim => summary.signals = Size("signal") /\ summary.decisions = Size("decision")
      BY <1>0, <3>1 DEF Readings, Numbers, Counting, Num
    <3> QED BY <1>0, <3>2, <3>3 DEF Tells
  <2>3. isSim' = isSim /\ lost' \in {lost, lost + 1} /\ (rows' = Append(rows, row) \/ rows' = rows)
    BY <1>7 DEF SumUp
  <2> HIDE DEF row
  <2> QED BY <1>0, <1>3, <1>4, <2>1, <2>2, <2>3
<1>8. CASE (\E t \in May.quotes : Deliver(t)) \/ RunStrategy \/ SeeSignal \/ Decide \/ AppendRaises
  <2>1. isSim' = isSim /\ lost' \in {lost, lost + 1} /\ rows' = rows
    BY <1>8 DEF Deliver, RunStrategy, SeeSignal, Decide, AppendRaises
  <2> QED BY <1>3, <2>1
<1>9. CASE ReadSignals \/ ReadDecisions \/ StopGateway \/ CloseLedger \/ Kill
  BY <1>3, <1>9 DEF ReadSignals, ReadDecisions, StopGateway, CloseLedger, Kill
<1>10. CASE Load \/ Walk \/ UNCHANGED vars
  BY <1>3, <1>10 DEF Load, Walk, vars, scanVars
<1> QED
  BY <1>5, <1>6, <1>7, <1>8, <1>9, <1>10 DEF DeskNext, Scan

LEMMA ToldInit == DeskInit => Told
<1> SUFFICES ASSUME DeskInit
             PROVE  Told
  OBVIOUS
<1>1. /\ rows = <<>> /\ pump.pc = "idle" /\ main = "scanning" /\ lost = 0
      /\ counts.signals = 0 /\ counts.decisions = 0
  BY DEF DeskInit, Waiting
<1>2. \A kind : RowsOf(kind) = {}
  BY <1>1 DEF RowsOf
<1>3. Size("signal") = 0 /\ Size("decision") = 0
  BY <1>2, FS_EmptySet DEF Size
<1>4. Ids
  BY <1>1, <1>2 DEF Ids
<1>5. Numbers /\ Readings
  BY <1>1, <1>3 DEF Numbers, Readings, Num, InHand, Counting
<1>6. Summaries
  BY <1>2 DEF Summaries
<1> QED
  BY <1>4, <1>5, <1>6, ScanTypedInit DEF Told

\* However the pump, the main thread, failing appends and a kill interleave, the
\* ledger tells the scan: a decision follows its one signal, no signal is without
\* its decision but the lost and the one in hand, and a summary claims no more than
\* was kept (runtime.py: _scan_loop).
THEOREM TheLedgerTells == DeskSpec => []LedgerTellsTheScan
<1>1. Told /\ [DeskNext]_vars => Told'
  BY ScanTypedStep, IdsStep, NumbersStep, ReadingsStep, SummariesStep DEF Told
<1>2. Told => LedgerTellsTheScan
  <2> SUFFICES ASSUME Told
               PROVE  LedgerTellsTheScan
    OBVIOUS
  <2>0. ScanTyped /\ Ids /\ Numbers /\ Summaries /\ lost \in Nat
        /\ Size("signal") \in Nat /\ Size("decision") \in Nat
    BY SizeIsNat DEF Told, ScanTyped
  <2>1. ASSUME NEW i \in RowsOf("decision")
        PROVE  Cardinality({j \in RowsOf("signal") : j < i /\ rows[j].id = rows[i].id}) = 1
    <3>1. PICK j \in RowsOf("signal") : j < i /\ rows[j].id = rows[i].id
      BY <2>0 DEF Ids
    <3>2. {k \in RowsOf("signal") : k < i /\ rows[k].id = rows[i].id} = {j}
      BY <2>0, <3>1 DEF Ids
    <3> QED BY <3>2, FS_Singleton
  <2>2. \A i, j \in RowsOf("decision") : rows[i].id = rows[j].id => i = j
    BY <2>0 DEF Ids
  <2>3. Cardinality(RowsOf("signal")) <= Cardinality(RowsOf("decision")) + lost + 1
    BY <2>0 DEF Numbers, Num, Size
  <2>4. \A n \in RowsOf("summary") : Tells(rows[n].counts, Before("signal", n), Before("decision", n), isSim, lost)
    BY <2>0 DEF Summaries
  <2> QED BY <2>1, <2>2, <2>3, <2>4 DEF LedgerTellsTheScan, Tells
<1> QED
  BY ToldInit, <1>1, <1>2, PTL DEF DeskSpec
=============================================================================
