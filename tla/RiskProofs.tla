----------------------------- MODULE RiskProofs -----------------------------
(***************************************************************************)
(* Proofs about the risk desk, for every configuration, request, number of *)
(* threads and of processes: what a size promises, when an order is sized  *)
(* in full, and who re-arms the desk.                                      *)
(***************************************************************************)
EXTENDS RiskDesk, FiniteSetTheorems, SequenceTheorems, WellFoundedInduction, TLAPS

-----------------------------------------------------------------------------
(* Sizing *)

LEMMA DivTimes ==
  ASSUME NEW a \in Nat, NEW b \in Nat, b > 0
  PROVE  a \div b \in Nat /\ (a \div b) * b <= a
OBVIOUS

LEMMA FloorBelow ==
  ASSUME NEW volume \in Nat, NEW step \in Nat, step > 0
  PROVE  FloorToStep(volume, step) \in Nat /\ FloorToStep(volume, step) <= volume
BY DivTimes DEF FloorToStep

LEMMA TimesMonotone ==
  ASSUME NEW a \in Nat, NEW b \in Nat, NEW c \in Nat, a <= b
  PROVE  a * c <= b * c
OBVIOUS

LEMMA TimesNatural ==
  ASSUME NEW a \in Nat, NEW b \in Nat
  PROVE  a * b \in Nat
OBVIOUS

LEMMA TimesReflects ==
  ASSUME NEW a \in Nat, NEW b \in Nat, NEW c \in Nat, a * c < b * c
  PROVE  a < b
<1> SUFFICES ASSUME b <= a PROVE FALSE
  OBVIOUS
<1> QED BY TimesMonotone

\* An affordable volume loses at the stop no more than its share of equity.
LEMMA AffordableIsSafe ==
  ASSUME NEW r \in Requests, NEW money \in Nat, NEW share \in Nat, LossPerUnit(r) > 0
  PROVE  /\ Affordable(r, money, share) \in Nat
         /\ Affordable(r, money, share) * LossPerUnit(r) * Whole <= money * share
<1> DEFINE loss == LossPerUnit(r)
           most == (money * share) \div (Whole * loss)
           lots == Affordable(r, money, share)
<1>1. loss \in Nat /\ Whole * loss \in Nat /\ Whole * loss > 0 /\ money * share \in Nat
  BY DEF LossPerUnit, Requests, Whole
<1>2. most \in Nat /\ most * (Whole * loss) <= money * share
  <2> HIDE DEF loss
  <2> QED BY <1>1, DivTimes
<1>3. lots \in Nat /\ lots <= most
  <2>1. r.step \in Nat /\ r.step > 0
    BY DEF Requests
  <2>2. lots = FloorToStep(most, r.step)
    BY DEF Affordable
  <2> HIDE DEF lots, most
  <2> QED BY <1>2, <2>1, <2>2, FloorBelow
<1> HIDE DEF most, lots, loss
<1>4. lots * (Whole * loss) <= most * (Whole * loss)
  BY <1>1, <1>2, <1>3, TimesMonotone
<1>5. lots * loss * Whole = lots * (Whole * loss)
  BY <1>1, <1>3 DEF Whole
<1>6. lots * loss * Whole <= money * share
  BY <1>1, <1>2, <1>3, <1>4, <1>5 DEF Whole
<1> QED
  BY <1>3, <1>6 DEF lots, loss

\* Whatever the request, the equity and the margin in use, an accepted size is a
\* volume the broker takes, and loses at the stop at most max_risk_per_trade.
THEOREM SizesAreSound ==
  ASSUME NEW r \in Requests, NEW money \in Nat, NEW canary \in BOOLEAN, NEW used
  PROVE  SizeIsSound(r, money, size_position(r, money, canary, used))
<1> DEFINE wanted == Wanted(r, money, canary)
           lots == Lots(r, money, canary)
           loss == LossPerUnit(r)
<1> SUFFICES ASSUME Accepted(r, money, canary, used)
             PROVE  /\ lots <= r.max
                    /\ r.min <= r.max => lots >= r.min
                    /\ lots * loss * Whole <= money * MaxRiskPerTrade
  BY DEF SizeIsSound, size_position
<1>1. /\ loss \in Nat /\ loss > 0 /\ RiskPerTrade \in Nat /\ MaxRiskPerTrade \in Nat
      /\ r.min \in Nat /\ r.max \in Nat
  BY RiskConfig DEF Accepted, HasStop, LossPerUnit, Requests
<1>2. Affordable(r, money, RiskPerTrade) \in Nat
  BY <1>1, AffordableIsSafe
<1>3. wanted \in Nat /\ wanted <= r.max
  BY <1>1, <1>2 DEF Wanted
<1>4. CASE TooRisky(r, wanted, money)
  <2>1. lots = Affordable(r, money, MaxRiskPerTrade) /\ lots >= r.min
    BY <1>4 DEF Lots, Accepted, CapFits
  <2>2. lots \in Nat /\ lots * loss * Whole <= money * MaxRiskPerTrade
    BY <1>1, <2>1, AffordableIsSafe
  <2>3. wanted * loss * Whole > money * MaxRiskPerTrade
    BY <1>4 DEF TooRisky
  <2>4. lots < wanted
    <3> HIDE DEF lots, wanted, loss
    <3>1. lots * (loss * Whole) < wanted * (loss * Whole)
      BY <1>1, <1>3, <2>2, <2>3 DEF Whole
    <3>2. loss * Whole \in Nat
      BY <1>1 DEF Whole
    <3> QED BY <1>3, <2>2, <3>1, <3>2, TimesReflects
  <2> QED
    BY <1>1, <1>3, <2>1, <2>2, <2>4
<1>5. CASE ~TooRisky(r, wanted, money)
  <2>1. lots = wanted
    BY <1>5 DEF Lots
  <2>2. r.min <= r.max => wanted >= r.min
    BY <1>1, <1>2 DEF Accepted, MinimumFits, Wanted
  <2>3. wanted * loss * Whole <= money * MaxRiskPerTrade
    <3>1. ~(wanted * loss * Whole > money * MaxRiskPerTrade)
      BY <1>5 DEF TooRisky
    <3> HIDE DEF wanted, loss
    <3> QED BY <1>1, <1>3, <3>1 DEF Whole
  <2> QED
    BY <1>3, <2>1, <2>2, <2>3
<1> QED
  BY <1>4, <1>5

-----------------------------------------------------------------------------
(* Arming *)

\* After a stop that caught nothing past its check no command can write a token:
\* none has its phrase to come or its token validated, and no token is left to
\* validate.
ArmInv ==
  /\ act \in [Activations -> [pc : {"idle", "typing", "done"}, setup : Setups]]
  /\ prom \in [Promotions -> [pc : {"idle", "counted", "valid", "done"}, setup : Setups]]
  /\ setup \in Setups
  /\ clean => /\ token \notin Live
              /\ \A a \in Activations : act[a].pc # "typing"
              /\ \A p \in Promotions : prom[p].pc # "valid"

LEMMA NoTokenIsLive == NoToken \notin Live /\ Stub \notin Live
BY ArmingConfig DEF Live

LEMMA ArmInvInit == ASSUME RiskInit PROVE ArmInv
<1>1. setup \in Setups
  BY ArmingConfig DEF RiskInit, ArmingInit
<1> QED
  BY <1>1 DEF RiskInit, ArmingInit, ArmInv

LEMMA ArmInvCeremony == ASSUME ArmInv, Ceremony PROVE ArmInv'
<1> USE DEF ArmInv
<1>1. CASE Edit
  BY <1>1 DEF Edit
<1>2. CASE EmergencyStop
  BY <1>2, NoTokenIsLive DEF EmergencyStop
<1>3. ASSUME NEW a \in Activations, Activate(a)
      PROVE  ArmInv'
  BY <1>3 DEF Activate
<1>4. ASSUME NEW a \in Activations, Type(a)
      PROVE  ArmInv'
  <2>1. ~clean /\ clean' = clean
    BY <1>4 DEF Type
  <2> QED BY <1>4, <2>1 DEF Type
<1>5. ASSUME NEW p \in Promotions, Promote(p)
      PROVE  ArmInv'
  BY <1>5 DEF Promote
<1>6. ASSUME NEW p \in Promotions, Validate(p)
      PROVE  ArmInv'
  BY <1>6, NoTokenIsLive DEF Validate
<1>7. ASSUME NEW p \in Promotions, WriteLive(p)
      PROVE  ArmInv'
  <2>1. ~clean /\ clean' = clean
    BY <1>7 DEF WriteLive
  <2> QED BY <1>7, <2>1 DEF WriteLive
<1> QED
  BY <1>1, <1>2, <1>3, <1>4, <1>5, <1>6, <1>7 DEF Ceremony

\* The orders and all that happens around them leave the ceremonies alone.
LEMMA OthersLeaveArming ==
  ASSUME Step
  PROVE  Ceremony \/ UNCHANGED armVars
<1>1. ASSUME NEW s \in Slots, Order(s)
      PROVE  UNCHANGED armVars
  BY <1>1 DEF Order, Size, Evaluate, Preflight, AccountAnswers, Gates, OrderChecked, Abandon, Enter,
     SendFails, SendFills, RecordGlobal, RecordSymbol, ReadCanary, CountCanary, Keep
<1>2. ASSUME NEW i \in Ids, Close(i) \/ RecordLoss(i) \/ RecordStreak(i)
      PROVE  UNCHANGED armVars
  BY <1>2 DEF Close, RecordLoss, RecordStreak, Keep
<1>3. CASE Roll \/ Restart \/ World
  BY <1>3 DEF Roll, Restart, World, Keep, armVars
<1> QED
  BY <1>1, <1>2, <1>3 DEF Step

LEMMA ArmInvNext == ASSUME ArmInv, [RiskNext]_vars PROVE ArmInv'
<1>1. CASE Ceremony
  BY <1>1, ArmInvCeremony
<1>2. CASE UNCHANGED armVars
  BY <1>2 DEF ArmInv, armVars
<1> QED
  BY <1>1, <1>2, OthersLeaveArming DEF RiskNext, vars

\* Whatever the processes of the three commands do to each other's token, after an
\* emergency stop that caught none past its check the desk stays disarmed until a
\* new activation begins (runtime.py, arming.py).
THEOREM ReArming == RiskSpec => []ReArmNeedsHuman
<1>1. ArmInv => ReArmNeedsHuman
  BY DEF ArmInv, ReArmNeedsHuman
<1> QED
  BY <1>1, ArmInvInit, ArmInvNext, PTL DEF RiskSpec

-----------------------------------------------------------------------------
(* The canary *)

\* Fills that are not in the canary count yet.
Unfinished == {s \in Slots : slot[s].pc \in {"filled", "recorded", "canary", "counting"}}

\* What a slot's record has, whatever is in it.
Shaped(o) == "pc" \in DOMAIN o /\ (o.pc # "idle" => "size" \in DOMAIN o)

CanaryTypes ==
  /\ real \in Nat /\ canaryFills \in Nat
  /\ "mode" \in DOMAIN mem
  /\ DOMAIN slot = Slots
  /\ \A s \in Slots : Shaped(slot[s]) /\ (slot[s].pc = "counting" => slot[s].seen \in Nat)

\* Neither the count on disk nor one that a thread has read and not written back
\* runs ahead of the fills that are in it or will be.
CountsBehind ==
  /\ canaryFills + Cardinality(Unfinished) <= real
  /\ \A s \in Slots : slot[s].pc = "counting" => slot[s].seen + Cardinality(Unfinished) <= real

\* Until there are enough fills nobody may think so.
Unearned ==
  /\ token \in Live => token.mode # "LIVE"
  /\ \A p \in Promotions : prom[p].pc \notin {"counted", "valid"}
  /\ canaryFills <= real
  /\ mem.mode = "LIVE_CANARY" => /\ \A s \in Slots : slot[s].pc # "idle" => slot[s].size.canary
                                 /\ CountsBehind
  /\ mem.mode # "LIVE_CANARY" => \A s \in Slots : slot[s].pc \notin {"canary", "counting"}

EarnInv == ArmInv /\ CanaryTypes /\ (real < CanaryFills => Unearned)

LEMMA UnfinishedCount ==
  /\ IsFiniteSet(Unfinished) /\ Cardinality(Unfinished) \in Nat
  /\ \A s \in Unfinished : Cardinality(Unfinished) >= 1
<1>1. IsFiniteSet(Unfinished) /\ Cardinality(Unfinished) \in Nat
  BY RiskDeskConfig, FS_Subset, FS_CardinalityType DEF Unfinished
<1>2. ASSUME NEW s \in Unfinished
      PROVE  Cardinality(Unfinished) >= 1
  <2>1. Cardinality(Unfinished) # 0
    BY <1>1, FS_EmptySet
  <2> QED BY <1>1, <2>1
<1> QED
  BY <1>1, <1>2

LEMMA EarnInvInit == ASSUME RiskInit PROVE EarnInv
<1>1. ArmInv
  BY ArmInvInit
<1>2. CanaryTypes
  <2>1. "mode" \in DOMAIN mem
    BY DEF RiskInit, Fresh
  <2> QED BY <2>1 DEF RiskInit, CanaryTypes, Idle, Shaped, ArmingInit
<1>3. Unearned
  <2>1. Unfinished = {} /\ Cardinality(Unfinished) = 0
    BY FS_EmptySet DEF RiskInit, Unfinished, Idle
  <2>2. token \notin Live
    BY NoTokenIsLive DEF RiskInit, ArmingInit
  <2> QED
    BY <2>1, <2>2 DEF RiskInit, Idle, Unearned, CountsBehind, ArmingInit
<1> QED
  BY <1>1, <1>2, <1>3 DEF EarnInv

\* A step of one thread that fills nothing and begins no count.
LEMMA EarnPlain ==
  ASSUME EarnInv, NEW s \in Slots,
         UNCHANGED <<real, canaryFills, armVars>>,
         mem'.mode = mem.mode, "mode" \in DOMAIN mem',
         DOMAIN slot' = Slots, \A t \in Slots \ {s} : slot'[t] = slot[t],
         Shaped(slot'[s]), slot'[s].pc # "counting",
         slot'[s].pc \in {"filled", "recorded", "canary"} => slot[s].pc \in {"filled", "recorded"},
         slot'[s].pc = "canary" => CanaryActive,
         slot[s].pc = "idle" /\ slot'[s].pc # "idle" /\ CanaryActive => slot'[s].size.canary,
         slot[s].pc # "idle" /\ slot'[s].pc # "idle" => slot'[s].size = slot[s].size
  PROVE  EarnInv'
<1>1. ArmInv'
  BY DEF EarnInv, ArmInv, armVars
<1>2. CanaryTypes'
  BY DEF EarnInv, CanaryTypes
<1>3. ASSUME real < CanaryFills
      PROVE  Unearned'
  <2>1. Unearned
    BY <1>3 DEF EarnInv
  <2>2. Unfinished' \subseteq Unfinished
    BY DEF Unfinished
  <2>3. /\ Cardinality(Unfinished') <= Cardinality(Unfinished)
        /\ Cardinality(Unfinished') \in Nat /\ Cardinality(Unfinished) \in Nat
    BY <2>2, UnfinishedCount, FS_Subset, FS_CardinalityType
  <2>4. mem.mode = "LIVE_CANARY" => CountsBehind'
    BY <2>1, <2>3 DEF Unearned, CountsBehind, EarnInv, CanaryTypes
  <2>5. mem.mode = "LIVE_CANARY" => \A t \in Slots : slot'[t].pc # "idle" => slot'[t].size.canary
    BY <1>3, <2>1, ArmingConfig DEF Unearned, CanaryActive, EarnInv, CanaryTypes
  <2> QED
    BY <2>1, <2>4, <2>5 DEF Unearned, CanaryActive, armVars
<1> QED
  BY <1>1, <1>2, <1>3 DEF EarnInv

\* The breaker and the fuse keep the mode.
LEMMA ModeKept ==
  ASSUME "mode" \in DOMAIN mem, NEW y, NEW points
  PROVE  /\ Counted.mode = mem.mode /\ "mode" \in DOMAIN Counted
         /\ Slipped(Counted, y, points).mode = mem.mode
         /\ "mode" \in DOMAIN Slipped(Counted, y, points)
<1>1. Counted.mode = mem.mode /\ "mode" \in DOMAIN Counted
  BY DEF Counted
<1> HIDE DEF Counted
<1>2. ASSUME NEW m, "mode" \in DOMAIN m
      PROVE  Slipped(m, y, points).mode = m.mode /\ "mode" \in DOMAIN Slipped(m, y, points)
  BY <1>2 DEF Slipped
<1> QED
  BY <1>1, <1>2

LEMMA EarnOnTheWay ==
  ASSUME EarnInv, NEW s \in Slots,
         \/ \E y \in bound.symbols, r \in Quotes : Size(s, y, r)
         \/ Evaluate(s) \/ Preflight(s) \/ AccountAnswers(s) \/ Gates(s) \/ OrderChecked(s)
         \/ Abandon(s) \/ Enter(s) \/ SendFails(s) \/ RecordGlobal(s)
  PROVE  EarnInv'
<1> USE DEF Keep, Shaped
<1>0. DOMAIN slot = Slots /\ Shaped(slot[s]) /\ "mode" \in DOMAIN mem
  BY DEF EarnInv, CanaryTypes
<1>1. ASSUME NEW y, NEW r, Size(s, y, r)
      PROVE  EarnInv'
  <2>1. slot'[s].pc = "sized" /\ slot'[s].size = size_position(r, equity, CanaryActive, 0)
        /\ "pc" \in DOMAIN slot'[s] /\ "size" \in DOMAIN slot'[s]
    BY <1>0, <1>1 DEF Size
  <2>2. CanaryActive => slot'[s].size.canary
    BY <2>1 DEF size_position
  <2>3. slot[s].pc = "idle"
    BY <1>1 DEF Size
  <2>4. DOMAIN slot' = Slots /\ \A t \in Slots \ {s} : slot'[t] = slot[t]
    BY <1>0, <1>1 DEF Size
  <2> QED
    BY <1>0, <1>1, <2>1, <2>2, <2>3, <2>4, EarnPlain DEF Size
<1>2. CASE Evaluate(s)
  BY <1>0, <1>2, EarnPlain DEF Evaluate, Idle
<1>3. CASE Preflight(s)
  BY <1>0, <1>3, EarnPlain DEF Preflight
<1>4. CASE AccountAnswers(s)
  BY <1>0, <1>4, EarnPlain DEF AccountAnswers
<1>5. CASE Gates(s)
  BY <1>0, <1>5, EarnPlain DEF Gates, Idle
<1>6. CASE OrderChecked(s)
  BY <1>0, <1>6, EarnPlain DEF OrderChecked
<1>7. CASE Abandon(s)
  BY <1>0, <1>7, EarnPlain DEF Abandon, Idle
<1>8. CASE Enter(s)
  BY <1>0, <1>8, EarnPlain DEF Enter, Idle
<1>9. CASE SendFails(s)
  <2>1. mem'.mode = mem.mode /\ "mode" \in DOMAIN mem'
    BY <1>0, <1>9, ModeKept DEF SendFails
  <2> QED
    BY <1>0, <1>9, <2>1, EarnPlain DEF SendFails, Idle
<1>10. CASE RecordGlobal(s)
  BY <1>0, <1>10, EarnPlain DEF RecordGlobal
<1> QED
  BY <1>1, <1>2, <1>3, <1>4, <1>5, <1>6, <1>7, <1>8, <1>9, <1>10

\* A fill is real before it is anything else.
LEMMA EarnFill ==
  ASSUME EarnInv, NEW s \in Slots, SendFills(s)
  PROVE  EarnInv'
<1> DEFINE o == slot[s]
<1>0. DOMAIN slot = Slots /\ Shaped(o) /\ "mode" \in DOMAIN mem /\ o.pc = "sending" /\ real \in Nat
  BY DEF EarnInv, CanaryTypes, SendFills
<1>1. mem'.mode = mem.mode /\ "mode" \in DOMAIN mem'
  BY <1>0, ModeKept DEF SendFills
<1>2. /\ DOMAIN slot' = Slots /\ \A t \in Slots \ {s} : slot'[t] = slot[t]
      /\ slot'[s].pc = "filled" /\ slot'[s].size = o.size /\ Shaped(slot'[s])
  BY <1>0 DEF SendFills, Shaped
<1>3. real' \in Nat /\ real' >= real /\ (o.size.canary => real' = real + 1)
  BY <1>0 DEF SendFills
<1>4. UNCHANGED <<canaryFills, token, setup, act, prom, clean>>
  BY DEF SendFills, Keep, armVars
<1>5. ArmInv' /\ CanaryTypes'
  BY <1>1, <1>2, <1>3, <1>4 DEF EarnInv, ArmInv, CanaryTypes
<1>6. ASSUME real' < CanaryFills
      PROVE  Unearned'
  <2>1. Unearned
    BY <1>0, <1>3, <1>6, ArmingConfig DEF EarnInv
  <2>2. mem.mode = "LIVE_CANARY" => CountsBehind'
    <3> SUFFICES ASSUME mem.mode = "LIVE_CANARY"
                 PROVE  CountsBehind'
      OBVIOUS
    <3>1. real' = real + 1
      BY <1>0, <1>3, <2>1 DEF Unearned
    <3>2. Unfinished' = Unfinished \cup {s} /\ s \notin Unfinished
      BY <1>0, <1>2 DEF Unfinished
    <3>3. Cardinality(Unfinished') = Cardinality(Unfinished) + 1
      BY <3>2, UnfinishedCount, FS_AddElement
    <3>4. \A t \in Slots : slot'[t].pc = "counting" =>
             slot[t].pc = "counting" /\ slot'[t].seen = slot[t].seen /\ slot[t].seen \in Nat
      BY <1>2 DEF EarnInv, CanaryTypes
    <3> HIDE DEF o
    <3> QED
      BY <1>0, <1>4, <2>1, <3>1, <3>3, <3>4, UnfinishedCount DEF Unearned, CountsBehind, EarnInv, CanaryTypes
  <2>3. mem.mode = "LIVE_CANARY" => \A t \in Slots : slot'[t].pc # "idle" => slot'[t].size.canary
    BY <1>0, <1>2, <2>1 DEF Unearned
  <2> QED
    BY <1>0, <1>1, <1>2, <1>3, <1>4, <2>1, <2>2, <2>3 DEF Unearned, EarnInv, CanaryTypes
<1> QED
  BY <1>5, <1>6 DEF EarnInv

\* Nothing is counted, or the count is to be read.
LEMMA EarnSymbol ==
  ASSUME EarnInv, NEW s \in Slots, RecordSymbol(s)
  PROVE  EarnInv'
<1>0. DOMAIN slot = Slots /\ Shaped(slot[s]) /\ "mode" \in DOMAIN mem /\ slot[s].pc = "recorded"
  BY DEF EarnInv, CanaryTypes, RecordSymbol
<1>1. CASE ~CanaryActive
  BY <1>0, <1>1, EarnPlain DEF RecordSymbol, Keep, Idle, Shaped
<1>2. CASE CanaryActive
  BY <1>0, <1>2, EarnPlain DEF RecordSymbol, Keep, Shaped
<1> QED
  BY <1>1, <1>2

\* The count is read: it is behind already.
LEMMA EarnRead ==
  ASSUME EarnInv, NEW s \in Slots, ReadCanary(s)
  PROVE  EarnInv'
<1>0. DOMAIN slot = Slots /\ Shaped(slot[s]) /\ slot[s].pc = "canary" /\ canaryFills \in Nat
  BY DEF EarnInv, CanaryTypes, ReadCanary
<1>1. /\ DOMAIN slot' = Slots /\ \A t \in Slots \ {s} : slot'[t] = slot[t]
      /\ slot'[s].pc = "counting" /\ slot'[s].size = slot[s].size
      /\ slot'[s].seen = canaryFills /\ Shaped(slot'[s])
  BY <1>0 DEF ReadCanary, Shaped
<1>2. UNCHANGED <<mem, real, canaryFills, token, setup, act, prom, clean>>
  BY DEF ReadCanary, Keep, armVars
<1>3. ArmInv' /\ CanaryTypes'
  BY <1>0, <1>1, <1>2 DEF EarnInv, ArmInv, CanaryTypes
<1>4. ASSUME real < CanaryFills
      PROVE  Unearned'
  <2>1. Unearned /\ mem.mode = "LIVE_CANARY"
    BY <1>0, <1>4 DEF EarnInv, Unearned
  <2>2. Unfinished' = Unfinished
    BY <1>0, <1>1 DEF Unfinished
  <2>3. CountsBehind'
    BY <1>1, <1>2, <2>1, <2>2 DEF Unearned, CountsBehind
  <2> QED
    BY <1>0, <1>1, <1>2, <2>1, <2>3 DEF Unearned
<1> QED
  BY <1>2, <1>3, <1>4 DEF EarnInv

\* The count is written: what is in it now was not in it before.
LEMMA EarnCount ==
  ASSUME EarnInv, NEW s \in Slots, CountCanary(s)
  PROVE  EarnInv'
<1>0. /\ DOMAIN slot = Slots /\ slot[s].pc = "counting" /\ slot[s].seen \in Nat
      /\ real \in Nat /\ canaryFills \in Nat
  BY DEF EarnInv, CanaryTypes, CountCanary
<1>1. /\ DOMAIN slot' = Slots /\ \A t \in Slots \ {s} : slot'[t] = slot[t]
      /\ slot'[s] = Idle /\ canaryFills' = slot[s].seen + 1
  BY <1>0 DEF CountCanary
<1>2. UNCHANGED <<mem, real, token, setup, act, prom, clean>>
  BY DEF CountCanary, Keep, armVars
<1>3. ArmInv' /\ CanaryTypes'
  BY <1>0, <1>1, <1>2 DEF EarnInv, ArmInv, CanaryTypes, Idle, Shaped
<1>4. ASSUME real < CanaryFills
      PROVE  Unearned'
  <2>1. Unearned /\ mem.mode = "LIVE_CANARY"
    BY <1>0, <1>4 DEF EarnInv, Unearned
  <2>2. Unfinished' = Unfinished \ {s} /\ s \in Unfinished
    BY <1>0, <1>1 DEF Unfinished, Idle
  <2>3. /\ Cardinality(Unfinished') = Cardinality(Unfinished) - 1
        /\ Cardinality(Unfinished) \in Nat /\ Cardinality(Unfinished) >= 1
    BY <2>2, UnfinishedCount, FS_RemoveElement
  <2>4. slot[s].seen + Cardinality(Unfinished) <= real
    BY <1>0, <2>1 DEF Unearned, CountsBehind
  <2>5. canaryFills' <= real /\ canaryFills' + Cardinality(Unfinished') <= real
    BY <1>0, <1>1, <2>3, <2>4
  <2>6. \A t \in Slots : slot'[t].pc = "counting" =>
           slot[t].pc = "counting" /\ slot'[t].seen = slot[t].seen /\ slot[t].seen \in Nat
    BY <1>1 DEF EarnInv, CanaryTypes, Idle
  <2>7. CountsBehind'
    BY <1>0, <1>2, <2>1, <2>3, <2>5, <2>6 DEF Unearned, CountsBehind
  <2> QED
    BY <1>1, <1>2, <2>1, <2>5, <2>7 DEF Unearned, Idle
<1> QED
  BY <1>2, <1>3, <1>4 DEF EarnInv

LEMMA EarnCeremony ==
  ASSUME EarnInv, Ceremony, UNCHANGED riskVars
  PROVE  EarnInv'
<1>1. ArmInv' /\ canaryFills' = canaryFills
  BY ArmInvCeremony DEF EarnInv, Ceremony, Edit, EmergencyStop, Activate, Type, Promote, Validate, WriteLive
<1>2. CanaryTypes'
  BY <1>1 DEF EarnInv, CanaryTypes, riskVars
<1>3. ASSUME real < CanaryFills
      PROVE  Unearned'
  <2>1. Unearned /\ canaryFills < CanaryFills
    BY <1>3, ArmingConfig DEF EarnInv, Unearned, CanaryTypes
  <2>2. prom \in [Promotions -> [pc : {"idle", "counted", "valid", "done"}, setup : Setups]]
    BY DEF EarnInv, ArmInv
  <2>3. (\A p \in Promotions : prom[p].pc \notin {"counted", "valid"})'
    <3>1. ASSUME NEW p \in Promotions, Promote(p)
          PROVE  \A q \in Promotions : prom'[q].pc \notin {"counted", "valid"}
      BY <2>1, <2>2, <3>1 DEF Promote, Unearned
    <3>2. ASSUME NEW p \in Promotions, Validate(p) \/ WriteLive(p)
          PROVE  FALSE
      BY <2>1, <3>2 DEF Unearned, Validate, WriteLive
    <3> QED
      BY <2>1, <3>1, <3>2 DEF Unearned, Ceremony, Edit, EmergencyStop, Activate, Type
  <2>4. (token \in Live => token.mode # "LIVE")'
    <3>1. ASSUME NEW a \in Activations, Type(a)
          PROVE  token' = token \/ token'.mode = "LIVE_CANARY"
      BY <3>1 DEF Type
    <3>2. ASSUME NEW p \in Promotions, Validate(p) \/ WriteLive(p)
          PROVE  FALSE
      BY <2>1, <3>2 DEF Unearned, Validate, WriteLive
    <3> QED
      BY <2>1, <3>1, <3>2, NoTokenIsLive
      DEF Unearned, Ceremony, Edit, EmergencyStop, Activate, Promote
  <2>5. CountsBehind' = CountsBehind /\ UNCHANGED <<mem, slot, real>>
    BY <1>1 DEF CountsBehind, Unfinished, riskVars
  <2> QED
    BY <1>1, <2>1, <2>3, <2>4, <2>5 DEF Unearned
<1> QED
  BY <1>1, <1>2, <1>3 DEF EarnInv, riskVars

LEMMA EarnAround ==
  ASSUME EarnInv, UNCHANGED <<mem, slot, real, canaryFills, armVars>>
  PROVE  EarnInv'
<1>1. ArmInv' /\ CanaryTypes'
  BY DEF EarnInv, ArmInv, CanaryTypes, armVars
<1>2. Unearned' = Unearned
  BY DEF Unearned, CountsBehind, Unfinished, armVars
<1> QED
  BY <1>1, <1>2 DEF EarnInv

\* A restart forgets what was not counted yet.
LEMMA EarnRestart == ASSUME EarnInv, Restart PROVE EarnInv'
<1>1. /\ UNCHANGED <<real, canaryFills, token, setup, act, prom, clean>>
      /\ \A s \in Slots : slot'[s] = Idle
      /\ DOMAIN slot' = Slots /\ "mode" \in DOMAIN mem'
  BY DEF Restart, armVars, Fresh
<1>2. ArmInv' /\ CanaryTypes'
  BY <1>1 DEF EarnInv, ArmInv, CanaryTypes, Idle, Shaped
<1>3. ASSUME Unearned
      PROVE  Unearned'
  <2>1. Unfinished' = {} /\ Cardinality(Unfinished') = 0
    BY <1>1, FS_EmptySet DEF Unfinished, Idle
  <2>2. CountsBehind'
    BY <1>1, <1>3, <2>1 DEF Unearned, CountsBehind, Idle, EarnInv, CanaryTypes
  <2> QED
    BY <1>1, <1>3, <2>2 DEF Unearned, Idle
<1> QED
  BY <1>1, <1>2, <1>3 DEF EarnInv

LEMMA EarnNext == ASSUME EarnInv, [RiskNext]_vars PROVE EarnInv'
<1>1. ASSUME NEW s \in Slots, Order(s)
      PROVE  EarnInv'
  BY <1>1, EarnOnTheWay, EarnFill, EarnSymbol, EarnRead, EarnCount DEF Order
<1>2. ASSUME NEW i \in Ids, Close(i) \/ RecordLoss(i) \/ RecordStreak(i)
      PROVE  EarnInv'
  BY <1>2, EarnAround DEF Close, RecordLoss, RecordStreak, Keep
<1>3. CASE Roll \/ World
  <2>1. UNCHANGED <<mem, slot, real, canaryFills, armVars>>
    BY <1>3 DEF Roll, World, Tick, Market, Keep, armVars
  <2> QED BY <2>1, EarnAround
<1>4. CASE Restart
  BY <1>4, EarnRestart
<1>5. CASE Ceremony /\ UNCHANGED riskVars
  BY <1>5, EarnCeremony
<1>6. CASE UNCHANGED vars
  BY <1>6, EarnAround DEF vars, riskVars
<1> QED
  BY <1>1, <1>2, <1>3, <1>4, <1>5, <1>6 DEF RiskNext, Step

\* However many threads read and write the canary count at once, however many kills
\* lose some of them and whatever the promotions do, in LIVE_CANARY no order is
\* sized in full, and no token says LIVE, before canary_fills minimal-lot fills
\* (commander.py: canary_active, record_fill; runtime.py: promote_live_full_cli).
THEOREM FullSizes == RiskSpec => []FullSizeIsEarned
<1>1. EarnInv => FullSizeIsEarned
  BY ArmingConfig DEF EarnInv, Unearned, FullSizeIsEarned, CanaryTypes
<1> QED
  BY <1>1, EarnInvInit, EarnNext, PTL DEF RiskSpec

-----------------------------------------------------------------------------
(* Sums over the fills *)

\* The sum of the risks of some fills, and the iteration behind it.
Sum(f, S)  == MapThenSumSet(LAMBDA i : f[i].frac, S)
Pick(s)    == CHOOSE x \in s : TRUE
Adds(g, f, S) ==
  g = [s \in SUBSET S |-> IF s = {} THEN 0 ELSE f[Pick(s)].frac + g[s \ {Pick(s)}]]

LEMMA PickOf == ASSUME NEW s, s # {} PROVE Pick(s) \in s
BY DEF Pick

\* A family of subsets of a finite set has one with no other below it.
LEMMA SmallestSet ==
  ASSUME NEW S, IsFiniteSet(S), NEW F \in SUBSET SUBSET S, F # {}
  PROVE  \E s \in F : \A r \in F : ~(r \subseteq s /\ r # s)
<1>1. FiniteSubsetsOf(S) = SUBSET S
  BY FS_FiniteSubsetsOfFinite
<1>2. \E s \in F : \A r \in F : ~(<<r, s>> \in StrictSubsetOrdering(S))
  BY <1>1, FS_StrictSubsetOrderingWellFounded, WFMin
<1>3. PICK s \in F : \A r \in F : ~(<<r, s>> \in StrictSubsetOrdering(S))
  BY <1>2
<1>4. ASSUME NEW r \in F, r \subseteq s, r # s
      PROVE  FALSE
  <2>1. <<r, s>> \in StrictSubsetOrdering(S)
    BY <1>4 DEF StrictSubsetOrdering
  <2> QED BY <1>3, <2>1
<1> QED BY <1>4

\* The sum of a set does not depend on what else there is.
LEMMA OneSum ==
  ASSUME NEW f, NEW g, NEW S, Adds(g, f, S), NEW e, NEW h, NEW T, Adds(h, e, T),
         NEW U, IsFiniteSet(U), U \subseteq S, U \subseteq T, \A i \in U : f[i].frac = e[i].frac
  PROVE  g[U] = h[U]
<1> SUFFICES ASSUME g[U] # h[U] PROVE FALSE
  OBVIOUS
<1> DEFINE F == {s \in SUBSET U : g[s] # h[s]}
<1>1. PICK s \in F : \A r \in F : ~(r \subseteq s /\ r # s)
  <2>1. F # {} /\ F \in SUBSET SUBSET U
    OBVIOUS
  <2> HIDE DEF F
  <2> QED BY <2>1, SmallestSet
<1>2. \A r \in SUBSET U : /\ g[r] = IF r = {} THEN 0 ELSE f[Pick(r)].frac + g[r \ {Pick(r)}]
                          /\ h[r] = IF r = {} THEN 0 ELSE e[Pick(r)].frac + h[r \ {Pick(r)}]
  BY DEF Adds
<1>3. s # {}
  BY <1>1, <1>2
<1>4. Pick(s) \in s /\ s \ {Pick(s)} \in SUBSET U /\ s \ {Pick(s)} # s
  BY <1>1, <1>3, PickOf
<1>5. g[s \ {Pick(s)}] = h[s \ {Pick(s)}]
  BY <1>1, <1>4
<1> QED BY <1>1, <1>2, <1>3, <1>4, <1>5

LEMMA SumExists ==
  ASSUME NEW f, NEW S, IsFiniteSet(S)
  PROVE  \E g : Adds(g, f, S)
<1> SUFFICES ASSUME ~\E g : Adds(g, f, S) PROVE FALSE
  OBVIOUS
<1> DEFINE F == {s \in SUBSET S : ~\E g : Adds(g, f, s)}
           Of(s) == CHOOSE g : Adds(g, f, s)
<1>1. PICK T \in F : \A r \in F : ~(r \subseteq T /\ r # T)
  <2>1. F # {} /\ F \in SUBSET SUBSET S
    OBVIOUS
  <2> HIDE DEF F
  <2> QED BY <2>1, SmallestSet
<1>2. ASSUME NEW r \in SUBSET T, r # T
      PROVE  Adds(Of(r), f, r) /\ IsFiniteSet(r)
  <2>1. r \in SUBSET S /\ r \notin F
    BY <1>1, <1>2
  <2>2. \E g : Adds(g, f, r)
    BY <2>1
  <2> HIDE DEF F
  <2> QED BY <2>1, <2>2, FS_Subset
<1> DEFINE h == [s \in SUBSET T |-> IF s = {} THEN 0
                                    ELSE f[Pick(s)].frac + Of(s \ {Pick(s)})[s \ {Pick(s)}]]
<1>3. ASSUME NEW r \in SUBSET T, r # T
      PROVE  h[r] = Of(r)[r]
  <2>1. Adds(Of(r), f, r) /\ IsFiniteSet(r)
    BY <1>2, <1>3
  <2>2. Of(r)[r] = IF r = {} THEN 0 ELSE f[Pick(r)].frac + Of(r)[r \ {Pick(r)}]
    <3> HIDE DEF Of
    <3> QED BY <2>1 DEF Adds
  <2>3. CASE r # {}
    <3> DEFINE u == r \ {Pick(r)}
    <3>1. u \in SUBSET T /\ u # T /\ u \subseteq r
      BY <2>3, PickOf
    <3>2. Adds(Of(u), f, u) /\ IsFiniteSet(u)
      BY <1>2, <3>1
    <3>3. Of(r)[u] = Of(u)[u]
      <4> HIDE DEF Of, u
      <4> QED BY <2>1, <3>1, <3>2, OneSum
    <3>4. h[r] = f[Pick(r)].frac + Of(u)[u]
      BY <2>3
    <3> HIDE DEF Of, h
    <3> QED BY <2>2, <2>3, <3>3, <3>4
  <2>4. CASE r = {}
    <3>1. h[r] = 0
      BY <2>4
    <3> HIDE DEF Of, h
    <3> QED BY <2>2, <2>4, <3>1
  <2> QED BY <2>3, <2>4
<1>4. ASSUME NEW s \in SUBSET T
      PROVE  h[s] = IF s = {} THEN 0 ELSE f[Pick(s)].frac + h[s \ {Pick(s)}]
  <2>1. CASE s # {}
    <3>1. s \ {Pick(s)} \in SUBSET T /\ s \ {Pick(s)} # T
      BY <2>1, PickOf
    <3>2. h[s \ {Pick(s)}] = Of(s \ {Pick(s)})[s \ {Pick(s)}]
      BY <1>3, <3>1
    <3>3. h[s] = f[Pick(s)].frac + Of(s \ {Pick(s)})[s \ {Pick(s)}]
      BY <2>1
    <3> HIDE DEF Of, h
    <3> QED BY <2>1, <3>2, <3>3
  <2>2. CASE s = {}
    BY <2>2
  <2> QED BY <2>1, <2>2
<1>5. h = [s \in SUBSET T |-> h[s]]
  OBVIOUS
<1>6. Adds(h, f, T)
  <2> HIDE DEF h
  <2> QED BY <1>4, <1>5 DEF Adds
<1> HIDE DEF h
<1> QED BY <1>1, <1>6

LEMMA SumIs ==
  ASSUME NEW f, NEW S, IsFiniteSet(S)
  PROVE  \E g : Adds(g, f, S) /\ Sum(f, S) = g[S]
<1> DEFINE g == CHOOSE g : Adds(g, f, S)
<1>1. Adds(g, f, S)
  BY SumExists
<1>2. Sum(f, S) = g[S]
  BY DEF Sum, MapThenSumSet, MapThenFoldSet, Adds, Pick
<1> QED BY <1>1, <1>2

\* Sums of the same risks are the same.
LEMMA SumSame ==
  ASSUME NEW f, NEW e, NEW S, IsFiniteSet(S), \A i \in S : f[i].frac = e[i].frac
  PROVE  Sum(f, S) = Sum(e, S)
<1>1. PICK g : Adds(g, f, S) /\ Sum(f, S) = g[S]
  BY SumIs
<1>2. PICK h : Adds(h, e, S) /\ Sum(e, S) = h[S]
  BY SumIs
<1> QED BY <1>1, <1>2, OneSum

LEMMA SumNat ==
  ASSUME NEW f, NEW S, IsFiniteSet(S), \A i \in S : f[i].frac \in Nat
  PROVE  Sum(f, S) \in Nat
<1>1. PICK g : Adds(g, f, S) /\ Sum(f, S) = g[S]
  BY SumIs
<1> SUFFICES ASSUME g[S] \notin Nat PROVE FALSE
  BY <1>1
<1> DEFINE F == {s \in SUBSET S : g[s] \notin Nat}
<1>2. PICK s \in F : \A r \in F : ~(r \subseteq s /\ r # s)
  <2>1. F # {} /\ F \in SUBSET SUBSET S
    OBVIOUS
  <2> HIDE DEF F
  <2> QED BY <2>1, SmallestSet
<1>3. g[s] = IF s = {} THEN 0 ELSE f[Pick(s)].frac + g[s \ {Pick(s)}]
  BY <1>1, <1>2 DEF Adds
<1>4. s # {} /\ Pick(s) \in s
  BY <1>2, <1>3, PickOf
<1>5. s \ {Pick(s)} \in SUBSET S /\ g[s \ {Pick(s)}] \in Nat
  BY <1>2, <1>4
<1> QED BY <1>2, <1>3, <1>4, <1>5

\* Whatever is picked first, one fill more adds its risk.
LEMMA SumMore ==
  ASSUME NEW f, NEW S, IsFiniteSet(S), \A i \in S : f[i].frac \in Nat, NEW x \in S
  PROVE  Sum(f, S) = f[x].frac + Sum(f, S \ {x})
<1>1. PICK g : Adds(g, f, S) /\ Sum(f, S) = g[S]
  BY SumIs
<1>2. ASSUME NEW s \in SUBSET S
      PROVE  Sum(f, s) = g[s] /\ g[s] \in Nat
  <2>1. IsFiniteSet(s)
    BY FS_Subset
  <2>2. PICK h : Adds(h, f, s) /\ Sum(f, s) = h[s]
    BY <2>1, SumIs
  <2> QED BY <1>1, <2>1, <2>2, OneSum, SumNat
<1> SUFFICES ASSUME g[S] # f[x].frac + g[S \ {x}] PROVE FALSE
  BY <1>2
<1> DEFINE F == {s \in SUBSET S : \E y \in s : g[s] # f[y].frac + g[s \ {y}]}
<1>3. PICK s \in F : \A r \in F : ~(r \subseteq s /\ r # s)
  <2>1. F # {} /\ F \in SUBSET SUBSET S
    OBVIOUS
  <2> HIDE DEF F
  <2> QED BY <2>1, SmallestSet
<1>4. PICK y \in s : g[s] # f[y].frac + g[s \ {y}]
  BY <1>3
<1> DEFINE p == Pick(s)
<1>5. p \in s /\ g[s] = f[p].frac + g[s \ {p}]
  BY <1>1, <1>3, <1>4, PickOf DEF Adds
<1>6. p # y
  BY <1>4, <1>5
<1>7. g[s \ {p}] = f[y].frac + g[(s \ {p}) \ {y}]
  BY <1>3, <1>4, <1>5, <1>6
<1>8. g[s \ {y}] = f[p].frac + g[(s \ {y}) \ {p}]
  BY <1>3, <1>4, <1>5, <1>6
<1>9. (s \ {p}) \ {y} = (s \ {y}) \ {p}
  OBVIOUS
<1>10. f[p].frac \in Nat /\ f[y].frac \in Nat /\ g[(s \ {p}) \ {y}] \in Nat
  BY <1>2, <1>3, <1>4, <1>5
<1>11. g[s \ {y}] = f[p].frac + g[(s \ {p}) \ {y}]
  BY <1>8, <1>9
<1> HIDE DEF p, F
<1> QED BY <1>4, <1>5, <1>7, <1>10, <1>11

\* Fewer fills are no more risk.
LEMMA SumBelow ==
  ASSUME NEW f, NEW S, IsFiniteSet(S), \A i \in S : f[i].frac \in Nat, NEW T, T \subseteq S
  PROVE  Sum(f, T) <= Sum(f, S)
<1> SUFFICES ASSUME ~(Sum(f, T) <= Sum(f, S)) PROVE FALSE
  OBVIOUS
<1> DEFINE F == {s \in SUBSET S : T \subseteq s /\ ~(Sum(f, T) <= Sum(f, s))}
<1>1. PICK s \in F : \A r \in F : ~(r \subseteq s /\ r # s)
  <2>1. F # {} /\ F \in SUBSET SUBSET S
    OBVIOUS
  <2> HIDE DEF F
  <2> QED BY <2>1, SmallestSet
<1>2. \A r \in SUBSET S : IsFiniteSet(r) /\ Sum(f, r) \in Nat
  <2> SUFFICES ASSUME NEW r \in SUBSET S PROVE IsFiniteSet(r) /\ Sum(f, r) \in Nat
    OBVIOUS
  <2>1. IsFiniteSet(r)
    BY FS_Subset
  <2> QED BY <2>1, SumNat
<1>3. s # T
  BY <1>1, <1>2
<1>4. PICK x \in s : x \notin T
  BY <1>1, <1>3
<1>5. s \ {x} \in SUBSET S /\ T \subseteq s \ {x} /\ s \ {x} # s
  BY <1>1, <1>4
<1>6. Sum(f, T) <= Sum(f, s \ {x})
  BY <1>1, <1>5
<1>7. Sum(f, s) = f[x].frac + Sum(f, s \ {x}) /\ f[x].frac \in Nat
  BY <1>1, <1>2, SumMore
<1> QED BY <1>1, <1>2, <1>5, <1>6, <1>7

-----------------------------------------------------------------------------
(* What an order, the disk and the process hold *)

Way   == {"sized", "judged", "asking", "gates", "checking", "passed"}
Sizes == [ok : BOOLEAN, lots : Nat, canary : BOOLEAN, risk : Nat]

Judging  == [pc : Way, sym : Symbols, asOf : Nat, eq : Positive, started : Nat, size : Sizes]
Sending  == [pc : {"sending"}, sym : Symbols, sends : Nat, size : Sizes, frac : 0..MaxRiskPerTrade]
Filled   == [pc : {"filled", "recorded"}, size : Sizes, id : Nat]
Counting == [pc : {"canary"}, size : Sizes] \cup [pc : {"counting"}, size : Sizes, seen : Nat]
Hands    == {Idle} \cup Judging \cup Sending \cup Filled \cup Counting

Fills == [sym : Symbols, at : Nat, frac : 0..MaxRiskPerTrade,
          state : {"open", "closed", "half", "over"}, closed : Int,
          result : {"none", "win", "loss", "stop"}]

Disks == [day : Int, week : Int, dayAnchor : Int, weekAnchor : Int, peak : Int, trades : SUBSET Nat,
          symTrades : SUBSET Nat, losses : SUBSET Nat, pauseUntil : Int,
          streak : [Symbols -> Nat], coolUntil : [Symbols -> Int], stopout : [Symbols -> Int]]

Mems == [mode : STRING, sends : SUBSET [at : Nat, nr : Nat], blown : BOOLEAN, after : Nat,
         slips : [Symbols -> Seq(Nat)], tripped : SUBSET Symbols,
         account : [ok : BOOLEAN, expires : Int]]

Typed ==
  /\ now \in Nat /\ equity \in Positive /\ real \in Nat /\ bound \in Courses
  /\ disk \in Disks /\ mem \in Mems /\ IsFiniteSet(mem.sends)
  /\ broker \in [perm : BOOLEAN, fills : Seq(Fills)]
  /\ slot \in [Slots -> Hands]
  /\ since \in [Vetoes -> Int]

\* Orders are not of the future, and of the size that was promised; what is on
\* disk is of fills there were.
Related ==
  /\ \A s \in Slots : slot[s].pc \in Way => /\ slot[s].asOf <= now /\ slot[s].started <= now
                                           /\ RiskFrac(slot[s]) \in 0..MaxRiskPerTrade
  /\ \A s \in Slots : slot[s].pc = "sending" => slot[s].sends < bound.sends
  /\ \A s \in Slots : slot[s].pc \in {"filled", "recorded"} => slot[s].id \in Ids
  /\ \A s \in Slots : slot[s].pc = "recorded" => slot[s].id \in disk.trades
  /\ disk.trades \subseteq Ids /\ disk.symTrades \subseteq disk.trades
  /\ \A i \in disk.losses : /\ i \in Ids /\ Fill(i).state \in {"half", "over"}
                            /\ Fill(i).result \in {"loss", "stop"}
  /\ \A i \in Ids : Fill(i).at <= now /\ (Fill(i).state # "open" => Fill(i).result # "none")

\* The sends that the threads past the fuse may still make.
Budget == {b \in Slots \X (1..bound.sends) : slot[b[1]].pc = "sending" /\ slot[b[1]].sends < b[2]}

FuseInv ==
  IF mem.blown THEN mem.after + Cardinality(Budget) < Cardinality(Slots) * bound.sends
               ELSE mem.after = 0

\* The threads whose order has been approved and may still fill.
Approving == {"judged", "asking", "gates", "checking", "passed", "sending"}
Committed == {s \in Slots : slot[s].pc \in Approving}

FracOf(o) == IF o.pc = "sending" THEN o.frac ELSE RiskFrac(o)
Exposure  == MapThenSumSet(LAMBDA i : Fill(i).frac, OpenIds)
MostRisk  == Risk.maxOpenRisk + (Cardinality(Slots) - 1) * MaxRiskPerTrade

OpenInv == Cardinality(OpenIds) + Cardinality(Committed) < Risk.maxPositions + Cardinality(Slots)

\* The last order approved fits with the others at their largest.
RiskInv ==
  IF Committed = {} THEN Exposure <= MostRisk
  ELSE \E s \in Committed :
         Exposure + FracOf(slot[s]) + (Cardinality(Committed) - 1) * MaxRiskPerTrade <= MostRisk

\* The fills of an hour that are on disk or will be, and those that may join them.
InHour(t) == {i \in Ids \ LostRecords : Fill(i).at \in t..(t + Risk.hour)}
HourAt(t) == Cardinality(InHour(t)) + (IF now <= t + Risk.hour THEN Cardinality(Committed) ELSE 0)
               < Risk.hourCap + Cardinality(Slots)
HourInv   == \A t \in Nat : HourAt(t)

Halts == {"HARD_DRAWDOWN", "WEEKLY_LOSS_HALT", "DAILY_LOSS_HALT"}

\* What a standing veto means for an order: one sized since it began is not
\* approved, and one approved before is too old to pass when it has lasted.
Bites(s, v) ==
  LET o == slot[s] IN
  IF v[1] = "TRADE_NOT_ALLOWED"
  THEN (o.pc = "gates" /\ mem.account.ok) \/ o.pc \in {"checking", "passed"}
         => o.started - since[v] <= Risk.accountTtl
  ELSE IF o.pc = "sized"
  THEN v[1] \in Halts => o.asOf <= since[v] \/ check_halts(v[1], o.eq)
  ELSE o.asOf <= since[v]

VetoInv ==
  /\ \A v \in Vetoes : since[v] # Never => since[v] \in 0..now /\ Stands(v)
  /\ \A s \in Slots, v \in Vetoes :
        since[v] # Never /\ slot[s].pc \in Way /\ v[2] = slot[s].sym => Bites(s, v)
  /\ \A s \in Slots : slot[s].pc \in {"checking", "passed"} =>
        slot[s].started - slot[s].asOf <= Risk.verdictAge
  /\ \A v \in Vetoes : since[v] # Never /\ v[1] = "TRADE_NOT_ALLOWED" /\ mem.account.ok =>
        mem.account.expires - Risk.accountTtl <= since[v]
  /\ mem.account.expires - Risk.accountTtl <= now

LEMMA SlotsAre ==
  ASSUME Typed, NEW s \in Slots
  PROVE  /\ slot[s] \in Hands
         /\ slot[s].pc \in Way => slot[s] \in Judging
         /\ slot[s].pc = "sending" => slot[s] \in Sending
         /\ slot[s].pc \in {"filled", "recorded"} => slot[s] \in Filled
         /\ slot[s].pc \in {"canary", "counting"} => slot[s] \in Counting
<1>1. slot[s] \in Hands
  BY DEF Typed
<1>2. /\ Idle.pc = "idle"
      /\ \A o \in Judging : o.pc \in Way
      /\ \A o \in Sending : o.pc = "sending"
      /\ \A o \in Filled : o.pc \in {"filled", "recorded"}
      /\ \A o \in Counting : o.pc \in {"canary", "counting"}
  BY DEF Idle, Judging, Sending, Filled, Counting
<1> QED
  BY <1>1, <1>2 DEF Hands, Way

LEMMA Quotient ==
  ASSUME NEW a \in Nat, NEW e \in Nat, e > 0, NEW m \in Nat, a <= e * m
  PROVE  a \div e \in 0..m
<1> DEFINE q == a \div e
<1>1. q \in Nat /\ q * e <= a
  BY DivTimes
<1> HIDE DEF q
<1>2. ASSUME m + 1 <= q
      PROVE  FALSE
  <2>1. (m + 1) * e <= q * e
    BY <1>1, <1>2, TimesMonotone
  <2>2. (m + 1) * e = e * m + e /\ q * e \in Nat /\ e * m \in Nat
    BY <1>1
  <2> QED BY <1>1, <2>1, <2>2
<1>3. q \in 0..m
  BY <1>1, <1>2
<1> QED BY <1>3 DEF q

LEMMA SizeRecord ==
  ASSUME NEW ok \in BOOLEAN, NEW canary \in BOOLEAN, NEW lots \in Nat, NEW risk \in Nat
  PROVE  [ok |-> ok, lots |-> lots, canary |-> canary, risk |-> risk] \in Sizes
BY ZenonT(30) DEF Sizes

LEMMA SizeIsTyped ==
  ASSUME NEW r \in Requests, NEW money \in Nat, money > 0, NEW canary \in BOOLEAN,
         NEW size, size = size_position(r, money, canary, 0)
  PROVE  size \in Sizes /\ (size.risk * Whole) \div money \in 0..MaxRiskPerTrade
<1>1. MaxRiskPerTrade \in Nat /\ RiskPerTrade \in Nat
  BY RiskConfig
<1>2. CASE ~Accepted(r, money, canary, 0)
  <2>1. size = [ok |-> FALSE, lots |-> 0, canary |-> canary, risk |-> 0]
    BY <1>2 DEF size_position
  <2>2. size \in Sizes /\ size.risk * Whole = 0
    <3>1. 0 \in Nat /\ FALSE \in BOOLEAN
      OBVIOUS
    <3>2. size \in Sizes
      BY <2>1, <3>1, SizeRecord
    <3>3. size.risk = 0
      BY <2>1
    <3> QED BY <3>2, <3>3 DEF Whole
  <2>3. 0 <= money * MaxRiskPerTrade
    BY <1>1, TimesNatural
  <2> QED BY <1>1, <2>2, <2>3, Quotient
<1>3. CASE Accepted(r, money, canary, 0)
  <2>1. LossPerUnit(r) \in Nat /\ LossPerUnit(r) > 0
    BY <1>3 DEF Accepted, HasStop, LossPerUnit, Requests
  <2>2. Lots(r, money, canary) \in Nat
    <3>1. /\ Affordable(r, money, RiskPerTrade) \in Nat
          /\ Affordable(r, money, MaxRiskPerTrade) \in Nat
      BY <1>1, <2>1, AffordableIsSafe
    <3> QED BY <3>1 DEF Lots, Wanted, Requests
  <2>3. size = [ok |-> TRUE, lots |-> Lots(r, money, canary), canary |-> canary,
                risk |-> Lots(r, money, canary) * LossPerUnit(r)]
    BY <1>3 DEF size_position
  <2>4. Lots(r, money, canary) * LossPerUnit(r) \in Nat
    BY <2>1, <2>2, TimesNatural
  <2>5. size \in Sizes
    BY <2>2, <2>3, <2>4, SizeRecord
  <2>6. size.risk * Whole <= money * MaxRiskPerTrade
    BY <2>3, SizesAreSound DEF SizeIsSound
  <2>7. size.risk * Whole \in Nat
    BY <2>5 DEF Sizes, Whole
  <2> QED BY <1>1, <2>5, <2>6, <2>7, Quotient
<1> QED
  BY <1>2, <1>3

\* What holds of every step: the watch keeps its type, bounds but for the kills.
LEMMA WatchTyped == ASSUME Typed, now' \in Nat, Watch PROVE (since \in [Vetoes -> Int])'
<1>1. \A v \in Vetoes : since'[v] \in Int
  BY DEF Watch, Never, Typed
<1> QED
  BY <1>1 DEF Watch

LEMMA ConfigTyped ==
  /\ \A b \in Bounds : b \in Courses
  /\ Risk.pause \in Positive /\ Risk.cooldown \in Positive /\ Risk.streakLimit \in Positive
  /\ Risk.accountTtl \in Nat /\ Risk.verdictAge \in Nat /\ Risk.antiChurn \in Nat
  /\ Risk.fuseCap \in Positive /\ Risk.slipWindow \in Positive
  /\ Risk.hour \in Positive /\ Risk.rateDay \in Positive /\ Risk.minute \in Positive
  /\ Risk.day \in Positive /\ Risk.week \in Positive /\ Risk.lossWindow \in Positive
  /\ Risk.maxPositions \in Positive /\ Risk.hourCap \in Positive
  /\ Risk.dailyHalt \in Positive /\ Risk.weeklyHalt \in Positive /\ Risk.hardHalt \in Positive
  /\ Risk.maxOpenRisk \in Positive
  /\ MaxRiskPerTrade \in Nat
  /\ Cardinality(Slots) \in Positive
<1>1. Risk \in Limits
  BY RiskDeskConfig
<1>2. Cardinality(Slots) \in Nat /\ Cardinality(Slots) # 0
  BY RiskDeskConfig, FS_CardinalityType, FS_EmptySet
<1>3. Cardinality(Slots) \in Positive
  BY <1>2 DEF Positive
<1> DEFINE a == 1000
           b == 2000
           c == 3000
           d == 500
           L == [hour : Positive, rateDay : Positive, day : Positive, week : Positive, minute : Positive,
                 dailyHalt : 1..a, weeklyHalt : 1..b, hardHalt : 1..c,
                 maxPositions : Positive, maxPerSymbol : Positive,
                 maxOpenRisk : 1..d, maxWeightedRisk : Positive,
                 hourCap : Positive, symbolHourCap : Positive, dayCap : Positive,
                 lossLimit : Positive, lossWindow : Positive, pause : Positive,
                 streakLimit : Positive, cooldown : Positive, antiChurn : Nat,
                 fuseCap : Positive, slipWindow : Positive, slipBound : Nat,
                 verdictAge : Nat, accountTtl : Nat]
<1>4. Risk \in L
  BY <1>1 DEF Limits
<1>5. a \in Nat /\ b \in Nat /\ c \in Nat /\ d \in Nat
  OBVIOUS
<1> HIDE DEF a, b, c, d
<1>6. /\ Risk.pause \in Positive /\ Risk.cooldown \in Positive /\ Risk.streakLimit \in Positive
      /\ Risk.accountTtl \in Nat /\ Risk.verdictAge \in Nat /\ Risk.antiChurn \in Nat
      /\ Risk.fuseCap \in Positive /\ Risk.slipWindow \in Positive
      /\ Risk.hour \in Positive /\ Risk.rateDay \in Positive /\ Risk.minute \in Positive
      /\ Risk.day \in Positive /\ Risk.week \in Positive /\ Risk.lossWindow \in Positive
      /\ Risk.maxPositions \in Positive /\ Risk.hourCap \in Positive
  BY <1>4
<1>7. /\ Risk.dailyHalt \in Positive /\ Risk.weeklyHalt \in Positive /\ Risk.hardHalt \in Positive
      /\ Risk.maxOpenRisk \in Positive
  <2>1. \A n \in Nat : 1..n \subseteq Positive
    BY DEF Positive
  <2>2. /\ Risk.dailyHalt \in 1..a /\ Risk.weeklyHalt \in 1..b /\ Risk.hardHalt \in 1..c
        /\ Risk.maxOpenRisk \in 1..d
    BY <1>4
  <2> HIDE DEF L
  <2> QED BY <1>5, <2>1, <2>2
<1>8. MaxRiskPerTrade \in Nat /\ \A x \in Bounds : x \in Courses
  BY RiskDeskConfig, RiskConfig
<1> QED
  BY <1>3, <1>6, <1>7, <1>8

LEMMA DeskInit ==
  ASSUME RiskInit
  PROVE  ArmingTypeOK /\ Typed /\ Related
<1>1. ArmingTypeOK
  <2>1. setup \in Setups
    BY ArmingConfig DEF RiskInit, ArmingInit
  <2> QED BY <2>1 DEF RiskInit, ArmingInit, ArmingTypeOK
<1>2. bound \in Courses /\ bound.equity \subseteq Positive /\ bound.modes \subseteq STRING
  BY ConfigTyped DEF RiskInit, Courses
<1>3. disk \in Disks
  BY DEF RiskInit, InitDisk, Disks, Never
<1>4. mem \in Mems /\ IsFiniteSet(mem.sends)
  <2>1. PICK m \in bound.modes : mem = Fresh(m)
    BY DEF RiskInit
  <2>2. [y \in Symbols |-> <<>>] \in [Symbols -> Seq(Nat)]
    OBVIOUS
  <2>3. mem \in Mems
    BY <1>2, <2>1, <2>2 DEF Fresh, Mems, Never
  <2>4. mem.sends = {}
    BY <2>1 DEF Fresh
  <2> QED BY <2>3, <2>4, FS_EmptySet
<1>5. broker \in [perm : BOOLEAN, fills : Seq(Fills)] /\ Ids = {}
  BY DEF RiskInit, Ids
<1>6. slot \in [Slots -> Hands] /\ \A s \in Slots : slot[s].pc = "idle"
  BY DEF RiskInit, Hands, Idle
<1>7. since \in [Vetoes -> Int]
  BY DEF RiskInit, Never
<1>8. Typed
  BY <1>2, <1>3, <1>4, <1>5, <1>6, <1>7 DEF RiskInit, Typed
<1>9. Related
  BY <1>3, <1>5, <1>6 DEF RiskInit, Related, InitDisk, Way
<1> QED BY <1>1, <1>8, <1>9

\* The fills are a sequence, and there is one under every number.
LEMMA FillsAre ==
  ASSUME Typed
  PROVE  /\ broker.fills \in Seq(Fills) /\ Ids = 1..Len(broker.fills) /\ Len(broker.fills) \in Nat
         /\ \A i \in Ids : Fill(i) \in Fills /\ i \in Nat
         /\ IsFiniteSet(Ids)
<1>1. broker.fills \in Seq(Fills)
  BY DEF Typed
<1>2. Ids = 1..Len(broker.fills) /\ Len(broker.fills) \in Nat
  BY <1>1, LenProperties DEF Ids
<1>3. IsFiniteSet(Ids)
  BY <1>2, FS_Interval
<1> QED
  BY <1>1, <1>2, <1>3, ElementOfSeq DEF Fill

\* Whatever its slippage, a send leaves the process its types.
LEMMA CountedTyped ==
  ASSUME Typed
  PROVE  /\ Counted \in Mems /\ IsFiniteSet(Counted.sends)
         /\ Counted.mode = mem.mode /\ Counted.account = mem.account
         /\ Counted.tripped = mem.tripped
         /\ mem.blown => Counted.blown /\ Counted.after = mem.after + 1
         /\ ~mem.blown => Counted.after = mem.after
<1> DEFINE one == [at |-> now, nr |-> Cardinality({x \in mem.sends : x.at = now})]
           sends == Recent(mem.sends \cup {one}, now)
<1>1. mem \in Mems /\ IsFiniteSet(mem.sends) /\ now \in Nat
  BY DEF Typed
<1>2. IsFiniteSet({x \in mem.sends : x.at = now})
  BY <1>1, FS_Subset
<1>3. one \in [at : Nat, nr : Nat]
  BY <1>1, <1>2, FS_CardinalityType
<1>4. IsFiniteSet(mem.sends \cup {one})
  BY <1>1, FS_AddElement
<1>5. sends \subseteq mem.sends \cup {one}
  BY DEF Recent
<1>6. IsFiniteSet(sends)
  BY <1>4, <1>5, FS_Subset
<1>7. sends \in SUBSET [at : Nat, nr : Nat]
  BY <1>1, <1>3, <1>5 DEF Mems
<1> DEFINE blown == mem.blown \/ Cardinality(sends) >= Risk.fuseCap
           after == IF mem.blown THEN mem.after + 1 ELSE mem.after
<1>8. Counted = [mem EXCEPT !.sends = sends, !.blown = blown, !.after = after]
  BY DEF Counted
<1>9. blown \in BOOLEAN /\ after \in Nat /\ (mem.blown => blown /\ after = mem.after + 1)
      /\ (~mem.blown => after = mem.after)
  BY <1>1 DEF Mems
<1> HIDE DEF sends, blown, after, one
<1>10. Counted \in Mems
  BY <1>1, <1>7, <1>8, <1>9 DEF Mems
<1> QED
  BY <1>1, <1>6, <1>8, <1>9, <1>10 DEF Mems

LEMMA SlippedTyped ==
  ASSUME NEW m \in Mems, NEW y \in Symbols, NEW points \in Nat
  PROVE  LET n == Slipped(m, y, points) IN
         /\ n \in Mems /\ m.tripped \subseteq n.tripped
         /\ n.sends = m.sends /\ n.blown = m.blown /\ n.after = m.after /\ n.account = m.account
<1> DEFINE all == Append(m.slips[y], points)
           least == Min({Len(all), Risk.slipWindow})
           kept == SubSeq(all, Len(all) - least + 1, Len(all))
           tripped == IF Len(kept) >= Risk.slipWindow /\ P90(kept) > Risk.slipBound * 100
                      THEN m.tripped \cup {y} ELSE m.tripped
<1>1. m.slips \in [Symbols -> Seq(Nat)] /\ m.slips[y] \in Seq(Nat) /\ m.tripped \in SUBSET Symbols
  BY DEF Mems
<1>2. all \in Seq(Nat) /\ Len(all) \in Nat
  BY <1>1, AppendProperties
<1>3. least \in Nat /\ least <= Len(all)
  <2>1. Risk.slipWindow \in Nat
    BY ConfigTyped DEF Positive
  <2>2. \E x \in {Len(all), Risk.slipWindow} : \A z \in {Len(all), Risk.slipWindow} : x <= z
    <3> HIDE DEF all
    <3> QED BY <1>2, <2>1
  <2> HIDE DEF all
  <2> QED BY <1>2, <2>1, <2>2 DEF Min
<1>4. kept \in Seq(Nat)
  <2>1. \A i \in (Len(all) - least + 1)..Len(all) : all[i] \in Nat
    <3> HIDE DEF all, least
    <3> QED BY <1>2, <1>3, ElementOfSeq
  <2> HIDE DEF all, least
  <2> QED BY <1>2, <1>3, <2>1, SubSeqProperties
<1>5. tripped \in SUBSET Symbols /\ m.tripped \subseteq tripped
  BY <1>1
<1>6. Slipped(m, y, points) = [m EXCEPT !.slips[y] = kept, !.tripped = tripped]
  BY DEF Slipped
<1> HIDE DEF kept, tripped
<1>7. [m EXCEPT !.slips[y] = kept, !.tripped = tripped] \in Mems
  <2>1. [m.slips EXCEPT ![y] = kept] \in [Symbols -> Seq(Nat)]
    BY <1>1, <1>4
  <2> QED BY <1>4, <1>5, <2>1 DEF Mems
<1> QED
  BY <1>5, <1>6, <1>7 DEF Mems

\* A thread takes a step that fills nothing.
LEMMA HandMoves ==
  ASSUME Typed, Related, NEW s \in Slots, NEW o \in Hands, slot' = [slot EXCEPT ![s] = o],
         UNCHANGED <<now, equity, broker, real, bound>>,
         disk' \in Disks, disk'.losses = disk.losses,
         disk.trades \subseteq disk'.trades, disk'.trades \subseteq Ids,
         disk'.symTrades \subseteq disk'.trades,
         mem' \in Mems, IsFiniteSet(mem'.sends), Watch,
         o.pc \in Way => o.asOf <= now /\ o.started <= now /\ RiskFrac(o) \in 0..MaxRiskPerTrade,
         o.pc = "sending" => o.sends < bound.sends,
         o.pc \in {"filled", "recorded"} => o.id \in Ids,
         o.pc = "recorded" => o.id \in disk'.trades
  PROVE  Typed' /\ Related'
<1>1. slot' \in [Slots -> Hands] /\ slot'[s] = o /\ \A t \in Slots \ {s} : slot'[t] = slot[t]
  BY DEF Typed
<1>2. Typed'
  <2>1. (since \in [Vetoes -> Int])'
    BY WatchTyped DEF Typed
  <2> QED BY <1>1, <2>1 DEF Typed
<1>3. Ids' = Ids /\ \A i : Fill(i)' = Fill(i)
  BY DEF Ids, Fill
<1>4. \A t \in Slots \ {s} : RiskFrac(slot'[t]) = RiskFrac(slot[t])
  BY <1>1 DEF RiskFrac
<1>5. (\A t \in Slots : slot[t].pc \in Way => /\ slot[t].asOf <= now /\ slot[t].started <= now
                                             /\ RiskFrac(slot[t]) \in 0..MaxRiskPerTrade)'
  <2> SUFFICES ASSUME NEW t \in Slots, slot'[t].pc \in Way
               PROVE  /\ slot'[t].asOf <= now /\ slot'[t].started <= now
                      /\ RiskFrac(slot'[t]) \in 0..MaxRiskPerTrade
    OBVIOUS
  <2>1. CASE t = s
    BY <1>1, <2>1 DEF RiskFrac
  <2>2. CASE t # s
    BY <1>1, <2>2, <1>4 DEF Related
  <2> QED BY <2>1, <2>2
<1>6. (\A t \in Slots : slot[t].pc = "sending" => slot[t].sends < bound.sends)'
  BY <1>1 DEF Related
<1>7. (/\ \A t \in Slots : slot[t].pc \in {"filled", "recorded"} => slot[t].id \in Ids
       /\ \A t \in Slots : slot[t].pc = "recorded" => slot[t].id \in disk.trades)'
  BY <1>1, <1>3 DEF Related
<1> QED
  BY <1>2, <1>3, <1>5, <1>6, <1>7 DEF Related

LEMMA DiskAsItWas ==
  ASSUME Typed, Related
  PROVE  /\ disk \in Disks /\ disk.trades \subseteq Ids /\ disk.symTrades \subseteq disk.trades
         /\ mem \in Mems /\ IsFiniteSet(mem.sends)
BY DEF Typed, Related

LEMMA IdleHand == Idle \in Hands /\ Idle.pc = "idle"
BY DEF Hands, Idle

LEMMA DeskWay ==
  ASSUME Typed, Related, Watch, NEW s \in Slots,
         \/ \E y \in bound.symbols, r \in Quotes : Size(s, y, r)
         \/ Evaluate(s) \/ Preflight(s) \/ AccountAnswers(s) \/ Gates(s) \/ OrderChecked(s) \/ Abandon(s)
  PROVE  Typed' /\ Related'
<1> DEFINE o == slot[s]
<1> USE DEF Keep
<1>0. /\ now \in Nat /\ equity \in Positive /\ bound \in Courses
      /\ disk \in Disks /\ disk.trades \subseteq Ids /\ disk.symTrades \subseteq disk.trades
      /\ mem \in Mems /\ IsFiniteSet(mem.sends)
  BY DiskAsItWas DEF Typed
<1>a. o.pc \in Way => /\ o \in Judging /\ o.asOf <= now /\ o.started <= now
                      /\ RiskFrac(o) \in 0..MaxRiskPerTrade
  BY SlotsAre DEF Related
<1>b. ASSUME NEW p \in Judging, p.asOf <= now, p.started <= now, RiskFrac(p) \in 0..MaxRiskPerTrade,
             slot' = [slot EXCEPT ![s] = p],
             UNCHANGED <<now, equity, broker, real, bound, disk>>, mem' \in Mems, IsFiniteSet(mem'.sends)
      PROVE  Typed' /\ Related'
  <2>1. p \in Hands /\ p.pc \in Way
    BY <1>b DEF Hands, Judging
  <2> QED BY <1>0, <1>b, <2>1, HandMoves DEF Way
<1>c. ASSUME slot' = [slot EXCEPT ![s] = Idle], UNCHANGED <<now, equity, broker, real, bound, disk, mem>>
      PROVE  Typed' /\ Related'
  BY <1>0, <1>c, IdleHand, HandMoves DEF Way
<1>1. ASSUME NEW y \in bound.symbols, NEW r \in Quotes, Size(s, y, r)
      PROVE  Typed' /\ Related'
  <2> DEFINE size == size_position(r, equity, CanaryActive, 0)
             p == [pc |-> "sized", sym |-> y, asOf |-> now, eq |-> equity, started |-> now, size |-> size]
  <2>1. CanaryActive \in BOOLEAN
    BY DEF CanaryActive
  <2>2. r \in Requests /\ equity \in Nat /\ equity > 0
    BY <1>0, RiskDeskConfig DEF Positive
  <2>3. size \in Sizes /\ (size.risk * Whole) \div equity \in 0..MaxRiskPerTrade
    BY <2>1, <2>2, SizeIsTyped
  <2>4. y \in Symbols
    BY <1>0 DEF Courses
  <2>5. slot' = [slot EXCEPT ![s] = p] /\ UNCHANGED <<now, equity, broker, real, bound, disk, mem>>
    BY <1>1 DEF Size
  <2> HIDE DEF size
  <2>6. p \in Judging
    BY <1>0, <2>3, <2>4 DEF Judging, Way
  <2>7. RiskFrac(p) \in 0..MaxRiskPerTrade
    BY <2>3 DEF RiskFrac
  <2>8. p.asOf <= now /\ p.started <= now
    BY <1>0
  <2> HIDE DEF p
  <2> QED BY <1>0, <1>b, <2>5, <2>6, <2>7, <2>8
<1>2. CASE Evaluate(s)
  <2> DEFINE d == [disk EXCEPT !.pauseUntil =
                     IF o.asOf >= @ /\ LossVelocity(o.asOf) THEN o.asOf + Risk.pause ELSE @]
             m == [mem EXCEPT !.blown = OrderStorm(o.asOf)]
             p == IF Approved(o) THEN [o EXCEPT !.pc = "judged"] ELSE Idle
  <2>1. slot' = [slot EXCEPT ![s] = p] /\ disk' = d /\ mem' = m
        /\ UNCHANGED <<now, equity, broker, real, bound>> /\ o.pc = "sized"
    BY <1>2 DEF Evaluate
  <2>2. o \in Judging /\ o.asOf <= now /\ o.started <= now /\ RiskFrac(o) \in 0..MaxRiskPerTrade
    BY <1>a, <2>1 DEF Way
  <2>3. d \in Disks /\ d.trades = disk.trades /\ d.symTrades = disk.symTrades /\ d.losses = disk.losses
    <3>1. o.asOf + Risk.pause \in Int
      BY <2>2, ConfigTyped DEF Judging, Positive
    <3>2. (IF o.asOf >= disk.pauseUntil /\ LossVelocity(o.asOf) THEN o.asOf + Risk.pause
           ELSE disk.pauseUntil) \in Int
      BY <1>0, <3>1 DEF Disks
    <3> QED BY <1>0, <3>2 DEF Disks
  <2>4. m \in Mems /\ m.sends = mem.sends
    <3>1. OrderStorm(o.asOf) \in BOOLEAN
      BY DEF OrderStorm
    <3> QED BY <1>0, <3>1 DEF Mems
  <2>5. p \in Hands /\ (p.pc \in Way => p.asOf <= now /\ p.started <= now /\ RiskFrac(p) \in 0..MaxRiskPerTrade)
        /\ p.pc \in {"judged", "idle"}
    <3>1. CASE Approved(o)
      <4>1. p \in Judging /\ p.asOf = o.asOf /\ p.started = o.started /\ p.size = o.size /\ p.eq = o.eq
            /\ p.pc = "judged"
        BY <2>2, <3>1 DEF Judging, Way
      <4>2. RiskFrac(p) = RiskFrac(o) /\ p \in Hands
        BY <4>1 DEF RiskFrac, Hands
      <4> QED BY <2>2, <4>1, <4>2
    <3>2. CASE ~Approved(o)
      BY <3>2, IdleHand DEF Way
    <3> QED BY <3>1, <3>2
  <2> HIDE DEF d, m, p, o
  <2> QED BY <1>0, <2>1, <2>3, <2>4, <2>5, HandMoves
<1>3. CASE Preflight(s)
  <2> DEFINE pc == IF mem.account.expires < now THEN "asking" ELSE "gates"
             p == [o EXCEPT !.started = now, !.pc = pc]
  <2>0. pc \in {"asking", "gates"}
    OBVIOUS
  <2>1. slot' = [slot EXCEPT ![s] = p] /\ UNCHANGED <<now, equity, broker, real, bound, disk, mem>>
        /\ o.pc = "judged"
    BY <1>3 DEF Preflight, Typed
  <2> HIDE DEF pc
  <2>2. o \in Judging /\ o.asOf <= now /\ RiskFrac(o) \in 0..MaxRiskPerTrade
    BY <1>a, <2>1 DEF Way
  <2>3. p \in Judging /\ p.asOf <= now /\ p.started <= now /\ p.size = o.size /\ p.eq = o.eq
    <3>1. pc \in Way
      BY <2>0 DEF Way
    <3> DEFINE q == [o EXCEPT !.started = now]
    <3>2. q \in Judging /\ q.asOf = o.asOf /\ q.started = now /\ q.size = o.size /\ q.eq = o.eq
      BY <1>0, <2>2 DEF Judging
    <3>3. p = [q EXCEPT !.pc = pc]
      OBVIOUS
    <3> HIDE DEF q, p
    <3>4. p \in Judging /\ p.asOf = q.asOf /\ p.started = q.started /\ p.size = q.size /\ p.eq = q.eq
      BY <3>1, <3>2, <3>3 DEF Judging
    <3> QED BY <1>0, <2>2, <3>2, <3>4
  <2>4. RiskFrac(p) \in 0..MaxRiskPerTrade
    BY <2>2, <2>3 DEF RiskFrac
  <2> HIDE DEF p
  <2> QED BY <1>0, <1>b, <2>1, <2>3, <2>4
<1>4. CASE AccountAnswers(s)
  <2> DEFINE p == [o EXCEPT !.pc = "gates"]
             m == [mem EXCEPT !.account = [ok |-> broker.perm, expires |-> o.started + Risk.accountTtl]]
  <2>1. slot' = [slot EXCEPT ![s] = p] /\ UNCHANGED <<now, equity, broker, real, bound, disk>> /\ mem' = m
        /\ o.pc = "asking"
    BY <1>4 DEF AccountAnswers
  <2>2. o \in Judging /\ o.asOf <= now /\ o.started <= now /\ RiskFrac(o) \in 0..MaxRiskPerTrade
    BY <1>a, <2>1 DEF Way
  <2>3. p \in Judging /\ p.asOf <= now /\ p.started <= now /\ p.size = o.size /\ p.eq = o.eq
    BY <2>2 DEF Judging, Way
  <2>4. RiskFrac(p) \in 0..MaxRiskPerTrade
    BY <2>2, <2>3 DEF RiskFrac
  <2>5. m \in Mems /\ m.sends = mem.sends
    <3>1. broker.perm \in BOOLEAN /\ o.started + Risk.accountTtl \in Int
      BY <2>2, ConfigTyped DEF Typed, Judging
    <3>2. [ok |-> broker.perm, expires |-> o.started + Risk.accountTtl] \in [ok : BOOLEAN, expires : Int]
      BY ZenonT(30), <3>1
    <3> HIDE DEF o
    <3> QED BY <1>0, <3>2 DEF Mems
  <2> HIDE DEF p, m
  <2> QED BY <1>0, <1>b, <2>1, <2>3, <2>4, <2>5
<1>5. CASE Gates(s) \/ OrderChecked(s)
  <2>1. PICK pc \in {"checking", "passed", "idle"} :
          /\ slot' = [slot EXCEPT ![s] = IF pc = "idle" THEN Idle ELSE [o EXCEPT !.pc = pc]]
          /\ UNCHANGED <<now, equity, broker, real, bound, disk, mem>> /\ o.pc \in {"gates", "checking"}
    BY <1>5 DEF Gates, OrderChecked, Typed
  <2> DEFINE p == [o EXCEPT !.pc = pc]
  <2>2. o \in Judging /\ o.asOf <= now /\ o.started <= now /\ RiskFrac(o) \in 0..MaxRiskPerTrade
    BY <1>a, <2>1 DEF Way
  <2>3. CASE pc # "idle"
    <3>1. p \in Judging /\ p.asOf <= now /\ p.started <= now /\ p.size = o.size /\ p.eq = o.eq
      BY <2>1, <2>2, <2>3 DEF Judging, Way
    <3>2. RiskFrac(p) \in 0..MaxRiskPerTrade
      BY <2>2, <3>1 DEF RiskFrac
    <3>3. slot' = [slot EXCEPT ![s] = p]
      BY <2>1, <2>3
    <3> HIDE DEF p
    <3> QED BY <1>0, <1>b, <2>1, <3>1, <3>2, <3>3
  <2>4. CASE pc = "idle"
    BY <1>c, <2>1, <2>4
  <2> QED BY <2>3, <2>4
<1>6. CASE Abandon(s)
  BY <1>6, <1>c DEF Abandon
<1> QED
  BY <1>1, <1>2, <1>3, <1>4, <1>5, <1>6

LEMMA DeskSends ==
  ASSUME Typed, Related, Watch, NEW s \in Slots, Enter(s) \/ SendFails(s)
  PROVE  Typed' /\ Related'
<1> DEFINE o == slot[s]
<1> USE DEF Keep
<1>0. /\ bound \in Courses
      /\ disk \in Disks /\ disk.trades \subseteq Ids /\ disk.symTrades \subseteq disk.trades
      /\ mem \in Mems /\ IsFiniteSet(mem.sends)
  BY DiskAsItWas DEF Typed
<1>1. CASE Enter(s)
  <2> DEFINE p == [pc |-> "sending", sym |-> o.sym, sends |-> 0, size |-> o.size, frac |-> RiskFrac(o)]
             m == [mem EXCEPT !.blown = OrderStorm(now)]
  <2>1. slot' = [slot EXCEPT ![s] = IF OrderStorm(now) THEN Idle ELSE p] /\ mem' = m /\ o.pc = "passed"
        /\ UNCHANGED <<now, equity, broker, real, bound, disk>>
    BY <1>1 DEF Enter, Typed
  <2>2. o \in Judging /\ RiskFrac(o) \in 0..MaxRiskPerTrade
    BY <2>1, SlotsAre DEF Way, Related
  <2>3. p \in Hands /\ p.pc = "sending" /\ p.sends < bound.sends
    <3>1. p \in Sending
      BY <2>2 DEF Judging, Sending
    <3>2. bound.sends > 0
      BY <1>0 DEF Courses, Positive
    <3> QED BY <3>1, <3>2 DEF Hands
  <2>4. m \in Mems /\ m.sends = mem.sends
    <3>1. OrderStorm(now) \in BOOLEAN
      BY DEF OrderStorm
    <3> QED BY <1>0, <3>1 DEF Mems
  <2> HIDE DEF p, m
  <2>5. CASE OrderStorm(now)
    <3>1. slot' = [slot EXCEPT ![s] = Idle]
      BY <2>1, <2>5
    <3> QED BY <1>0, <2>1, <2>4, <3>1, IdleHand, HandMoves DEF Way
  <2>6. CASE ~OrderStorm(now)
    <3>1. slot' = [slot EXCEPT ![s] = p]
      BY <2>1, <2>6
    <3> QED BY <1>0, <2>1, <2>3, <2>4, <3>1, HandMoves DEF Way
  <2> QED BY <2>5, <2>6
<1>2. CASE SendFails(s)
  <2>1. o.pc = "sending" /\ o \in Sending /\ mem' = Counted
        /\ UNCHANGED <<now, equity, broker, real, bound, disk>>
    BY <1>2, SlotsAre DEF SendFails
  <2>2. mem' \in Mems /\ IsFiniteSet(mem'.sends)
    BY <2>1, CountedTyped
  <2>3. CASE slot' = [slot EXCEPT ![s] = Idle]
    BY <1>0, <2>1, <2>2, <2>3, IdleHand, HandMoves DEF Way
  <2>4. CASE slot' = [slot EXCEPT ![s].sends = @ + 1] /\ o.sends + 1 < bound.sends
    <3> DEFINE p == [o EXCEPT !.sends = o.sends + 1]
    <3>1. p \in Sending /\ p.pc = "sending" /\ p.sends < bound.sends
      BY <2>1, <2>4 DEF Sending
    <3>2. slot' = [slot EXCEPT ![s] = p]
      BY <2>4 DEF Typed
    <3>3. p \in Hands
      BY <3>1 DEF Hands
    <3> HIDE DEF p
    <3> QED BY <1>0, <2>1, <2>2, <3>1, <3>2, <3>3, HandMoves DEF Way
  <2> QED BY <1>2, <2>3, <2>4 DEF SendFails
<1> QED BY <1>1, <1>2

LEMMA DeskRecords ==
  ASSUME Typed, Related, Watch, NEW s \in Slots,
         RecordGlobal(s) \/ RecordSymbol(s) \/ ReadCanary(s) \/ CountCanary(s), canaryFills \in Nat
  PROVE  Typed' /\ Related' /\ canaryFills' \in Nat
<1> DEFINE o == slot[s]
<1> USE DEF Keep
<1>0. /\ disk \in Disks /\ disk.trades \subseteq Ids /\ disk.symTrades \subseteq disk.trades
      /\ mem \in Mems /\ IsFiniteSet(mem.sends)
  BY DiskAsItWas
<1>1. CASE RecordGlobal(s)
  <2> DEFINE p == [o EXCEPT !.pc = "recorded"]
             d == [disk EXCEPT !.trades = @ \cup {o.id}]
  <2>1. /\ slot' = [slot EXCEPT ![s] = p] /\ disk' = d /\ o.pc = "filled"
        /\ UNCHANGED <<now, equity, broker, real, bound, mem, canaryFills>>
    BY <1>1 DEF RecordGlobal, Typed
  <2>2. o \in Filled /\ o.id \in Ids
    BY <2>1, SlotsAre DEF Related
  <2>3. p \in Filled /\ p.pc = "recorded" /\ p.id = o.id /\ p \in Hands
    BY <2>2 DEF Filled, Hands
  <2>4. /\ d \in Disks /\ d.trades = disk.trades \cup {o.id}
        /\ d.symTrades = disk.symTrades /\ d.losses = disk.losses
    BY <1>0, <2>2 DEF Disks, Filled
  <2> HIDE DEF p, d
  <2> QED BY <1>0, <2>1, <2>2, <2>3, <2>4, HandMoves DEF Way
<1>2. CASE RecordSymbol(s)
  <2> DEFINE p == [pc |-> "canary", size |-> o.size]
             d == [disk EXCEPT !.symTrades = @ \cup {o.id}]
  <2>1. /\ slot' = [slot EXCEPT ![s] = IF CanaryActive THEN p ELSE Idle] /\ disk' = d /\ o.pc = "recorded"
        /\ UNCHANGED <<now, equity, broker, real, bound, mem, canaryFills>>
    BY <1>2 DEF RecordSymbol, Typed
  <2>2. o \in Filled /\ o.id \in disk.trades
    BY <2>1, SlotsAre DEF Related
  <2>3. p \in Hands /\ p.pc = "canary"
    BY <2>2 DEF Filled, Counting, Hands
  <2>4. /\ d \in Disks /\ d.trades = disk.trades
        /\ d.symTrades = disk.symTrades \cup {o.id} /\ d.losses = disk.losses
    BY <1>0, <2>2 DEF Disks, Filled
  <2> HIDE DEF p, d
  <2>5. CASE CanaryActive
    <3>1. slot' = [slot EXCEPT ![s] = p]
      BY <2>1, <2>5
    <3>2. p.pc \notin Way /\ p.pc \notin {"sending", "filled", "recorded"}
      BY <2>3 DEF Way
    <3>3. /\ disk' \in Disks /\ disk'.losses = disk.losses /\ disk.trades \subseteq disk'.trades
          /\ disk'.trades \subseteq Ids /\ disk'.symTrades \subseteq disk'.trades
      BY <1>0, <2>1, <2>2, <2>4
    <3>4. mem' \in Mems /\ IsFiniteSet(mem'.sends) /\ Watch
      BY <1>0, <2>1
    <3> QED BY <2>1, <2>3, <3>1, <3>2, <3>3, <3>4, HandMoves, Zenon
  <2>6. CASE ~CanaryActive
    <3>1. slot' = [slot EXCEPT ![s] = Idle]
      BY <2>1, <2>6
    <3> QED BY <1>0, <2>1, <2>2, <2>4, <3>1, IdleHand, HandMoves DEF Way
  <2> QED BY <2>5, <2>6
<1>3. CASE ReadCanary(s)
  <2> DEFINE p == [pc |-> "counting", size |-> o.size, seen |-> canaryFills]
  <2>1. /\ slot' = [slot EXCEPT ![s] = p] /\ o.pc = "canary"
        /\ UNCHANGED <<now, equity, broker, real, bound, mem, disk, canaryFills>>
    BY <1>3 DEF ReadCanary, Typed
  <2>2. p \in Hands /\ p.pc = "counting"
    BY <2>1, SlotsAre DEF Counting, Hands
  <2> HIDE DEF p
  <2> QED BY <1>0, <2>1, <2>2, HandMoves DEF Way
<1>4. CASE CountCanary(s)
  <2>1. /\ slot' = [slot EXCEPT ![s] = Idle] /\ canaryFills' = o.seen + 1 /\ o.pc = "counting"
        /\ UNCHANGED <<now, equity, broker, real, bound, mem, disk>>
    BY <1>4 DEF CountCanary, Typed
  <2>2. o.seen \in Nat
    BY <2>1, SlotsAre DEF Counting
  <2>3. canaryFills' \in Nat
    BY <2>1, <2>2
  <2> QED BY <1>0, <2>1, <2>3, IdleHand, HandMoves DEF Way
<1> QED BY <1>1, <1>2, <1>3, <1>4

\* A fill is the last of them, and as large as its order.
LEMMA FillAdded ==
  ASSUME Typed, Related, NEW s \in Slots, SendFills(s)
  PROVE  \E n \in Nat, f \in Fills, p \in Filled :
         /\ slot[s] \in Sending /\ slot[s].pc = "sending"
         /\ n \notin Ids /\ Ids' = Ids \cup {n} /\ broker'.fills[n] = f
         /\ \A i \in Ids : broker'.fills[i] = broker.fills[i]
         /\ f.sym = slot[s].sym /\ f.at = now /\ f.frac = slot[s].frac /\ f.state = "open"
         /\ broker' \in [perm : BOOLEAN, fills : Seq(Fills)] /\ broker'.perm = broker.perm
         /\ slot' = [slot EXCEPT ![s] = p] /\ p.pc = "filled" /\ p.id = n
<1> DEFINE n == Len(broker.fills) + 1
           f == [sym |-> slot[s].sym, at |-> now, frac |-> slot[s].frac,
                 state |-> "open", closed |-> Never, result |-> "none"]
           p == [pc |-> "filled", size |-> slot[s].size, id |-> n]
<1>1. slot[s] \in Sending /\ slot[s].pc = "sending" /\ now \in Nat /\ broker.perm \in BOOLEAN
  BY SlotsAre DEF SendFills, Typed
<1>2. /\ f \in Fills /\ f.sym = slot[s].sym /\ f.at = now /\ f.frac = slot[s].frac
      /\ f.state = "open"
  BY <1>1 DEF Sending, Fills, Never
<1>3. broker.fills \in Seq(Fills) /\ Ids = 1..Len(broker.fills) /\ Len(broker.fills) \in Nat
  BY FillsAre
<1>4. broker'.fills = Append(broker.fills, f) /\ broker'.perm = broker.perm
      /\ broker' = [broker EXCEPT !.fills = Append(broker.fills, f)]
  BY DEF SendFills, Typed
<1> HIDE DEF f
<1>5. /\ Append(broker.fills, f) \in Seq(Fills) /\ Len(Append(broker.fills, f)) = n
      /\ \A i \in 1..Len(broker.fills) : Append(broker.fills, f)[i] = broker.fills[i]
      /\ Append(broker.fills, f)[n] = f
  BY <1>2, <1>3, AppendProperties
<1>6. DOMAIN Append(broker.fills, f) = 1..n
  BY <1>5, LenProperties
<1>7. Ids' = Ids \cup {n} /\ n \notin Ids /\ n \in Nat
  BY <1>3, <1>4, <1>6 DEF Ids
<1>8. broker'.fills[n] = f /\ \A i \in Ids : broker'.fills[i] = broker.fills[i]
  BY <1>3, <1>4, <1>5
<1>9. broker' \in [perm : BOOLEAN, fills : Seq(Fills)]
  BY <1>4, <1>5 DEF Typed
<1>10. slot' = [slot EXCEPT ![s] = p] /\ p \in Filled /\ p.pc = "filled" /\ p.id = n
  BY <1>1, <1>7 DEF SendFills, Sending, Filled
<1> HIDE DEF n, p
<1> QED
  BY <1>1, <1>2, <1>4, <1>7, <1>8, <1>9, <1>10

LEMMA DeskFills ==
  ASSUME Typed, Related, Watch, NEW s \in Slots, SendFills(s)
  PROVE  Typed' /\ Related'
<1>1. PICK n \in Nat, f \in Fills, p \in Filled :
      /\ slot[s] \in Sending
      /\ Ids' = Ids \cup {n} /\ broker'.fills[n] = f /\ f.at = now /\ f.state = "open"
      /\ \A i \in Ids : broker'.fills[i] = broker.fills[i]
      /\ broker' \in [perm : BOOLEAN, fills : Seq(Fills)]
      /\ slot' = [slot EXCEPT ![s] = p] /\ p.pc = "filled" /\ p.id = n
  BY FillAdded
<1>2. UNCHANGED <<now, equity, bound, disk>> /\ real' \in Nat
  BY DEF SendFills, Keep, Typed
<1>3. mem' \in Mems /\ IsFiniteSet(mem'.sends)
  <2>1. PICK points \in bound.slips : mem' = Slipped(Counted, slot[s].sym, points)
    BY DEF SendFills
  <2>2. points \in Nat /\ slot[s].sym \in Symbols
    BY <1>1, <2>1 DEF Typed, Courses, Sending
  <2> QED BY <2>1, <2>2, CountedTyped, SlippedTyped
<1>4. p.pc = "filled" /\ p.id = n /\ p \in Hands
  BY <1>1 DEF Hands
<1>5. slot' \in [Slots -> Hands] /\ slot'[s] = p /\ \A t \in Slots \ {s} : slot'[t] = slot[t]
  BY <1>1, <1>4 DEF Typed
<1>6. Typed'
  <2>1. (since \in [Vetoes -> Int])'
    BY <1>2, WatchTyped DEF Typed
  <2> QED BY <1>1, <1>2, <1>3, <1>5, <2>1 DEF Typed
<1>7. (\A t \in Slots : slot[t].pc \in Way => /\ slot[t].asOf <= now /\ slot[t].started <= now
                                             /\ RiskFrac(slot[t]) \in 0..MaxRiskPerTrade)'
  <2> SUFFICES ASSUME NEW t \in Slots, slot'[t].pc \in Way
               PROVE  /\ slot'[t].asOf <= now /\ slot'[t].started <= now
                      /\ RiskFrac(slot'[t]) \in 0..MaxRiskPerTrade
    BY <1>2
  <2>1. slot'[t] = slot[t]
    BY <1>4, <1>5 DEF Way
  <2> QED BY <2>1 DEF Related
<1>8. (\A t \in Slots : slot[t].pc = "sending" => slot[t].sends < bound.sends)'
  BY <1>2, <1>4, <1>5 DEF Related
<1>9. (/\ \A t \in Slots : slot[t].pc \in {"filled", "recorded"} => slot[t].id \in Ids
       /\ \A t \in Slots : slot[t].pc = "recorded" => slot[t].id \in disk.trades)'
  BY <1>1, <1>2, <1>4, <1>5 DEF Related
<1>10. (/\ disk.trades \subseteq Ids /\ disk.symTrades \subseteq disk.trades
        /\ \A i \in disk.losses : /\ i \in Ids /\ Fill(i).state \in {"half", "over"}
                                  /\ Fill(i).result \in {"loss", "stop"})'
  BY <1>1, <1>2 DEF Related, Fill
<1>11. (\A i \in Ids : Fill(i).at <= now /\ (Fill(i).state # "open" => Fill(i).result # "none"))'
  BY <1>1, <1>2 DEF Related, Fill, Typed
<1> QED
  BY <1>6, <1>7, <1>8, <1>9, <1>10, <1>11 DEF Related

\* A position's end changes one fill: its state, and its result and time if it was
\* open.
LEMMA FillChanged ==
  ASSUME Typed, NEW i \in Ids, NEW f \in Fills, broker' = [broker EXCEPT !.fills[i] = f]
  PROVE  /\ Ids' = Ids /\ broker' \in [perm : BOOLEAN, fills : Seq(Fills)]
         /\ broker'.fills[i] = f /\ \A j \in Ids \ {i} : broker'.fills[j] = broker.fills[j]
         /\ broker'.perm = broker.perm
<1>1. broker.fills \in Seq(Fills) /\ Ids = 1..Len(broker.fills) /\ Len(broker.fills) \in Nat
  BY FillsAre
<1>2. broker' = [broker EXCEPT !.fills = [broker.fills EXCEPT ![i] = f]]
  BY DEF Typed
<1>3. broker'.fills = [broker.fills EXCEPT ![i] = f] /\ broker'.perm = broker.perm
  BY <1>2 DEF Typed
<1>4. /\ [broker.fills EXCEPT ![i] = f] \in Seq(Fills)
      /\ DOMAIN [broker.fills EXCEPT ![i] = f] = DOMAIN broker.fills
  BY <1>1, ExceptSeq
<1>5. broker' \in [perm : BOOLEAN, fills : Seq(Fills)]
  BY <1>2, <1>4 DEF Typed
<1>6. i \in DOMAIN broker.fills
  BY DEF Ids
<1> QED
  BY <1>3, <1>4, <1>5, <1>6 DEF Ids

LEMMA EndMoves ==
  ASSUME Typed, Related, Watch, NEW i \in Ids, NEW f \in Fills, broker' = [broker EXCEPT !.fills[i] = f],
         UNCHANGED <<now, equity, bound, mem, slot, real>>,
         disk' \in Disks, disk'.trades = disk.trades, disk'.symTrades = disk.symTrades,
         disk'.losses \in {disk.losses, disk.losses \cup {i}},
         f.at = Fill(i).at, f.state # "open" => f.result # "none",
         i \in disk'.losses => f.state \in {"half", "over"} /\ f.result \in {"loss", "stop"}
  PROVE  Typed' /\ Related'
<1>1. /\ Ids' = Ids /\ broker' \in [perm : BOOLEAN, fills : Seq(Fills)]
      /\ Fill(i)' = f /\ \A j \in Ids \ {i} : Fill(j)' = Fill(j)
  BY FillChanged DEF Fill
<1>2. Typed'
  <2>1. (since \in [Vetoes -> Int])'
    BY WatchTyped DEF Typed
  <2> QED BY <1>1, <2>1 DEF Typed
<1>3. \A t \in Slots : RiskFrac(slot[t])' = RiskFrac(slot[t])
  BY DEF RiskFrac
<1> QED
  BY <1>1, <1>2, <1>3 DEF Related

LEMMA DeskEnds ==
  ASSUME Typed, Related, Watch, NEW i \in Ids, Close(i) \/ RecordLoss(i) \/ RecordStreak(i)
  PROVE  Typed' /\ Related'
<1> USE DEF Keep
<1>0. disk \in Disks /\ Fill(i) \in Fills /\ now \in Nat /\ bound \in Courses
  BY FillsAre DEF Typed
<1>1. CASE Close(i)
  <2>1. PICK result \in bound.results :
          broker' = [broker EXCEPT !.fills[i] =
                       [@ EXCEPT !.state = "closed", !.result = result, !.closed = now]]
    BY <1>1 DEF Close
  <2> DEFINE f == [Fill(i) EXCEPT !.state = "closed", !.result = result, !.closed = now]
  <2>2. result \in {"win", "loss", "stop"}
    BY <1>0 DEF Courses
  <2>3. f \in Fills /\ f.at = Fill(i).at /\ f.state = "closed" /\ f.result = result
    <3> DEFINE g == [Fill(i) EXCEPT !.state = "closed"]
               h == [g EXCEPT !.result = result]
    <3>1. g \in Fills /\ g.at = Fill(i).at /\ g.state = "closed"
      BY <1>0 DEF Fills
    <3> HIDE DEF g
    <3>2. h \in Fills /\ h.at = Fill(i).at /\ h.state = "closed" /\ h.result = result
      BY <2>2, <3>1 DEF Fills
    <3> HIDE DEF h
    <3>3. f = [h EXCEPT !.closed = now]
      BY DEF g, h
    <3> HIDE DEF f
    <3> QED BY <1>0, <3>2, <3>3 DEF Fills
  <2>4. broker' = [broker EXCEPT !.fills[i] = f]
    BY <2>1 DEF Fill, Ids
  <2>5. i \notin disk.losses
    BY <1>1 DEF Close, Related
  <2>6. UNCHANGED <<now, equity, bound, mem, slot, real, disk>>
    BY <1>1 DEF Close
  <2> HIDE DEF f
  <2> QED BY <1>0, <2>2, <2>3, <2>4, <2>5, <2>6, EndMoves
<1>2. CASE RecordLoss(i)
  <2> DEFINE f == [Fill(i) EXCEPT !.state = "half"]
             d == [disk EXCEPT !.losses = @ \cup {i}]
  <2>1. f \in Fills /\ f.at = Fill(i).at /\ f.state = "half" /\ f.result = Fill(i).result
    BY <1>0 DEF Fills
  <2>2. broker' = [broker EXCEPT !.fills[i] = f]
    BY <1>2 DEF RecordLoss, Fill, Ids
  <2>3. f.result \in {"win", "loss", "stop"}
    <3>1. Fill(i).state = "closed" /\ Fill(i).result # "none"
      BY <1>2 DEF RecordLoss, Related
    <3> QED BY <1>0, <2>1, <3>1 DEF Fills
  <2>4. d \in Disks /\ d.losses = disk.losses \cup {i} /\ d.trades = disk.trades
        /\ d.symTrades = disk.symTrades
    BY <1>0, FillsAre DEF Disks
  <2>5. disk' = IF Fill(i).result = "win" THEN disk ELSE d
    BY <1>2 DEF RecordLoss
  <2>6. i \notin disk.losses
    BY <1>2 DEF RecordLoss, Related
  <2>7. UNCHANGED <<now, equity, bound, mem, slot, real>>
    BY <1>2 DEF RecordLoss
  <2> HIDE DEF f, d
  <2>8. CASE Fill(i).result = "win"
    BY <1>0, <2>1, <2>2, <2>3, <2>5, <2>6, <2>7, <2>8, EndMoves
  <2>9. CASE Fill(i).result # "win"
    <3>1. disk' = d /\ f.result \in {"loss", "stop"}
      BY <2>1, <2>3, <2>5, <2>9
    <3> QED BY <2>1, <2>2, <2>4, <2>7, <3>1, EndMoves
  <2> QED BY <2>8, <2>9
<1>3. CASE RecordStreak(i)
  <2> DEFINE f == [Fill(i) EXCEPT !.state = "over"]
             y == Fill(i).sym
  <2>1. f \in Fills /\ f.at = Fill(i).at /\ f.state = "over" /\ f.result = Fill(i).result
    BY <1>0 DEF Fills
  <2>2. broker' = [broker EXCEPT !.fills[i] = f]
    BY <1>3 DEF RecordStreak, Fill, Ids
  <2>3. /\ disk' \in Disks /\ disk'.trades = disk.trades /\ disk'.symTrades = disk.symTrades
        /\ disk'.losses = disk.losses
    <3>1. PICK a \in Nat, b \in Int, c \in Int :
            disk' = [disk EXCEPT !.streak[y] = a, !.coolUntil[y] = b, !.stopout[y] = c]
      <4>1. y \in Symbols /\ Fill(i).closed \in Int
        BY <1>0 DEF Fills
      <4>2. disk.streak[y] \in Nat /\ disk.coolUntil[y] \in Int /\ disk.stopout[y] \in Int
        BY <1>0, <4>1 DEF Disks
      <4>3. Fill(i).closed + Risk.cooldown \in Int
        BY <4>1, ConfigTyped DEF Positive
      <4> DEFINE streak == IF Fill(i).result = "win" THEN 0 ELSE disk.streak[y] + 1
                 cools == streak >= Risk.streakLimit
                 a == IF cools THEN 0 ELSE streak
                 b == IF cools THEN Fill(i).closed + Risk.cooldown ELSE disk.coolUntil[y]
                 c == IF Fill(i).result = "stop" THEN Fill(i).closed ELSE disk.stopout[y]
      <4>4. a \in Nat /\ b \in Int /\ c \in Int
        BY <4>1, <4>2, <4>3
      <4>5. disk' = [disk EXCEPT !.streak[y] = a, !.coolUntil[y] = b, !.stopout[y] = c]
        BY <1>3 DEF RecordStreak
      <4> QED BY <4>4, <4>5
    <3> HIDE DEF y
    <3> QED BY <1>0, <3>1 DEF Disks
  <2>4. i \in disk.losses => f.result \in {"loss", "stop"}
    BY <2>1 DEF Related
  <2>5. f.result # "none"
    BY <1>3, <2>1 DEF RecordStreak, Related
  <2>6. UNCHANGED <<now, equity, bound, mem, slot, real>>
    BY <1>3 DEF RecordStreak
  <2> HIDE DEF f
  <2> QED BY <2>1, <2>2, <2>3, <2>4, <2>5, <2>6, EndMoves
<1> QED BY <1>1, <1>2, <1>3

\* The anchors roll, in whole or in part: nothing but them changes.
LEMMA RollTyped ==
  ASSUME Typed, NEW d \in Rolled \cup {disk}
  PROVE  /\ d \in Disks /\ d.trades = disk.trades /\ d.symTrades = disk.symTrades
         /\ d.losses = disk.losses
<1> DEFINE Kept(e) == /\ e \in Disks /\ e.trades = disk.trades /\ e.symTrades = disk.symTrades
                      /\ e.losses = disk.losses
<1>1. disk \in Disks /\ equity \in Int /\ now \in Nat
  BY DEF Typed, Positive
<1>2. now \div Risk.day \in Int /\ now \div Risk.week \in Int
  BY <1>1, ConfigTyped DEF Positive
<1>3. ASSUME NEW e, Kept(e)
      PROVE  Kept(RollDay(e)) /\ Kept(RollWeek(e)) /\ Kept(RollPeak(e))
  BY <1>1, <1>2, <1>3 DEF RollDay, RollWeek, RollPeak, Disks
<1>4. Kept(disk)
  BY <1>1
<1> HIDE DEF Kept
<1>5. \A e \in Rolled \cup {disk} : Kept(e)
  BY <1>3, <1>4 DEF Rolled
<1> QED BY <1>5 DEF Kept

LEMMA DeskAround ==
  ASSUME Typed, Related, Watch, Roll \/ Restart \/ World
  PROVE  Typed' /\ Related'
<1>1. CASE Roll
  <2>1. disk' \in Rolled /\ UNCHANGED <<now, equity, bound, mem, broker, slot, real>>
    BY <1>1 DEF Roll, Rolled, Keep
  <2>2. /\ disk' \in Disks /\ disk'.trades = disk.trades /\ disk'.symTrades = disk.symTrades
        /\ disk'.losses = disk.losses
    BY <2>1, RollTyped
  <2>3. Typed'
    <3>1. (since \in [Vetoes -> Int])'
      BY <2>1, WatchTyped DEF Typed
    <3> QED BY <2>1, <2>2, <3>1 DEF Typed
  <2>4. \A t \in Slots : RiskFrac(slot[t])' = RiskFrac(slot[t])
    BY <2>1 DEF RiskFrac
  <2>5. Ids' = Ids /\ \A j \in Ids : Fill(j)' = Fill(j)
    BY <2>1 DEF Ids, Fill
  <2> QED BY <2>1, <2>2, <2>3, <2>4, <2>5 DEF Related
<1>2. CASE Restart
  <2>1. /\ disk' \in Rolled \cup {disk} /\ UNCHANGED <<now, equity, broker, real>>
        /\ slot' = [s \in Slots |-> Idle] /\ bound' = [bound EXCEPT !.crashes = @ - 1]
        /\ bound.crashes > 0
    BY <1>2 DEF Restart
  <2>2. PICK m \in bound.modes : mem' = Fresh(m)
    BY <1>2 DEF Restart
  <2>3. /\ disk' \in Disks /\ disk'.trades = disk.trades /\ disk'.symTrades = disk.symTrades
        /\ disk'.losses = disk.losses
    BY <2>1, RollTyped
  <2>4. bound' \in Courses /\ m \in STRING
    <3> DEFINE c == bound.crashes - 1
    <3>1. bound \in Courses /\ bound.modes \in SUBSET STRING /\ bound.crashes \in Nat
      BY DEF Typed, Courses
    <3>2. c \in Nat /\ bound' = [bound EXCEPT !.crashes = c]
      BY <2>1, <3>1
    <3> HIDE DEF c
    <3> QED BY <2>2, <3>1, <3>2 DEF Courses
  <2>5. mem' \in Mems /\ IsFiniteSet(mem'.sends)
    <3>1. [y \in Symbols |-> <<>>] \in [Symbols -> Seq(Nat)]
      OBVIOUS
    <3>2. mem' \in Mems
      BY <2>2, <2>4, <3>1 DEF Fresh, Mems, Never
    <3>3. mem'.sends = {}
      BY <2>2 DEF Fresh
    <3> QED BY <3>2, <3>3, FS_EmptySet
  <2>6. slot' \in [Slots -> Hands] /\ \A s \in Slots : slot'[s].pc = "idle"
    BY <2>1, IdleHand
  <2>7. Typed'
    <3>1. (since \in [Vetoes -> Int])'
      BY <2>1, WatchTyped DEF Typed
    <3> QED BY <2>1, <2>3, <2>4, <2>5, <2>6, <3>1 DEF Typed
  <2>8. Ids' = Ids /\ \A j \in Ids : Fill(j)' = Fill(j)
    BY <2>1 DEF Ids, Fill
  <2> QED BY <2>1, <2>3, <2>6, <2>7, <2>8 DEF Related, Way
<1>3. CASE World
  <2>1. UNCHANGED <<disk, mem, slot, real, bound>> /\ (Tick \/ Market)
    BY <1>3 DEF World
  <2>2. /\ now' \in Nat /\ now <= now' /\ equity' \in Positive
        /\ broker'.fills = broker.fills /\ broker' \in [perm : BOOLEAN, fills : Seq(Fills)]
    <3>1. CASE Tick
      BY <3>1 DEF Tick, Typed
    <3>2. CASE equity' \in bound.equity \ {equity} /\ UNCHANGED <<now, broker>>
      BY <3>2 DEF Typed, Courses
    <3>3. CASE broker' = [broker EXCEPT !.perm = ~@] /\ UNCHANGED <<now, equity>>
      <4> DEFINE may == ~broker.perm
      <4>1. may \in BOOLEAN
        OBVIOUS
      <4>2. broker' = [broker EXCEPT !.perm = may] /\ broker \in [perm : BOOLEAN, fills : Seq(Fills)]
        BY <3>3 DEF Typed
      <4> HIDE DEF may
      <4>3. broker'.fills = broker.fills
        BY <4>2
      <4>4. broker' \in [perm : BOOLEAN, fills : Seq(Fills)]
        BY <4>1, <4>2
      <4> QED BY <3>3, <4>3, <4>4 DEF Typed
    <3> QED BY <2>1, <3>1, <3>2, <3>3 DEF Market
  <2>3. Typed'
    <3>1. (since \in [Vetoes -> Int])'
      BY <2>2, WatchTyped
    <3> QED BY <2>1, <2>2, <3>1 DEF Typed
  <2>4. \A t \in Slots : RiskFrac(slot[t])' = RiskFrac(slot[t])
    BY <2>1 DEF RiskFrac
  <2>5. Ids' = Ids /\ \A j \in Ids : Fill(j)' = Fill(j)
    BY <2>2 DEF Ids, Fill
  <2>6. /\ \A s \in Slots : slot[s].pc \in Way => slot[s].asOf \in Nat /\ slot[s].started \in Nat
        /\ \A i \in Ids : Fill(i).at \in Nat
    BY SlotsAre, FillsAre DEF Judging, Fills
  <2>7. now \in Nat
    BY DEF Typed
  <2> QED BY <2>1, <2>2, <2>3, <2>4, <2>5, <2>6, <2>7 DEF Related
<1> QED BY <1>1, <1>2, <1>3

LEMMA DeskStays ==
  ASSUME Typed, Related, UNCHANGED riskVars, since' = since \/ Watch
  PROVE  Typed' /\ Related'
<1>1. UNCHANGED <<now, equity, disk, mem, broker, slot, real, bound>>
  BY DEF riskVars
<1>2. (since \in [Vetoes -> Int])'
  BY <1>1, WatchTyped DEF Typed
<1>3. Typed'
  BY <1>1, <1>2 DEF Typed
<1>4. \A t \in Slots : RiskFrac(slot[t])' = RiskFrac(slot[t])
  BY <1>1 DEF RiskFrac
<1>5. Ids' = Ids /\ \A j \in Ids : Fill(j)' = Fill(j)
  BY <1>1 DEF Ids, Fill
<1> QED BY <1>1, <1>3, <1>4, <1>5 DEF Related

LEMMA ArmingTyped ==
  ASSUME ArmingTypeOK, Ceremony
  PROVE  ArmingTypeOK'
<1> USE DEF ArmingTypeOK
<1>1. CASE Edit
  BY <1>1 DEF Edit
<1>2. CASE EmergencyStop
  BY <1>2 DEF EmergencyStop
<1>3. ASSUME NEW a \in Activations, Activate(a)
      PROVE  ArmingTypeOK'
  <2>1. PICK pc \in {"typing", "done"} : act' = [act EXCEPT ![a] = [pc |-> pc, setup |-> setup]]
    BY <1>3 DEF Activate
  <2>2. [pc |-> pc, setup |-> setup] \in [pc : {"idle", "typing", "done"}, setup : Setups]
    OBVIOUS
  <2>3. act' \in [Activations -> [pc : {"idle", "typing", "done"}, setup : Setups]]
    BY <2>1, <2>2
  <2> QED BY <1>3, <2>3 DEF Activate
<1>4. ASSUME NEW a \in Activations, Type(a)
      PROVE  ArmingTypeOK'
  <2>1. [mode |-> "LIVE_CANARY", setup |-> act[a].setup] \in Live
    BY <1>4 DEF Live
  <2> QED BY <1>4, <2>1 DEF Type
<1>5. ASSUME NEW p \in Promotions, Promote(p)
      PROVE  ArmingTypeOK'
  BY <1>5 DEF Promote
<1>6. ASSUME NEW p \in Promotions, Validate(p)
      PROVE  ArmingTypeOK'
  BY <1>6 DEF Validate
<1>7. ASSUME NEW p \in Promotions, WriteLive(p)
      PROVE  ArmingTypeOK'
  <2>1. [mode |-> "LIVE", setup |-> prom[p].setup] \in Live
    BY <1>7 DEF Live
  <2> QED BY <1>7, <2>1 DEF WriteLive
<1> QED
  BY <1>1, <1>2, <1>3, <1>4, <1>5, <1>6, <1>7 DEF Ceremony

LEMMA DeskNext ==
  ASSUME ArmingTypeOK, Typed, Related, [RiskNext]_vars
  PROVE  ArmingTypeOK' /\ Typed' /\ Related'
<1>0. UNCHANGED <<armVars, canaryFills>> => ArmingTypeOK'
  BY DEF armVars, ArmingTypeOK
<1>a. UNCHANGED armVars /\ canaryFills' \in Nat => ArmingTypeOK'
  BY DEF armVars, ArmingTypeOK
<1>1. ASSUME NEW s \in Slots, Order(s), Watch
      PROVE  ArmingTypeOK' /\ Typed' /\ Related'
  <2>1. CASE \/ \E y \in bound.symbols, r \in Quotes : Size(s, y, r)
             \/ Evaluate(s) \/ Preflight(s) \/ AccountAnswers(s) \/ Gates(s) \/ OrderChecked(s) \/ Abandon(s)
    <3>1. UNCHANGED <<armVars, canaryFills>>
      BY <2>1 DEF Size, Evaluate, Preflight, AccountAnswers, Gates, OrderChecked, Abandon, Keep
    <3> QED BY <1>0, <1>1, <2>1, <3>1, DeskWay
  <2>2. CASE Enter(s) \/ SendFails(s)
    <3>1. UNCHANGED <<armVars, canaryFills>>
      BY <2>2 DEF Enter, SendFails, Keep
    <3> QED BY <1>0, <1>1, <2>2, <3>1, DeskSends
  <2>3. CASE SendFills(s)
    <3>1. UNCHANGED <<armVars, canaryFills>>
      BY <2>3 DEF SendFills, Keep
    <3> QED BY <1>0, <1>1, <2>3, <3>1, DeskFills
  <2>4. CASE RecordGlobal(s) \/ RecordSymbol(s) \/ ReadCanary(s) \/ CountCanary(s)
    <3>1. UNCHANGED armVars /\ canaryFills \in Nat
      BY <2>4 DEF RecordGlobal, RecordSymbol, ReadCanary, CountCanary, Keep, ArmingTypeOK
    <3> QED BY <1>a, <1>1, <2>4, <3>1, DeskRecords
  <2> QED BY <1>1, <2>1, <2>2, <2>3, <2>4 DEF Order
<1>2. ASSUME NEW i \in Ids, Close(i) \/ RecordLoss(i) \/ RecordStreak(i), Watch
      PROVE  ArmingTypeOK' /\ Typed' /\ Related'
  <2>1. UNCHANGED <<armVars, canaryFills>>
    BY <1>2 DEF Close, RecordLoss, RecordStreak, Keep
  <2> QED BY <1>0, <1>2, <2>1, DeskEnds
<1>3. CASE (Roll \/ Restart \/ World) /\ Watch
  <2>1. UNCHANGED <<armVars, canaryFills>>
    BY <1>3 DEF Roll, Restart, World, Keep
  <2> QED BY <1>0, <1>3, <2>1, DeskAround
<1>4. CASE Ceremony /\ UNCHANGED riskVars /\ Watch
  BY <1>4, ArmingTyped, DeskStays
<1>5. CASE UNCHANGED vars
  BY <1>0, <1>5, DeskStays DEF vars
<1> QED
  BY <1>1, <1>2, <1>3, <1>4, <1>5 DEF RiskNext, Step

\* In every state the counters on disk are of fills the broker has, a symbol's
\* among the account's, and the losses are of positions that lost (anchors.py,
\* guards.py).
THEOREM RiskTyped == RiskSpec => []RiskTypeOK
<1>1. ArmingTypeOK /\ Typed /\ Related => RiskTypeOK
  <2> SUFFICES ASSUME ArmingTypeOK, Typed, Related PROVE RiskTypeOK
    OBVIOUS
  <2>1. \A s \in Slots : slot[s].pc \in Pcs
    BY SlotsAre DEF Hands, Idle, Judging, Sending, Filled, Counting, Way, Pcs
  <2> QED BY <2>1 DEF RiskTypeOK, Typed, Related, Mems, Positive
<1> QED
  BY <1>1, DeskInit, DeskNext, PTL DEF RiskSpec

-----------------------------------------------------------------------------
(* The fuse *)

Sends == Slots \X (1..bound.sends)

LEMMA BudgetCount ==
  ASSUME Typed
  PROVE  /\ IsFiniteSet(Sends) /\ Cardinality(Sends) = Cardinality(Slots) * bound.sends
         /\ Cardinality(Sends) \in Nat /\ bound.sends \in Nat /\ bound.sends > 0
         /\ Budget \subseteq Sends
<1>1. bound.sends \in Nat /\ bound.sends > 0
  BY DEF Typed, Courses, Positive
<1>2. IsFiniteSet(1..bound.sends) /\ Cardinality(1..bound.sends) = bound.sends
  BY <1>1, FS_Interval
<1>3. IsFiniteSet(Sends) /\ Cardinality(Sends) = Cardinality(Slots) * Cardinality(1..bound.sends)
  BY <1>2, RiskDeskConfig, FS_Product DEF Sends
<1>4. Cardinality(Sends) \in Nat
  BY <1>3, FS_CardinalityType
<1> QED BY <1>1, <1>2, <1>3, <1>4 DEF Budget, Sends

\* While anybody has a send to make, or has made one, the budget is not whole.
LEMMA NotWhole ==
  ASSUME Typed, NEW b \in Sends, NEW B \in SUBSET Sends, b \notin B
  PROVE  Cardinality(B) \in Nat /\ Cardinality(B) < Cardinality(Slots) * bound.sends
<1>1. B \subseteq Sends \ {b}
  OBVIOUS
<1>2. /\ IsFiniteSet(Sends \ {b}) /\ Cardinality(Sends \ {b}) = Cardinality(Sends) - 1
  BY BudgetCount, FS_RemoveElement
<1>3. Cardinality(B) <= Cardinality(Sends \ {b}) /\ IsFiniteSet(B)
  BY <1>1, <1>2, FS_Subset
<1>4. Cardinality(B) \in Nat
  BY <1>3, FS_CardinalityType
<1> QED BY <1>2, <1>3, <1>4, BudgetCount

LEMMA FuseKept ==
  ASSUME Typed, FuseInv, Budget' \subseteq Budget, mem'.blown = mem.blown, mem'.after = mem.after,
         bound'.sends = bound.sends
  PROVE  FuseInv'
<1>1. IsFiniteSet(Budget)
  BY BudgetCount, FS_Subset
<1>2. Cardinality(Budget') <= Cardinality(Budget) /\ IsFiniteSet(Budget')
  BY <1>1, FS_Subset
<1>3. Cardinality(Budget') \in Nat /\ Cardinality(Budget) \in Nat /\ mem.after \in Nat
      /\ Cardinality(Slots) * bound.sends \in Nat
  BY <1>1, <1>2, FS_CardinalityType, BudgetCount DEF Typed, Mems
<1> HIDE DEF Budget
<1> QED BY <1>2, <1>3 DEF FuseInv

\* The fuse blows, or is asked, while a thread cannot send.
LEMMA FuseAsked ==
  ASSUME Typed, FuseInv, NEW s \in Slots, bound' = bound, slot'[s].pc # "sending",
         \A t \in Slots \ {s} : slot'[t] = slot[t],
         mem.blown => mem'.blown, mem'.after = mem.after, mem'.blown \in BOOLEAN
  PROVE  FuseInv'
<1>1. Budget' \subseteq Budget
  BY DEF Budget
<1>2. CASE mem.blown
  <2>1. mem'.blown = mem.blown
    BY <1>2 DEF Typed, Mems
  <2> QED BY <1>1, <2>1, FuseKept
<1>3. CASE ~mem.blown
  <2>1. mem.after = 0
    BY <1>3 DEF FuseInv
  <2>2. <<s, 1>> \in Sends
    BY BudgetCount DEF Sends
  <2>3. <<s, 1>> \notin Budget'
    BY DEF Budget
  <2>4. Budget' \in SUBSET Sends
    BY <1>1, BudgetCount
  <2>5. Cardinality(Budget') \in Nat /\ Cardinality(Budget') < Cardinality(Slots) * bound.sends
    BY <2>2, <2>3, <2>4, NotWhole
  <2> HIDE DEF Budget
  <2> QED BY <2>1, <2>5 DEF FuseInv
<1> QED BY <1>2, <1>3

\* A send takes one of the budget.
LEMMA FuseSends ==
  ASSUME Typed, Related, FuseInv, NEW s \in Slots, bound' = bound, slot[s].pc = "sending",
         slot'[s].pc = "sending" => slot'[s].sends = slot[s].sends + 1,
         \A t \in Slots \ {s} : slot'[t] = slot[t],
         mem.blown => mem'.blown /\ mem'.after = mem.after + 1,
         ~mem.blown => mem'.after = mem.after
  PROVE  FuseInv'
<1> DEFINE b == <<s, slot[s].sends + 1>>
<1>1. slot[s].sends \in Nat /\ slot[s].sends < bound.sends
  BY SlotsAre DEF Sending, Related
<1>2. b \in Budget /\ b \in Sends
  BY <1>1, BudgetCount DEF Budget, Sends
<1>3. Budget' \subseteq Budget \ {b}
  <2> SUFFICES ASSUME NEW c \in Budget' PROVE c \in Budget /\ c # b
    OBVIOUS
  <2>1. c \in Slots \X (1..bound.sends) /\ slot'[c[1]].pc = "sending" /\ slot'[c[1]].sends < c[2]
    BY DEF Budget
  <2>2. CASE c[1] = s
    BY <1>1, <2>1, <2>2, BudgetCount DEF Budget
  <2>3. CASE c[1] # s
    BY <2>1, <2>3 DEF Budget
  <2> QED BY <2>2, <2>3
<1>4. Budget' \in SUBSET Sends /\ b \notin Budget'
  BY <1>3, BudgetCount
<1>5. Cardinality(Budget') \in Nat /\ Cardinality(Budget') < Cardinality(Slots) * bound.sends
  BY <1>2, <1>4, NotWhole
<1>6. IsFiniteSet(Budget)
  BY BudgetCount, FS_Subset
<1>7. Cardinality(Budget \ {b}) = Cardinality(Budget) - 1 /\ IsFiniteSet(Budget \ {b})
      /\ Cardinality(Budget) \in Nat
  BY <1>2, <1>6, FS_RemoveElement, FS_CardinalityType
<1>8. Cardinality(Budget') <= Cardinality(Budget) - 1
  BY <1>3, <1>7, FS_Subset
<1>9. mem.after \in Nat /\ Cardinality(Slots) * bound.sends \in Nat
  BY BudgetCount DEF Typed, Mems
<1> HIDE DEF Budget
<1> QED BY <1>5, <1>7, <1>8, <1>9 DEF FuseInv

LEMMA FuseInit == ASSUME RiskInit PROVE FuseInv
BY DEF RiskInit, Fresh, FuseInv

LEMMA FuseNext ==
  ASSUME Typed, Related, FuseInv, [RiskNext]_vars
  PROVE  FuseInv'
<1> USE DEF Keep
<1>0. \A s \in Slots : slot[s].pc = "sending" => slot[s] \in Sending
  BY SlotsAre
<1>m. mem \in Mems /\ DOMAIN slot = Slots
  BY DEF Typed
<1>1. ASSUME NEW s \in Slots, Order(s)
      PROVE  FuseInv'
  <2>1. CASE \/ \E y \in bound.symbols, r \in Quotes : Size(s, y, r)
             \/ Preflight(s) \/ AccountAnswers(s) \/ Gates(s) \/ OrderChecked(s) \/ Abandon(s)
             \/ RecordGlobal(s) \/ RecordSymbol(s) \/ ReadCanary(s) \/ CountCanary(s)
    <3>1. bound' = bound /\ mem'.blown = mem.blown /\ mem'.after = mem.after
      BY <1>m, <2>1 DEF Size, Preflight, AccountAnswers, Gates, OrderChecked, Abandon, RecordGlobal,
                        RecordSymbol, ReadCanary, CountCanary, Mems
    <3>2. \A t \in Slots \ {s} : slot'[t] = slot[t]
      BY <1>m, <2>1 DEF Size, Preflight, AccountAnswers, Gates, OrderChecked, Abandon, RecordGlobal,
                        RecordSymbol, ReadCanary, CountCanary
    <3>3. slot'[s].pc # "sending"
      <4>1. slot[s].pc \in Way \cup {"filled"} => "pc" \in DOMAIN slot[s]
        BY SlotsAre DEF Judging, Filled
      <4>2. CASE \E y \in bound.symbols, r \in Quotes : Size(s, y, r)
        BY <1>m, <4>2 DEF Size
      <4>3. CASE Preflight(s)
        BY <1>m, <4>1, <4>3 DEF Preflight, Way
      <4>4. CASE AccountAnswers(s)
        BY <1>m, <4>1, <4>4 DEF AccountAnswers, Way
      <4>5. CASE Gates(s)
        BY <1>m, <4>1, <4>5 DEF Gates, Way, Idle
      <4>6. CASE OrderChecked(s)
        BY <1>m, <4>1, <4>6 DEF OrderChecked, Way
      <4>7. CASE Abandon(s) \/ CountCanary(s)
        BY <1>m, <4>7 DEF Abandon, CountCanary, Idle
      <4>8. CASE RecordGlobal(s)
        BY <1>m, <4>1, <4>8 DEF RecordGlobal
      <4>9. CASE RecordSymbol(s) \/ ReadCanary(s)
        BY <1>m, <4>9 DEF RecordSymbol, ReadCanary, Idle
      <4> QED BY <2>1, <4>2, <4>3, <4>4, <4>5, <4>6, <4>7, <4>8, <4>9
    <3> QED BY <1>m, <3>1, <3>2, <3>3, FuseAsked DEF Mems
  <2>2. CASE Evaluate(s)
    <3>1. bound' = bound /\ mem'.blown = OrderStorm(slot[s].asOf) /\ mem'.after = mem.after
      BY <1>m, <2>2 DEF Evaluate, Mems
    <3>2. \A t \in Slots \ {s} : slot'[t] = slot[t]
      BY <1>m, <2>2 DEF Evaluate
    <3>3. slot'[s].pc # "sending"
      <4>1. slot[s].pc = "sized" => "pc" \in DOMAIN slot[s]
        BY SlotsAre DEF Judging, Way
      <4> QED BY <1>m, <2>2, <4>1 DEF Evaluate, Idle
    <3> QED BY <3>1, <3>2, <3>3, FuseAsked DEF OrderStorm
  <2>3. CASE Enter(s)
    <3>1. bound' = bound /\ mem'.blown = OrderStorm(now) /\ mem'.after = mem.after
      BY <1>m, <2>3 DEF Enter, Mems
    <3>2. \A t \in Slots \ {s} : slot'[t] = slot[t]
      BY <1>m, <2>3 DEF Enter
    <3>3. CASE OrderStorm(now)
      <4>1. slot'[s].pc # "sending"
        BY <1>m, <2>3, <3>3 DEF Enter, Idle
      <4> QED BY <3>1, <3>2, <4>1, FuseAsked DEF OrderStorm
    <3>4. CASE ~OrderStorm(now)
      <4>1. ~mem.blown /\ ~mem'.blown
        BY <3>1, <3>4 DEF OrderStorm
      <4> QED BY <3>1, <4>1 DEF FuseInv
    <3> QED BY <3>3, <3>4
  <2>4. CASE SendFails(s) \/ SendFills(s)
    <3>1. bound' = bound /\ slot[s].pc = "sending" /\ \A t \in Slots \ {s} : slot'[t] = slot[t]
      BY <1>m, <2>4 DEF SendFails, SendFills
    <3>2. mem'.blown = Counted.blown /\ mem'.after = Counted.after
      <4>1. CASE SendFails(s)
        BY <4>1 DEF SendFails
      <4>2. CASE SendFills(s)
        <5>1. PICK points \in bound.slips : mem' = Slipped(Counted, slot[s].sym, points)
          BY <4>2 DEF SendFills
        <5>2. points \in Nat /\ slot[s].sym \in Symbols
          BY <1>0, <3>1 DEF Typed, Courses, Sending
        <5> QED BY <5>1, <5>2, CountedTyped, SlippedTyped
      <4> QED BY <2>4, <4>1, <4>2
    <3>3. slot'[s].pc = "sending" => slot'[s].sends = slot[s].sends + 1
      <4>1. slot[s] \in Sending
        BY <1>0, <3>1
      <4> QED BY <1>m, <2>4, <4>1 DEF SendFails, SendFills, Idle, Sending
    <3> QED BY <3>1, <3>2, <3>3, CountedTyped, FuseSends
  <2> QED BY <1>1, <2>1, <2>2, <2>3, <2>4 DEF Order
<1>2. ASSUME UNCHANGED <<mem, slot>>, bound' = bound
      PROVE  FuseInv'
  BY <1>2 DEF FuseInv, Budget
<1>3. ASSUME NEW i \in Ids, Close(i) \/ RecordLoss(i) \/ RecordStreak(i)
      PROVE  FuseInv'
  BY <1>2, <1>3 DEF Close, RecordLoss, RecordStreak
<1>4. CASE Roll \/ World \/ UNCHANGED riskVars \/ UNCHANGED vars
  BY <1>2, <1>4 DEF Roll, World, riskVars, vars
<1>5. CASE Restart
  BY <1>5 DEF Restart, Fresh, FuseInv
<1> QED BY <1>1, <1>3, <1>4, <1>5 DEF RiskNext, Step

\* A blown fuse stays blown until the process ends: the sends after it are of the
\* threads that asked it before, each within its retries, and the one that blew it
\* was itself one of them (guards.py: OrderStormFuse; engine.py: execute_market).
THEOREM FusedSends == RiskSpec => []SendsAreFused
<1> DEFINE Inv == ArmingTypeOK /\ Typed /\ Related /\ FuseInv
<1>1. RiskInit => Inv
  BY DeskInit, FuseInit
<1>2. Inv /\ [RiskNext]_vars => Inv'
  BY DeskNext, FuseNext
<1>3. Inv => SendsAreFused
  <2> SUFFICES ASSUME Typed, FuseInv PROVE SendsAreFused
    OBVIOUS
  <2>1. IsFiniteSet(Budget)
    BY BudgetCount, FS_Subset
  <2>2. Cardinality(Budget) \in Nat /\ mem.after \in Nat
    BY <2>1, FS_CardinalityType DEF Typed, Mems
  <2>3. Cardinality(Slots) * bound.sends > 0
    <3>1. Cardinality(Slots) \in Nat /\ Cardinality(Slots) >= 1
      BY ConfigTyped DEF Positive
    <3>2. 1 * bound.sends <= Cardinality(Slots) * bound.sends
      BY <3>1, BudgetCount, TimesMonotone
    <3> QED BY <3>1, <3>2, BudgetCount
  <2> HIDE DEF Budget
  <2> QED BY <2>2, <2>3, BudgetCount DEF FuseInv, SendsAreFused
<1> QED
  BY <1>1, <1>2, <1>3, PTL DEF RiskSpec

-----------------------------------------------------------------------------
(* The caps *)

\* The fills that the hour's cap will count: recorded, or about to be.
Known == {i \in Ids : i \in disk.trades \/ \E s \in Slots : slot[s].pc = "filled" /\ slot[s].id = i}

\* The sets counted are finite.
LEMMA Finite ==
  ASSUME Typed
  PROVE  /\ IsFiniteSet(Ids) /\ IsFiniteSet(OpenIds) /\ IsFiniteSet(Committed) /\ IsFiniteSet(Known)
         /\ Cardinality(OpenIds) \in Nat /\ Cardinality(Committed) \in Nat
         /\ Cardinality(Committed) <= Cardinality(Slots)
         /\ \A i \in Ids : Fill(i) \in Fills /\ broker.fills[i].frac \in Nat
         /\ \A i \in Ids : broker.fills[i].frac \in 0..MaxRiskPerTrade
<1>1. IsFiniteSet(Ids)
  BY FillsAre, FS_Interval
<1>2. OpenIds \subseteq Ids /\ Known \subseteq Ids /\ Committed \subseteq Slots
  BY DEF OpenIds, Known, Committed
<1>3. IsFiniteSet(OpenIds) /\ IsFiniteSet(Known)
  BY <1>1, <1>2, FS_Subset
<1>4. /\ IsFiniteSet(Committed)
      /\ Cardinality(Committed) <= Cardinality(Slots)
  BY <1>2, RiskDeskConfig, FS_Subset
<1>5. \A i \in Ids : Fill(i) \in Fills /\ broker.fills[i] \in Fills
  BY FillsAre DEF Fill
<1>6. \A i \in Ids : broker.fills[i].frac \in 0..MaxRiskPerTrade
  BY <1>5 DEF Fills
<1> QED
  BY <1>1, <1>3, <1>4, <1>5, <1>6, FS_CardinalityType, ConfigTyped

LEMMA FracBounded ==
  ASSUME Typed, Related, NEW s \in Committed
  PROVE  FracOf(slot[s]) \in 0..MaxRiskPerTrade
<1>1. CASE slot[s].pc = "sending"
  BY <1>1, SlotsAre DEF Committed, Sending, FracOf
<1>2. CASE slot[s].pc # "sending"
  BY <1>2 DEF Committed, Approving, Way, Related, FracOf
<1> QED BY <1>1, <1>2

LEMMA ExposureIs ==
  ASSUME Typed
  PROVE  Exposure = Sum(broker.fills, OpenIds) /\ Exposure \in Nat
<1>1. Exposure = Sum(broker.fills, OpenIds)
  BY DEF Exposure, Sum, Fill
<1> QED BY <1>1, Finite, SumNat DEF OpenIds

\* The same after a step.
LEMMA FiniteNext ==
  (Typed => /\ Exposure = Sum(broker.fills, OpenIds) /\ Exposure \in Nat
            /\ IsFiniteSet(OpenIds) /\ Cardinality(Committed) <= Cardinality(Slots)
            /\ \A i \in Ids : broker.fills[i].frac \in Nat)'
<1>1. Typed => /\ Exposure = Sum(broker.fills, OpenIds) /\ Exposure \in Nat
               /\ IsFiniteSet(OpenIds) /\ Cardinality(Committed) <= Cardinality(Slots)
               /\ \A i \in Ids : broker.fills[i].frac \in Nat
  BY Finite, ExposureIs
<1> QED BY <1>1, PTL

\* Arithmetic of the threads' largest risks: one thread fewer is one risk fewer.
LEMMA Share ==
  ASSUME NEW M \in Nat, NEW a \in Nat, NEW b \in Nat, a <= b
  PROVE  /\ (a - 1) * M \in Int /\ (b - 1) * M \in Int /\ (a - 1) * M <= (b - 1) * M
         /\ (b - 1) * M = b * M - M /\ a * M \in Nat /\ b * M \in Nat
         /\ a < b => a * M <= (b - 1) * M
<1>1. a * M <= b * M
  BY TimesMonotone
<1>2. a * M \in Nat /\ b * M \in Nat /\ (a - 1) * M = a * M - M /\ (b - 1) * M = b * M - M
  OBVIOUS
<1>3. ASSUME a < b
      PROVE  a * M <= (b - 1) * M
  BY <1>3, TimesMonotone, b - 1 \in Nat
<1> QED BY <1>1, <1>2, <1>3

LEMMA CapsTyped ==
  /\ Risk.maxPositions \in Nat /\ Risk.maxOpenRisk \in Nat /\ Risk.hourCap \in Nat
  /\ Risk.hour \in Nat /\ Risk.hour > 0 /\ Risk.hourCap > 0
  /\ MaxRiskPerTrade \in Nat /\ Cardinality(Slots) \in Nat /\ MostRisk \in Int
<1>1. \A n \in Positive : n \in Nat /\ n > 0
  BY DEF Positive
<1>2. Risk.maxOpenRisk \in Nat /\ MaxRiskPerTrade \in Nat
  BY <1>1, ConfigTyped
<1>3. /\ Risk.maxPositions \in Positive /\ Risk.hourCap \in Positive
      /\ Risk.hour \in Positive /\ Cardinality(Slots) \in Positive
  BY ConfigTyped
<1>4. (Cardinality(Slots) - 1) * MaxRiskPerTrade \in Int
  BY <1>1, <1>2, <1>3, Share
<1> QED BY <1>1, <1>2, <1>3, <1>4 DEF MostRisk

\* A step that approves nothing and fills nothing: no more is open, on the way or
\* known than before.
Lowers ==
  /\ Ids' = Ids /\ now' >= now
  /\ \A i \in Ids : /\ broker'.fills[i].frac = broker.fills[i].frac
                    /\ broker'.fills[i].at = broker.fills[i].at
                    /\ broker'.fills[i].state = "open" => broker.fills[i].state = "open"
  /\ \A s \in Committed' : s \in Committed /\ FracOf(slot'[s]) = FracOf(slot[s])
  /\ Known' \subseteq Known

\* A thread's order is approved.
Approves(s) ==
  /\ s \in Slots /\ slot[s].pc = "sized" /\ Approved(slot[s])
  /\ UNCHANGED <<now, broker>> /\ Known' = Known
  /\ Committed' = Committed \cup {s} /\ FracOf(slot'[s]) = RiskFrac(slot[s])
  /\ \A t \in Committed : slot'[t] = slot[t]

\* It fills.
FillsNew(s, n) ==
  /\ s \in Committed /\ n \notin Ids /\ Ids' = Ids \cup {n} /\ now' = now
  /\ broker'.fills[n].frac = FracOf(slot[s]) /\ broker'.fills[n].at = now
  /\ broker'.fills[n].state = "open"
  /\ \A i \in Ids : broker'.fills[i] = broker.fills[i]
  /\ Committed' = Committed \ {s} /\ \A t \in Committed' : slot'[t] = slot[t]
  /\ Known' = Known \cup {n}

OpenCaps == OpenInv /\ RiskInv

LEMMA OpenLowers ==
  ASSUME Typed, Related, Typed', Related', OpenCaps, Lowers
  PROVE  OpenCaps'
<1>1. OpenIds' \subseteq OpenIds
  BY DEF OpenIds, Fill, Lowers
<1>2. Committed' \subseteq Committed
  BY DEF Lowers
<1>3. Cardinality(OpenIds') <= Cardinality(OpenIds) /\ Cardinality(OpenIds') \in Nat
  BY <1>1, Finite, FS_Subset, FS_CardinalityType
<1>4. Cardinality(Committed') <= Cardinality(Committed) /\ Cardinality(Committed') \in Nat
  BY <1>2, Finite, FS_Subset, FS_CardinalityType
<1>5. OpenInv'
  BY <1>3, <1>4, Finite, CapsTyped DEF OpenCaps, OpenInv
<1>6. Exposure' <= Exposure /\ Exposure' \in Nat /\ Exposure \in Nat
  <2>1. Exposure' = Sum(broker'.fills, OpenIds') /\ Exposure' \in Nat
    BY FiniteNext
  <2>2. Exposure = Sum(broker.fills, OpenIds) /\ Exposure \in Nat
    BY ExposureIs
  <2>3. Sum(broker'.fills, OpenIds') = Sum(broker.fills, OpenIds')
    <3>1. \A i \in OpenIds' : broker'.fills[i].frac = broker.fills[i].frac
      BY <1>1 DEF Lowers, OpenIds
    <3>2. IsFiniteSet(OpenIds')
      BY <1>1, Finite, FS_Subset
    <3> QED BY <3>1, <3>2, SumSame
  <2>4. Sum(broker.fills, OpenIds') <= Sum(broker.fills, OpenIds)
    BY <1>1, Finite, SumBelow DEF OpenIds
  <2> QED BY <2>1, <2>2, <2>3, <2>4
<1> DEFINE M == MaxRiskPerTrade
           C == Cardinality(Committed)
           D == Cardinality(Committed')
<1>7. M \in Nat /\ C \in Nat /\ D \in Nat /\ D <= C /\ MostRisk \in Int
  <2>1. MostRisk \in Int
    BY CapsTyped
  <2>2. C \in Nat /\ D \in Nat /\ D <= C
    BY <1>4, Finite
  <2> QED BY <2>1, <2>2, ConfigTyped
<1>8. MostRisk' = MostRisk
  BY DEF MostRisk
<1>9. CASE Committed = {}
  BY <1>2, <1>6, <1>7, <1>8, <1>9, <1>5 DEF OpenCaps, RiskInv
<1>10. ASSUME NEW w \in Committed, Exposure + FracOf(slot[w]) + (C - 1) * M <= MostRisk
       PROVE  RiskInv'
  <2>1. FracOf(slot[w]) \in 0..M /\ C >= 1
    <3>1. C # 0
      BY Finite, FS_EmptySet
    <3> QED BY <1>7, <3>1, FracBounded
  <2>2. \A s \in Committed' : FracOf(slot'[s]) = FracOf(slot[s]) /\ FracOf(slot[s]) \in 0..M
    BY FracBounded DEF Lowers
  <2>3. CASE Committed' = {}
    <3>1. (C - 1) * M \in Nat
      BY <1>7, <2>1, TimesNatural, C - 1 \in Nat
    <3> HIDE DEF C
    <3> QED BY <1>6, <1>7, <1>8, <1>10, <2>1, <2>3, <3>1 DEF RiskInv
  <2>4. CASE w \in Committed'
    <3>1. (D - 1) * M \in Int /\ (C - 1) * M \in Int /\ (D - 1) * M <= (C - 1) * M
      BY <1>7, Share
    <3>2. Exposure' + FracOf(slot'[w]) + (D - 1) * M <= MostRisk'
      <4> HIDE DEF C, D
      <4> QED BY <1>6, <1>7, <1>8, <1>10, <2>1, <2>2, <2>4, <3>1
    <3> QED BY <2>4, <3>2 DEF RiskInv
  <2>5. CASE Committed' # {} /\ w \notin Committed'
    <3>1. PICK v \in Committed' : TRUE
      BY <2>5
    <3>2. D < C
      <4>1. Committed' # Committed
        BY <2>5
      <4> QED BY <1>2, <1>7, <4>1, Finite, FS_Subset
    <3>3. D * M <= (C - 1) * M /\ (D - 1) * M = D * M - M /\ D * M \in Int /\ (C - 1) * M \in Int
      BY <1>7, <3>2, Share
    <3>4. Exposure' + FracOf(slot'[v]) + (D - 1) * M <= MostRisk'
      <4> HIDE DEF C, D
      <4> QED BY <1>6, <1>7, <1>8, <1>10, <2>1, <2>2, <3>3
    <3> QED BY <3>1, <3>4 DEF RiskInv
  <2> QED BY <2>3, <2>4, <2>5
<1>11. CASE Committed # {}
  BY <1>5, <1>10, <1>11 DEF OpenCaps, RiskInv
<1> QED BY <1>9, <1>5, <1>11 DEF OpenCaps

LEMMA OpenApproves ==
  ASSUME Typed, Related, Typed', Related', OpenCaps, NEW s \in Slots, Approves(s)
  PROVE  OpenCaps'
<1> DEFINE M == MaxRiskPerTrade
           C == Cardinality(Committed)
           N == Cardinality(Slots)
<1>1. OpenIds' = OpenIds /\ Exposure' = Exposure
  <2>1. OpenIds' = OpenIds /\ broker'.fills = broker.fills
    BY DEF Approves, OpenIds, Ids, Fill
  <2>2. Exposure = Sum(broker.fills, OpenIds) /\ Exposure' = Sum(broker'.fills, OpenIds')
    BY ExposureIs, FiniteNext
  <2> QED BY <2>1, <2>2
<1>2. s \notin Committed /\ FracOf(slot'[s]) = RiskFrac(slot[s])
  BY DEF Approves, Committed, Approving
<1>3. Cardinality(Committed') = C + 1 /\ C + 1 <= N /\ C \in Nat /\ N \in Nat
  <2>1. Cardinality(Committed \cup {s}) = C + 1
    BY <1>2, Finite, FS_AddElement
  <2>2. Cardinality(Committed') <= N
    BY FiniteNext
  <2> QED BY <2>1, <2>2, Finite, CapsTyped DEF Approves
<1>4. Cardinality(OpenIds) < Risk.maxPositions /\ Cardinality(OpenIds) \in Nat
      /\ Exposure + RiskFrac(slot[s]) <= Risk.maxOpenRisk /\ Exposure \in Nat
  <2>1. ~Rejects("MAX_POSITIONS", slot[s].sym, slot[s].asOf, slot[s].eq) /\ ~check_open_risk(slot[s].sym, RiskFrac(slot[s]))
    BY DEF Approves, Approved, Guards
  <2>2. RiskFrac(slot[s]) \in Nat
    BY ConfigTyped DEF Approves, Related, Way
  <2>3. ~(Cardinality(OpenIds) >= Risk.maxPositions)
    BY <2>1 DEF Rejects, check_position_caps
  <2>4. ~(Exposure + RiskFrac(slot[s]) > Risk.maxOpenRisk)
    BY <2>1 DEF check_open_risk, Exposure
  <2>5. Cardinality(OpenIds) \in Nat /\ Exposure \in Nat
    BY Finite, ExposureIs
  <2>6. Risk.maxPositions \in Nat /\ Risk.maxOpenRisk \in Nat
    BY CapsTyped
  <2> QED BY <2>2, <2>3, <2>4, <2>5, <2>6
<1>5. OpenInv'
  <2> HIDE DEF C, N
  <2>1. Cardinality(OpenIds) + (C + 1) < Risk.maxPositions + N
    BY <1>3, <1>4, CapsTyped
  <2> QED BY <1>1, <1>3, <2>1 DEF OpenInv, N
<1>6. s \in Committed' /\ MostRisk' = MostRisk
  BY DEF Approves, MostRisk
<1>7. Exposure' + FracOf(slot'[s]) + ((C + 1) - 1) * M <= MostRisk'
  <2>1. C * M <= (N - 1) * M /\ C * M \in Nat /\ (N - 1) * M \in Int
    BY <1>3, ConfigTyped, Share
  <2>2. RiskFrac(slot[s]) \in Nat
    BY ConfigTyped DEF Approves, Related, Way
  <2>3. MostRisk = Risk.maxOpenRisk + (N - 1) * M /\ (C + 1) - 1 = C
    BY <1>3 DEF MostRisk
  <2>4. Risk.maxOpenRisk \in Nat
    BY ConfigTyped DEF Positive
  <2> HIDE DEF C, N, M
  <2> QED BY <1>1, <1>2, <1>4, <1>6, <2>1, <2>2, <2>3, <2>4
<1>8. RiskInv'
  BY <1>3, <1>6, <1>7 DEF RiskInv
<1> QED BY <1>5, <1>8 DEF OpenCaps

LEMMA OpenFills ==
  ASSUME Typed, Related, Typed', Related', OpenCaps, NEW s, NEW n, FillsNew(s, n)
  PROVE  OpenCaps'
<1> DEFINE M == MaxRiskPerTrade
           C == Cardinality(Committed)
<1>1. OpenIds' = OpenIds \cup {n} /\ n \notin OpenIds /\ s \in Committed
  BY DEF FillsNew, OpenIds, Fill
<1>2. Cardinality(OpenIds') = Cardinality(OpenIds) + 1
  BY <1>1, Finite, FS_AddElement
<1>3. Cardinality(Committed') = C - 1 /\ C \in Nat /\ C - 1 \in Nat /\ M \in Nat
  <2>1. Cardinality(Committed \ {s}) = C - 1
    BY <1>1, Finite, FS_RemoveElement
  <2>2. C \in Nat /\ C # 0
    BY <1>1, Finite, FS_EmptySet
  <2>3. Cardinality(Committed') = C - 1
    BY <2>1 DEF FillsNew
  <2> HIDE DEF C
  <2> QED BY <2>2, <2>3, ConfigTyped
<1>4. OpenInv'
  <2>1. Cardinality(OpenIds) \in Nat /\ Risk.maxPositions \in Nat /\ Cardinality(Slots) \in Nat
    BY Finite, CapsTyped
  <2>2. Cardinality(OpenIds) + C < Risk.maxPositions + Cardinality(Slots)
    BY DEF OpenCaps, OpenInv
  <2> HIDE DEF C
  <2> QED BY <1>2, <1>3, <2>1, <2>2 DEF OpenInv
<1>5. Exposure' = Exposure + FracOf(slot[s]) /\ Exposure \in Nat /\ FracOf(slot[s]) \in 0..M
  <2>1. Exposure' = Sum(broker'.fills, OpenIds')
    BY FiniteNext
  <2>2. /\ IsFiniteSet(OpenIds') /\ n \in OpenIds' /\ OpenIds' \ {n} = OpenIds
        /\ \A i \in OpenIds' : broker'.fills[i].frac \in Nat
    BY <1>1, FiniteNext DEF OpenIds
  <2>3. Sum(broker'.fills, OpenIds') = broker'.fills[n].frac + Sum(broker'.fills, OpenIds)
    BY <2>2, SumMore
  <2>4. Sum(broker'.fills, OpenIds) = Sum(broker.fills, OpenIds)
    BY Finite, SumSame DEF FillsNew, OpenIds
  <2>5. Exposure = Sum(broker.fills, OpenIds) /\ Exposure \in Nat /\ FracOf(slot[s]) \in 0..M
    BY <1>1, ExposureIs, FracBounded
  <2>6. broker'.fills[n].frac = FracOf(slot[s])
    BY DEF FillsNew
  <2> QED BY <1>3, <2>1, <2>3, <2>4, <2>5, <2>6
<1>6. MostRisk' = MostRisk /\ MostRisk \in Int
  BY CapsTyped DEF MostRisk
<1>7. PICK w \in Committed : Exposure + FracOf(slot[w]) + (C - 1) * M <= MostRisk
  BY <1>1 DEF OpenCaps, RiskInv
<1>8. FracOf(slot[w]) \in 0..M
  BY FracBounded
<1>9. (C - 1) * M \in Nat /\ ((C - 1) - 1) * M = (C - 1) * M - M
  BY <1>3, TimesNatural
<1>10. CASE Committed' = {}
  <2>1. w = s /\ C - 1 = 0
    BY <1>3, <1>10, FS_EmptySet DEF FillsNew
  <2> HIDE DEF C
  <2> QED BY <1>3, <1>4, <1>5, <1>6, <1>7, <1>9, <1>10, <2>1 DEF OpenCaps, RiskInv
<1>11. CASE Committed' # {}
  <2>1. PICK v \in Committed' : v = w \/ w = s
    BY <1>11 DEF FillsNew
  <2>2. v \in Committed /\ slot'[v] = slot[v]
    BY <2>1 DEF FillsNew
  <2>3. FracOf(slot[v]) \in 0..M
    BY <2>2, FracBounded
  <2>4. Exposure' + FracOf(slot'[v]) + ((C - 1) - 1) * M <= MostRisk'
    <3> HIDE DEF C
    <3> QED BY <1>3, <1>5, <1>6, <1>7, <1>8, <1>9, <2>1, <2>2, <2>3
  <2> QED BY <1>3, <1>4, <2>1, <2>4 DEF OpenCaps, RiskInv
<1> QED BY <1>10, <1>11

LEMMA HourLowers ==
  ASSUME Typed, Typed', HourInv, Lowers
  PROVE  HourInv'
<1> SUFFICES ASSUME NEW t \in Nat PROVE HourAt(t)'
  BY DEF HourInv
<1>1. Committed' \subseteq Committed /\ now' >= now /\ now \in Nat /\ now' \in Nat
  BY DEF Lowers, Typed
<1>2. InHour(t)' \subseteq InHour(t)
  BY DEF InHour, LostRecords, Known, Fill, Lowers
<1>3. InHour(t) \subseteq Ids
  BY DEF InHour
<1>4. IsFiniteSet(InHour(t))
  BY <1>3, Finite, FS_Subset
<1>5. /\ Cardinality(InHour(t)') <= Cardinality(InHour(t)) /\ Cardinality(InHour(t)') \in Nat
      /\ Cardinality(InHour(t)) \in Nat
  BY <1>2, <1>4, FS_Subset, FS_CardinalityType
<1>6. /\ Cardinality(Committed') <= Cardinality(Committed) /\ Cardinality(Committed') \in Nat
      /\ Cardinality(Committed) \in Nat
  BY <1>1, Finite, FS_Subset, FS_CardinalityType
<1>7. HourAt(t)
  BY DEF HourInv
<1> QED BY <1>1, <1>5, <1>6, <1>7, CapsTyped DEF HourAt

LEMMA HourFills ==
  ASSUME Typed, Typed', HourInv, NEW s, NEW n, FillsNew(s, n)
  PROVE  HourInv'
<1> SUFFICES ASSUME NEW t \in Nat PROVE HourAt(t)'
  BY DEF HourInv
<1>1. s \in Committed /\ Committed' = Committed \ {s} /\ now' = now /\ now \in Nat /\ n \notin Ids
  BY DEF FillsNew, Typed
<1>2. IsFiniteSet(InHour(t)) /\ n \notin InHour(t)
  <2>1. InHour(t) \subseteq Ids
    BY DEF InHour
  <2> QED BY <1>1, <2>1, Finite, FS_Subset
<1>3. Cardinality(InHour(t)) \in Nat /\ Cardinality(InHour(t) \cup {n}) = Cardinality(InHour(t)) + 1
  BY <1>2, FS_AddElement, FS_CardinalityType
<1>4. /\ Cardinality(Committed') = Cardinality(Committed) - 1 /\ Cardinality(Committed) \in Nat
  BY <1>1, Finite, FS_RemoveElement
<1>5. HourAt(t)
  BY DEF HourInv
<1>6. CASE now \in t..(t + Risk.hour)
  <2>1. InHour(t)' = InHour(t) \cup {n}
    BY <1>6 DEF InHour, LostRecords, Known, Fill, FillsNew
  <2>2. now <= t + Risk.hour
    BY <1>6
  <2> QED BY <1>1, <1>3, <1>4, <1>5, <2>1, <2>2, CapsTyped DEF HourAt
<1>7. CASE now \notin t..(t + Risk.hour)
  <2>1. InHour(t)' = InHour(t)
    BY <1>7 DEF InHour, LostRecords, Known, Fill, FillsNew
  <2> QED BY <1>1, <1>3, <1>4, <1>5, <2>1, CapsTyped DEF HourAt
<1> QED BY <1>6, <1>7

\* Whoever is approved counts the fills on disk; those not there yet are of other
\* threads, and a thread is either about to record or on its way.
LEMMA HourApproves ==
  ASSUME Typed, Related, Typed', HourInv, NEW s \in Slots, Approves(s)
  PROVE  HourInv'
<1> SUFFICES ASSUME NEW t \in Nat PROVE HourAt(t)'
  BY DEF HourInv
<1> DEFINE C == Cardinality(Committed)
           N == Cardinality(Slots)
           H == {u \in Slots : slot[u].pc = "filled"}
           from == slot[s].asOf - Risk.hour
           A == {i \in disk.trades : Fill(i).at >= from}
           B == {slot[u].id : u \in H}
<1>1. /\ slot[s].asOf \in Nat /\ slot[s].asOf <= now /\ now \in Nat /\ now' = now
      /\ slot[s].pc = "sized"
  <2>1. slot[s].pc = "sized" /\ now' = now
    BY DEF Approves
  <2> QED BY <2>1, SlotsAre DEF Related, Way, Judging, Typed
<1>2. s \notin Committed /\ Committed' = Committed \cup {s}
  BY DEF Approves, Committed, Approving
<1>3. Cardinality(Committed') = C + 1 /\ C \in Nat
  BY <1>2, Finite, FS_AddElement
<1>4. InHour(t)' = InHour(t)
  BY DEF InHour, LostRecords, Known, Fill, Approves
<1>5. InHour(t) \subseteq Ids /\ IsFiniteSet(InHour(t)) /\ Cardinality(InHour(t)) \in Nat
  <2>1. InHour(t) \subseteq Ids
    BY DEF InHour
  <2> QED BY <2>1, Finite, FS_Subset, FS_CardinalityType
<1>6. CASE ~(now <= t + Risk.hour)
  <2>1. HourAt(t)
    BY DEF HourInv
  <2> QED BY <1>1, <1>4, <1>6, <2>1 DEF HourAt
<1>7. CASE now <= t + Risk.hour
  <2>1. InHour(t) \subseteq A \cup B
    <3> SUFFICES ASSUME NEW i \in InHour(t) PROVE i \in A \cup B
      OBVIOUS
    <3>1. i \in Ids /\ Fill(i).at >= t /\ (i \in disk.trades \/ \E u \in Slots : slot[u].pc = "filled" /\ slot[u].id = i)
      BY DEF InHour, LostRecords
    <3>2. Fill(i).at \in Nat
      BY <3>1, Finite DEF Fills
    <3>3. Fill(i).at >= from
      BY <1>1, <1>7, <3>1, <3>2, CapsTyped
    <3> QED BY <3>1, <3>3
  <2>2. IsFiniteSet(A) /\ Cardinality(A) \in Nat /\ Cardinality(A) < Risk.hourCap
    <3>1. A \subseteq Ids
      BY DEF Related
    <3>2. IsFiniteSet(A) /\ Cardinality(A) \in Nat
      BY <3>1, Finite, FS_Subset, FS_CardinalityType
    <3>3. ~Rejects("HOURLY_CAP", slot[s].sym, slot[s].asOf, slot[s].eq)
      BY DEF Approves, Approved, Guards
    <3>4. ~(Cardinality(A) >= Risk.hourCap)
      BY <3>3 DEF Rejects, TradeRate, Within
    <3> HIDE DEF A
    <3> QED BY <3>2, <3>4, CapsTyped
  <2>3. IsFiniteSet(H) /\ Cardinality(H) \in Nat
    BY RiskDeskConfig, FS_Subset, FS_CardinalityType
  <2>4. IsFiniteSet(B) /\ Cardinality(B) \in Nat /\ Cardinality(B) <= Cardinality(H)
    <3> DEFINE idOf == [u \in H |-> slot[u].id]
    <3>1. idOf \in Surjection(H, B)
      BY DEF Surjection
    <3> HIDE DEF idOf, H, B
    <3> QED BY <2>3, <3>1, FS_Surjection, FS_CardinalityType
  <2>5. Cardinality(H) + (C + 1) <= N
    <3>1. H \cap Committed' = {} /\ H \cup Committed' \subseteq Slots
      BY <1>1, <1>2 DEF Committed, Approving
    <3>2. IsFiniteSet(Committed')
      BY <1>2, Finite, FS_AddElement
    <3>3. Cardinality(H \cup Committed') <= N /\ IsFiniteSet(H \cup Committed')
      BY <3>1, RiskDeskConfig, FS_Subset
    <3>4. Cardinality(H \cap Committed') = 0
      BY <3>1, FS_EmptySet
    <3>5. Cardinality(H \cup Committed') = Cardinality(H) + Cardinality(Committed') - Cardinality(H \cap Committed')
      BY <2>3, <3>2, FS_Union
    <3> HIDE DEF H, C, N
    <3> QED BY <1>3, <2>3, <3>3, <3>4, <3>5
  <2>6. Cardinality(InHour(t)) <= Cardinality(A) + Cardinality(B)
    <3>1. IsFiniteSet(A \cup B) /\ IsFiniteSet(A \cap B) /\ Cardinality(A \cup B) = Cardinality(A) + Cardinality(B) - Cardinality(A \cap B)
      BY <2>2, <2>4, FS_Union, FS_Intersection
    <3>2. Cardinality(InHour(t)) <= Cardinality(A \cup B)
      BY <2>1, <3>1, FS_Subset
    <3>3. Cardinality(A \cap B) \in Nat /\ Cardinality(A \cup B) \in Nat
      BY <3>1, FS_CardinalityType
    <3> HIDE DEF A, B
    <3> QED BY <1>5, <2>2, <2>4, <3>1, <3>2, <3>3
  <2>7. Cardinality(InHour(t)) + (C + 1) < Risk.hourCap + N
    <3> HIDE DEF A, B, C, N, H
    <3>1. N \in Nat
      BY CapsTyped DEF N
    <3> QED BY <1>3, <1>5, <2>2, <2>3, <2>4, <2>5, <2>6, <3>1, CapsTyped
  <2> QED BY <1>1, <1>3, <1>4, <1>7, <2>7 DEF HourAt
<1> QED BY <1>6, <1>7


\* A thread that goes on, gives up or records lowers.
LEMMA HandLowers ==
  ASSUME Typed, NEW s \in Slots, NEW o, slot' = [slot EXCEPT ![s] = o], UNCHANGED <<now, broker>>,
         o.pc # "filled",
         o.pc \in Approving => slot[s].pc \in Approving /\ FracOf(o) = FracOf(slot[s]),
         \/ disk'.trades = disk.trades
         \/ slot[s].pc = "filled" /\ disk'.trades = disk.trades \cup {slot[s].id}
  PROVE  Lowers
<1>1. slot'[s] = o /\ \A t \in Slots \ {s} : slot'[t] = slot[t]
  BY DEF Typed
<1>2. Ids' = Ids /\ now' >= now
  BY DEF Ids, Typed
<1>3. \A t \in Committed' : t \in Committed /\ FracOf(slot'[t]) = FracOf(slot[t])
  BY <1>1 DEF Committed
<1>4. Known' \subseteq Known
  BY <1>1, <1>2 DEF Known
<1> QED BY <1>2, <1>3, <1>4 DEF Lowers

\* What every step is for the caps.
LEMMA OrderCaps ==
  ASSUME Typed, Related, NEW s \in Slots, Order(s)
  PROVE  Lowers \/ Approves(s) \/ \E n \in Nat : FillsNew(s, n)
<1> DEFINE o == slot[s]
<1> USE DEF Keep
<1>0. o.pc \in Way => o \in Judging
  BY SlotsAre
<1>d. DOMAIN slot = Slots /\ disk \in Disks
  BY DEF Typed
<1>i. Idle.pc = "idle" /\ "idle" \notin Approving
  BY DEF Idle, Approving
<1>a. ASSUME slot' = [slot EXCEPT ![s] = Idle], UNCHANGED <<now, broker, disk>>
      PROVE  Lowers
  BY <1>a, <1>i, HandLowers
<1>b. ASSUME NEW p \in Judging, slot' = [slot EXCEPT ![s] = p], UNCHANGED <<now, broker, disk>>,
             p.size = o.size, p.eq = o.eq, o.pc \in Approving, o.pc # "sending"
      PROVE  Lowers
  <2>1. FracOf(p) = FracOf(o) /\ p.pc # "filled"
    BY <1>b DEF FracOf, RiskFrac, Judging, Way
  <2> QED BY <1>b, <2>1, HandLowers
<1>1. ASSUME NEW y \in bound.symbols, NEW r \in Quotes, Size(s, y, r)
      PROVE  Lowers
  <2> DEFINE p == [pc |-> "sized", sym |-> y, asOf |-> now, eq |-> equity, started |-> now,
                   size |-> size_position(r, equity, CanaryActive, 0)]
  <2>1. slot' = [slot EXCEPT ![s] = p] /\ UNCHANGED <<now, broker, disk>> /\ p.pc = "sized"
    BY <1>1 DEF Size
  <2> HIDE DEF p
  <2> QED BY <2>1, HandLowers DEF Approving
<1>2. CASE Evaluate(s) /\ ~Approved(o)
  <2>1. slot' = [slot EXCEPT ![s] = Idle] /\ UNCHANGED <<now, broker>> /\ disk'.trades = disk.trades
    BY <1>2, <1>d DEF Evaluate, Disks
  <2> QED BY <1>i, <2>1, HandLowers
<1>3. CASE Evaluate(s) /\ Approved(o)
  <2> DEFINE p == [o EXCEPT !.pc = "judged"]
  <2>1. slot' = [slot EXCEPT ![s] = p] /\ UNCHANGED <<now, broker>> /\ disk'.trades = disk.trades
        /\ o.pc = "sized" /\ o \in Judging
    BY <1>0, <1>3, <1>d DEF Evaluate, Disks, Way
  <2>2. p.pc = "judged" /\ p.size = o.size /\ p.eq = o.eq
    BY <2>1 DEF Judging
  <2>3. FracOf(p) = RiskFrac(o)
    BY <2>2 DEF FracOf, RiskFrac
  <2>4. slot'[s] = p /\ \A t \in Slots \ {s} : slot'[t] = slot[t]
    BY <1>d, <2>1
  <2> HIDE DEF p
  <2>5. Committed' = Committed \cup {s} /\ \A t \in Committed : slot'[t] = slot[t]
    BY <2>1, <2>2, <2>4 DEF Committed, Approving
  <2>6. Known' = Known
    <3>1. Ids' = Ids
      BY <2>1 DEF Ids
    <3>2. \A u \in Slots : /\ slot'[u].pc = "filled" <=> slot[u].pc = "filled"
                           /\ slot[u].pc = "filled" => slot'[u].id = slot[u].id
      BY <2>1, <2>2, <2>4
    <3> QED BY <2>1, <3>1, <3>2 DEF Known
  <2> QED BY <1>3, <2>1, <2>3, <2>4, <2>5, <2>6 DEF Approves
<1>4. CASE Preflight(s)
  <2> DEFINE pc == IF mem.account.expires < now THEN "asking" ELSE "gates"
             p == [o EXCEPT !.started = now, !.pc = pc]
  <2>1. slot' = [slot EXCEPT ![s] = p] /\ UNCHANGED <<now, broker, disk>> /\ o.pc = "judged" /\ o \in Judging
    BY <1>0, <1>4 DEF Preflight, Typed, Way
  <2>2. pc \in Way /\ now \in Nat
    BY DEF Way, Typed
  <2> HIDE DEF pc
  <2>3. p \in Judging /\ p.size = o.size /\ p.eq = o.eq
    <3> DEFINE q == [o EXCEPT !.started = now]
    <3>1. q \in Judging /\ q.size = o.size /\ q.eq = o.eq
      BY <2>1, <2>2 DEF Judging
    <3>2. p = [q EXCEPT !.pc = pc]
      OBVIOUS
    <3> HIDE DEF q, p
    <3>3. p \in Judging /\ p.size = q.size /\ p.eq = q.eq
      BY <2>2, <3>1, <3>2 DEF Judging
    <3> QED BY <3>1, <3>3
  <2> HIDE DEF p
  <2> QED BY <1>b, <2>1, <2>3 DEF Approving
<1>5. CASE AccountAnswers(s) \/ Gates(s) \/ OrderChecked(s) \/ Abandon(s)
  <2>1. PICK pc \in {"gates", "checking", "passed", "idle"} :
          /\ slot' = [slot EXCEPT ![s] = IF pc = "idle" THEN Idle ELSE [o EXCEPT !.pc = pc]]
          /\ UNCHANGED <<now, broker, disk>> /\ o.pc \in {"asking", "gates", "checking"}
    <3>1. CASE AccountAnswers(s)
      BY <3>1 DEF AccountAnswers, Typed
    <3>2. CASE Gates(s) \/ OrderChecked(s)
      BY <3>2 DEF Gates, OrderChecked, Typed
    <3>3. CASE Abandon(s)
      BY <3>3 DEF Abandon, Typed
    <3> QED BY <1>5, <3>1, <3>2, <3>3
  <2>2. CASE pc = "idle"
    BY <1>a, <2>1, <2>2
  <2>3. CASE pc # "idle"
    <3> DEFINE p == [o EXCEPT !.pc = pc]
    <3>1. o \in Judging /\ o.pc \in Approving /\ o.pc # "sending"
      BY <1>0, <2>1 DEF Way, Approving
    <3>2. p \in Judging /\ p.size = o.size /\ p.eq = o.eq
      BY <2>1, <2>3, <3>1 DEF Judging, Way
    <3>3. slot' = [slot EXCEPT ![s] = p]
      BY <2>1, <2>3
    <3> HIDE DEF p
    <3> QED BY <1>b, <2>1, <3>1, <3>2, <3>3
  <2> QED BY <2>2, <2>3
<1>6. CASE Enter(s)
  <2> DEFINE p == [pc |-> "sending", sym |-> o.sym, sends |-> 0, size |-> o.size, frac |-> RiskFrac(o)]
  <2>1. slot' = [slot EXCEPT ![s] = IF OrderStorm(now) THEN Idle ELSE p] /\ o.pc = "passed"
        /\ UNCHANGED <<now, broker, disk>>
    BY <1>6 DEF Enter, Typed
  <2>2. p.pc = "sending" /\ FracOf(p) = FracOf(o)
    BY <2>1 DEF FracOf
  <2> HIDE DEF p
  <2>3. CASE OrderStorm(now)
    BY <1>a, <2>1, <2>3
  <2>4. CASE ~OrderStorm(now)
    <3>1. slot' = [slot EXCEPT ![s] = p]
      BY <2>1, <2>4
    <3> QED BY <2>1, <2>2, <3>1, HandLowers DEF Approving
  <2> QED BY <2>3, <2>4
<1>7. CASE SendFails(s)
  <2>1. o.pc = "sending" /\ o \in Sending /\ UNCHANGED <<now, broker, disk>>
    BY <1>7, SlotsAre DEF SendFails
  <2>2. CASE slot' = [slot EXCEPT ![s] = Idle]
    BY <1>a, <2>1, <2>2
  <2>3. CASE slot' = [slot EXCEPT ![s].sends = @ + 1]
    <3> DEFINE p == [o EXCEPT !.sends = o.sends + 1]
    <3>1. p.pc = "sending" /\ p.frac = o.frac
      BY <2>1 DEF Sending
    <3>2. slot' = [slot EXCEPT ![s] = p]
      BY <2>3 DEF Typed
    <3> HIDE DEF p
    <3> QED BY <2>1, <3>1, <3>2, HandLowers DEF Approving, FracOf
  <2> QED BY <1>7, <2>2, <2>3 DEF SendFails
<1>8. CASE SendFills(s)
  <2>1. PICK n \in Nat, f \in Fills, p \in Filled :
        /\ slot[s] \in Sending /\ slot[s].pc = "sending"
        /\ n \notin Ids /\ Ids' = Ids \cup {n} /\ broker'.fills[n] = f
        /\ \A i \in Ids : broker'.fills[i] = broker.fills[i]
        /\ f.at = now /\ f.frac = slot[s].frac /\ f.state = "open"
        /\ slot' = [slot EXCEPT ![s] = p] /\ p.pc = "filled" /\ p.id = n
    BY <1>8, FillAdded
  <2>2. now' = now /\ disk' = disk
    BY <1>8 DEF SendFills
  <2>3. slot'[s] = p /\ \A t \in Slots \ {s} : slot'[t] = slot[t]
    BY <1>d, <2>1
  <2>4. /\ s \in Committed /\ Committed' = Committed \ {s}
        /\ \A t \in Committed' : slot'[t] = slot[t]
    BY <2>1, <2>3 DEF Committed, Approving
  <2>5. Known' = Known \cup {n}
    <3>1. ASSUME NEW i \in Known PROVE i \in Known'
      BY <2>1, <2>2, <2>3, <3>1 DEF Known
    <3>2. n \in Known'
      BY <2>1, <2>3 DEF Known
    <3>3. ASSUME NEW i \in Known' PROVE i \in Known \cup {n}
      <4>1. i \in Ids' /\ (i \in disk'.trades \/ \E u \in Slots : slot'[u].pc = "filled" /\ slot'[u].id = i)
        BY <3>3 DEF Known
      <4>2. CASE i \in disk'.trades
        BY <2>1, <2>2, <4>1, <4>2 DEF Known
      <4>3. ASSUME NEW u \in Slots, slot'[u].pc = "filled", slot'[u].id = i
            PROVE  i \in Known \cup {n}
        BY <2>1, <2>3, <4>1, <4>3 DEF Known
      <4> QED BY <4>1, <4>2, <4>3
    <3> QED BY <3>1, <3>2, <3>3
  <2>6. FracOf(slot[s]) = f.frac
    BY <2>1 DEF FracOf
  <2> QED BY <2>1, <2>2, <2>4, <2>5, <2>6 DEF FillsNew
<1>9. CASE RecordGlobal(s)
  <2> DEFINE p == [o EXCEPT !.pc = "recorded"]
  <2>1. slot' = [slot EXCEPT ![s] = p] /\ o.pc = "filled" /\ o \in Filled /\ UNCHANGED <<now, broker>>
    BY <1>9, SlotsAre DEF RecordGlobal, Typed
  <2>2. disk'.trades = disk.trades \cup {o.id}
    BY <1>9, <1>d DEF RecordGlobal, Disks
  <2>3. p.pc = "recorded"
    BY <2>1 DEF Filled
  <2> HIDE DEF p
  <2> QED BY <2>1, <2>2, <2>3, HandLowers DEF Approving
<1>10. CASE RecordSymbol(s) \/ ReadCanary(s) \/ CountCanary(s)
  <2>1. UNCHANGED <<now, broker>> /\ disk'.trades = disk.trades
    <3>1. CASE RecordSymbol(s)
      BY <1>d, <3>1 DEF RecordSymbol, Disks
    <3>2. CASE ReadCanary(s) \/ CountCanary(s)
      BY <3>2 DEF ReadCanary, CountCanary
    <3> QED BY <1>10, <3>1, <3>2
  <2>2. PICK p : slot' = [slot EXCEPT ![s] = p] /\ p.pc \in {"canary", "counting", "idle"}
    <3>1. CASE RecordSymbol(s)
      <4> DEFINE p == IF CanaryActive THEN [pc |-> "canary", size |-> o.size] ELSE Idle
      <4>1. slot' = [slot EXCEPT ![s] = p]
        BY <3>1 DEF RecordSymbol
      <4>2. p.pc \in {"canary", "counting", "idle"}
        BY <1>i
      <4> QED BY <4>1, <4>2
    <3>2. CASE ReadCanary(s)
      <4> DEFINE p == [pc |-> "counting", size |-> o.size, seen |-> canaryFills]
      <4>1. slot' = [slot EXCEPT ![s] = p] /\ p.pc = "counting"
        BY <3>2 DEF ReadCanary
      <4> QED BY <4>1
    <3>3. CASE CountCanary(s)
      BY <1>i, <3>3 DEF CountCanary
    <3> QED BY <1>10, <3>1, <3>2, <3>3
  <2> QED BY <2>1, <2>2, HandLowers DEF Approving
<1> HIDE DEF o
<1> QED BY <1>1, <1>2, <1>3, <1>4, <1>5, <1>6, <1>7, <1>8, <1>9, <1>10 DEF Order

CapsInv == OpenCaps /\ HourInv

LEMMA CapsInit ==
  ASSUME RiskInit
  PROVE  CapsInv
<1>1. Ids = {} /\ Committed = {} /\ Typed
  BY DeskInit DEF RiskInit, Ids, Committed, Approving, Idle
<1>2. OpenIds = {} /\ \A t \in Nat : InHour(t) = {}
  BY <1>1 DEF OpenIds, InHour
<1>3. Cardinality({}) = 0 /\ IsFiniteSet({})
  BY FS_EmptySet
<1>4. Cardinality(Slots) > 0
  BY ConfigTyped DEF Positive
<1>5. OpenInv
  BY <1>1, <1>2, <1>3, <1>4, CapsTyped DEF OpenInv
<1>6. HourInv
  BY <1>1, <1>2, <1>3, <1>4, CapsTyped DEF HourInv, HourAt
<1>7. Exposure = 0
  <2>1. PICK g : Adds(g, broker.fills, {}) /\ Sum(broker.fills, {}) = g[{}]
    BY <1>3, SumIs
  <2>2. Sum(broker.fills, {}) = 0
    BY <2>1 DEF Adds
  <2> QED BY <1>1, <1>2, <2>2, ExposureIs
<1>8. MostRisk >= 0
  <2>1. (Cardinality(Slots) - 1) * MaxRiskPerTrade \in Nat
    BY <1>4, CapsTyped, TimesNatural, Cardinality(Slots) - 1 \in Nat
  <2> QED BY <2>1, CapsTyped DEF MostRisk
<1> QED
  BY <1>1, <1>5, <1>6, <1>7, <1>8 DEF CapsInv, OpenCaps, RiskInv

LEMMA CapsNext ==
  ASSUME Typed, Related, Typed', Related', CapsInv, [RiskNext]_vars
  PROVE  CapsInv'
<1>1. ASSUME Lowers PROVE CapsInv'
  BY <1>1, OpenLowers, HourLowers DEF CapsInv
<1>2. ASSUME NEW s \in Slots, Order(s) PROVE CapsInv'
  <2>1. ASSUME Approves(s) PROVE CapsInv'
    BY <2>1, OpenApproves, HourApproves DEF CapsInv
  <2>2. ASSUME NEW n \in Nat, FillsNew(s, n) PROVE CapsInv'
    BY <2>2, OpenFills, HourFills DEF CapsInv
  <2> QED BY <1>1, <1>2, <2>1, <2>2, OrderCaps
<1>3. ASSUME UNCHANGED slot, Ids' = Ids, disk'.trades = disk.trades, now' >= now,
             \A i \in Ids : /\ broker'.fills[i].frac = broker.fills[i].frac
                            /\ broker'.fills[i].at = broker.fills[i].at
                            /\ broker'.fills[i].state = "open" => broker.fills[i].state = "open"
      PROVE  Lowers
  BY <1>3 DEF Lowers, Committed, Known
<1>4. ASSUME NEW i \in Ids, Close(i) \/ RecordLoss(i) \/ RecordStreak(i)
      PROVE  Lowers
  <2>1. UNCHANGED <<slot, now>> /\ disk'.trades = disk.trades /\ now \in Nat
    BY <1>4 DEF Close, RecordLoss, RecordStreak, Keep, Typed, Disks
  <2>2. PICK f \in Fills : /\ broker' = [broker EXCEPT !.fills[i] = f]
                           /\ f.frac = Fill(i).frac /\ f.at = Fill(i).at /\ f.state # "open"
    <3>1. Fill(i) \in Fills /\ now \in Int
      BY FillsAre DEF Typed
    <3>2. CASE Close(i)
      <4>1. PICK result \in bound.results :
              broker' = [broker EXCEPT !.fills[i] =
                           [@ EXCEPT !.state = "closed", !.result = result, !.closed = now]]
        BY <3>2 DEF Close
      <4> DEFINE g == [Fill(i) EXCEPT !.state = "closed"]
                 h == [g EXCEPT !.result = result]
                 f == [h EXCEPT !.closed = now]
      <4>2. result \in {"win", "loss", "stop"}
        BY DEF Typed, Courses
      <4>3. g \in Fills /\ g.at = Fill(i).at /\ g.frac = Fill(i).frac /\ g.state = "closed"
        BY <3>1 DEF Fills
      <4>4. broker' = [broker EXCEPT !.fills[i] = f]
        BY <4>1 DEF Fill, Ids
      <4> HIDE DEF g
      <4>5. h \in Fills /\ h.at = g.at /\ h.frac = g.frac /\ h.state = g.state
        BY <4>2, <4>3 DEF Fills
      <4> HIDE DEF h
      <4>6. f \in Fills /\ f.at = h.at /\ f.frac = h.frac /\ f.state = h.state
        BY <3>1, <4>5 DEF Fills
      <4> HIDE DEF f
      <4> QED BY <4>3, <4>4, <4>5, <4>6
    <3>3. ASSUME NEW state \in {"half", "over"}, broker' = [broker EXCEPT !.fills[i].state = state]
          PROVE  \E f \in Fills : /\ broker' = [broker EXCEPT !.fills[i] = f]
                                  /\ f.frac = Fill(i).frac /\ f.at = Fill(i).at /\ f.state # "open"
      <4> DEFINE f == [Fill(i) EXCEPT !.state = state]
      <4>1. f \in Fills /\ f.at = Fill(i).at /\ f.frac = Fill(i).frac /\ f.state = state
        BY <3>1 DEF Fills
      <4>2. broker' = [broker EXCEPT !.fills[i] = f]
        BY <3>3 DEF Fill, Ids
      <4> HIDE DEF f
      <4> QED BY <4>1, <4>2
    <3> QED BY <1>4, <3>2, <3>3 DEF RecordLoss, RecordStreak
  <2>3. /\ Ids' = Ids /\ broker'.fills[i] = f
        /\ \A j \in Ids \ {i} : broker'.fills[j] = broker.fills[j]
    BY <2>2, FillChanged
  <2> QED BY <1>3, <2>1, <2>2, <2>3 DEF Fill
<1>5. CASE Roll
  <2>1. disk' \in Rolled /\ UNCHANGED <<now, broker, slot>> /\ now \in Nat
    BY <1>5 DEF Roll, Rolled, Keep, Typed
  <2>2. disk'.trades = disk.trades
    BY <2>1, RollTyped
  <2> QED BY <1>1, <1>3, <2>1, <2>2 DEF Ids
<1>6. CASE Restart
  <2>1. /\ disk' \in Rolled \cup {disk} /\ UNCHANGED <<now, broker>> /\ now \in Nat
        /\ slot' = [s \in Slots |-> Idle]
    BY <1>6 DEF Restart, Typed
  <2>2. disk'.trades = disk.trades
    BY <2>1, RollTyped
  <2>3. Committed' = {} /\ \A s \in Slots : slot'[s].pc # "filled"
    BY <2>1 DEF Committed, Approving, Idle
  <2>4. Ids' = Ids
    BY <2>1 DEF Ids
  <2>5. Known' \subseteq Known
    BY <2>2, <2>3, <2>4 DEF Known
  <2> QED BY <1>1, <2>1, <2>3, <2>4, <2>5 DEF Lowers
<1>7. CASE World
  <2>1. UNCHANGED <<disk, slot>> /\ now' >= now /\ broker'.fills = broker.fills
    <3>1. CASE Tick
      BY <1>7, <3>1 DEF World, Tick, Typed
    <3>2. CASE Market
      BY <1>7, <3>2 DEF World, Market, Typed
    <3> QED BY <1>7, <3>1, <3>2 DEF World
  <2> QED BY <1>1, <1>3, <2>1 DEF Ids
<1>8. CASE UNCHANGED riskVars \/ UNCHANGED vars
  BY <1>1, <1>3, <1>8 DEF riskVars, vars, Ids, Typed
<1> QED BY <1>1, <1>2, <1>4, <1>5, <1>6, <1>7, <1>8 DEF RiskNext, Step

\* However many threads size and send at once, the open positions, the risk in
\* them and the fills of an hour exceed their caps by no more than there are other
\* threads: a cap is checked against what is open or on disk when an order is
\* judged, and every order approved since is still in a thread's hands
\* (commander.py: evaluate; guards.py: check_position_caps, check_open_risk,
\* TradeRateGuard).
THEOREM CapsOvershoot == RiskSpec => []CapsOvershootBySlots
<1> DEFINE Inv == ArmingTypeOK /\ Typed /\ Related /\ CapsInv
<1>1. RiskInit => Inv
  BY DeskInit, CapsInit
<1>2. Inv /\ [RiskNext]_vars => Inv'
  BY DeskNext, CapsNext
<1>3. Inv => CapsOvershootBySlots
  <2> SUFFICES ASSUME Typed, Related, CapsInv PROVE CapsOvershootBySlots
    OBVIOUS
  <2>1. Cardinality(OpenIds) < Risk.maxPositions + Cardinality(Slots)
    BY Finite, CapsTyped DEF CapsInv, OpenCaps, OpenInv
  <2>2. Exposure <= MostRisk
    <3>1. CASE Committed = {}
      BY <3>1 DEF CapsInv, OpenCaps, RiskInv
    <3>2. CASE Committed # {}
      <4>1. PICK s \in Committed :
              Exposure + FracOf(slot[s]) + (Cardinality(Committed) - 1) * MaxRiskPerTrade <= MostRisk
        BY <3>2 DEF CapsInv, OpenCaps, RiskInv
      <4>2. FracOf(slot[s]) \in Nat
        BY FracBounded, CapsTyped
      <4>3. Cardinality(Committed) # 0 /\ Cardinality(Committed) \in Nat
        BY <3>2, Finite, FS_EmptySet
      <4>4. (Cardinality(Committed) - 1) * MaxRiskPerTrade \in Nat
        BY <4>3, CapsTyped, TimesNatural, Cardinality(Committed) - 1 \in Nat
      <4> QED BY <4>1, <4>2, <4>4, ExposureIs, CapsTyped
    <3> QED BY <3>1, <3>2
  <2>3. ASSUME NEW t \in 0..now
        PROVE  Cardinality(InHour(t)) < Risk.hourCap + Cardinality(Slots)
    <3>1. HourAt(t) /\ Cardinality(Committed) \in Nat
      BY Finite DEF CapsInv, HourInv, Typed
    <3>2. IsFiniteSet(InHour(t))
      BY Finite, FS_Subset DEF InHour
    <3>3. Cardinality(InHour(t)) \in Nat
      BY <3>2, FS_CardinalityType
    <3> QED BY <3>1, <3>3, CapsTyped DEF HourAt
  <2> QED BY <2>1, <2>2, <2>3 DEF CapsOvershootBySlots, Exposure, MostRisk, InHour
<1> QED
  BY <1>1, <1>2, <1>3, PTL DEF RiskSpec


-----------------------------------------------------------------------------
(* The vetoes *)

\* What a halt is measured against, and from when it stands.
Anchor(d, g)  == IF g = "HARD_DRAWDOWN" THEN d.peak
                 ELSE IF g = "WEEKLY_LOSS_HALT" THEN d.weekAnchor ELSE d.dayAnchor
HaltAt(g)     == IF g = "HARD_DRAWDOWN" THEN Risk.hardHalt
                 ELSE IF g = "WEEKLY_LOSS_HALT" THEN Risk.weeklyHalt ELSE Risk.dailyHalt

LEMMA HaltIs ==
  ASSUME NEW g \in Halts, NEW e
  PROVE  check_halts(g, e) <=> LossFrac(Anchor(disk, g), e) >= HaltAt(g)
BY DEF Halts, check_halts, Anchor, HaltAt

LEMMA HaltNext ==
  \A g \in Halts : \A e : (check_halts(g, e) <=> LossFrac(Anchor(disk, g), e) >= HaltAt(g))'
BY DEF Halts, check_halts, Anchor, HaltAt

LEMMA VetoTyped ==
  ASSUME Typed
  PROVE  /\ now \in Nat /\ \A v \in Vetoes : since[v] \in Int
         /\ mem.account.expires \in Int
         /\ \A s \in Slots : slot[s].pc \in Way => /\ slot[s].asOf \in Nat /\ slot[s].started \in Nat
                                                  /\ slot[s].sym \in Symbols
<1>1. \A o \in Judging : o.asOf \in Nat /\ o.started \in Nat /\ o.sym \in Symbols
  BY DEF Judging
<1>2. now \in Nat /\ (\A v \in Vetoes : since[v] \in Int) /\ mem.account.expires \in Int
  BY DEF Typed, Mems
<1> QED
  BY <1>1, <1>2, SlotsAre

LEMMA VetoTypedNext ==
  (Typed => /\ now \in Nat /\ \A v \in Vetoes : since[v] \in Int
            /\ mem.account.expires \in Int
            /\ \A s \in Slots : slot[s].pc \in Way => slot[s].asOf \in Nat /\ slot[s].started \in Nat)'
<1>1. Typed => /\ now \in Nat /\ \A v \in Vetoes : since[v] \in Int
               /\ mem.account.expires \in Int
               /\ \A s \in Slots : slot[s].pc \in Way => slot[s].asOf \in Nat /\ slot[s].started \in Nat
  BY VetoTyped
<1> QED BY <1>1, PTL

\* A veto that is remembered after a step stands then; it began with it or before.
LEMMA SinceIs ==
  ASSUME Watch, NEW v \in Vetoes, since'[v] # Never
  PROVE  /\ Stands(v)'
         /\ since'[v] = now' \/ (since[v] # Never /\ since'[v] = since[v])
<1>1. since'[v] = IF v[1] \notin bound.watch \/ ~Stands(v)' THEN Never
                  ELSE IF since[v] = Never THEN now' ELSE since[v]
  BY DEF Watch
<1> QED BY <1>1

\* What rejects an order at some time rejects one of an earlier time.
LEMMA Antitone ==
  ASSUME Typed, Related, NEW g \in Guards \ Halts, NEW y \in Symbols, NEW e, NEW eq,
         NEW t \in Nat, t <= now, Rejects(g, y, now, e)
  PROVE  Rejects(g, y, t, eq)
<1>0. /\ now \in Nat /\ disk \in Disks /\ IsFiniteSet(Ids) /\ IsFiniteSet(mem.sends) /\ mem \in Mems
      /\ disk.trades \subseteq Ids /\ disk.symTrades \subseteq Ids /\ disk.losses \subseteq Ids
      /\ \A i \in Ids : Fill(i) \in Fills
  BY Finite DEF Typed, Related
<1>1. /\ Risk.antiChurn \in Nat /\ Risk.lossWindow \in Nat /\ Risk.hour \in Nat
      /\ Risk.rateDay \in Nat /\ Risk.minute \in Nat
  <2>1. \A n \in Positive : n \in Nat
    BY DEF Positive
  <2> QED BY <2>1, ConfigTyped
<1>2. \A g0, e0 : check_halts(g0, e0) => g0 \in Halts
  BY DEF check_halts, Halts
<1>3. ASSUME NEW S, NEW T, IsFiniteSet(S), T \subseteq S
      PROVE  Cardinality(T) \in Nat /\ Cardinality(S) \in Nat /\ Cardinality(T) <= Cardinality(S)
  BY <1>3, FS_Subset, FS_CardinalityType
<1>4. ASSUME NEW ids, ids \subseteq Ids, NEW w \in Nat
      PROVE  /\ Within(ids, now, w) \in Nat /\ Within(ids, t, w) \in Nat
             /\ Within(ids, now, w) <= Within(ids, t, w)
  <2> DEFINE early == {i \in ids : Fill(i).at >= t - w}
             late == {i \in ids : Fill(i).at >= now - w}
  <2>1. \A i \in ids : Fill(i).at \in Nat
    BY <1>0, <1>4 DEF Fills
  <2>2. late \subseteq early
    BY <1>0, <2>1
  <2>3. IsFiniteSet(early)
    BY <1>0, <1>4, FS_Subset
  <2> HIDE DEF early, late
  <2>4. Cardinality(late) \in Nat /\ Cardinality(early) \in Nat /\ Cardinality(late) <= Cardinality(early)
    BY <1>3, <2>2, <2>3
  <2> QED BY <2>4 DEF Within, early, late
<1>5. ASSUME g = "HOURLY_CAP", TradeRate(y, now)
      PROVE  TradeRate(y, t)
  <2>1. OfSymbol(disk.symTrades, y) \subseteq Ids
    BY <1>0 DEF OfSymbol
  <2>2. /\ Risk.hourCap \in Nat /\ Risk.symbolHourCap \in Nat /\ Risk.dayCap \in Nat
    <3>1. \A n \in Positive : n \in Nat
      BY DEF Positive
    <3>2. Risk \in Limits
      BY RiskDeskConfig
    <3>3. Risk.hourCap \in Positive /\ Risk.symbolHourCap \in Positive /\ Risk.dayCap \in Positive
      BY <3>2 DEF Limits
    <3> QED BY <3>1, <3>3
  <2>3. /\ Within(disk.trades, now, Risk.hour) \in Nat /\ Within(disk.trades, t, Risk.hour) \in Nat
        /\ Within(disk.trades, now, Risk.hour) <= Within(disk.trades, t, Risk.hour)
    BY <1>0, <1>1, <1>4
  <2>4. /\ Within(disk.trades, now, Risk.rateDay) \in Nat /\ Within(disk.trades, t, Risk.rateDay) \in Nat
        /\ Within(disk.trades, now, Risk.rateDay) <= Within(disk.trades, t, Risk.rateDay)
    BY <1>0, <1>1, <1>4
  <2> DEFINE own == OfSymbol(disk.symTrades, y)
  <2>5. /\ Within(own, now, Risk.hour) \in Nat /\ Within(own, t, Risk.hour) \in Nat
        /\ Within(own, now, Risk.hour) <= Within(own, t, Risk.hour)
    BY <1>1, <1>4, <2>1
  <2> QED BY <1>5, <2>2, <2>3, <2>4, <2>5 DEF TradeRate
<1>6. ASSUME LossVelocity(now)
      PROVE  LossVelocity(t)
  <2>1. disk.pauseUntil \in Int /\ Risk.lossLimit \in Nat
    <3>1. Risk \in Limits
      BY RiskDeskConfig
    <3> QED BY <1>0, <3>1 DEF Disks, Limits, Positive
  <2> DEFINE early == {i \in disk.losses : Fill(i).closed >= t - Risk.lossWindow}
             late == {i \in disk.losses : Fill(i).closed >= now - Risk.lossWindow}
  <2>2. \A i \in disk.losses : Fill(i).closed \in Int
    BY <1>0 DEF Fills
  <2>3. late \subseteq early
    BY <1>0, <1>1, <2>2
  <2>4. IsFiniteSet(early)
    BY <1>0, FS_Subset
  <2> HIDE DEF early, late
  <2>5. Cardinality(late) \in Nat /\ Cardinality(early) \in Nat /\ Cardinality(late) <= Cardinality(early)
    BY <1>3, <2>3, <2>4
  <2>6. Lost(t) = Cardinality(early) /\ Lost(now) = Cardinality(late)
    BY DEF Lost, early, late
  <2> QED BY <1>0, <1>6, <2>1, <2>5, <2>6 DEF LossVelocity
<1>7. ASSUME MicroCooldown(y, now) PROVE MicroCooldown(y, t)
  <2>1. disk.coolUntil[y] \in Int
    BY <1>0 DEF Disks
  <2> QED BY <1>0, <1>7, <2>1 DEF MicroCooldown
<1>8. ASSUME AntiChurn(y, now) PROVE AntiChurn(y, t)
  <2>1. disk.stopout[y] \in Int
    BY <1>0 DEF Disks
  <2> QED BY <1>0, <1>1, <1>8, <2>1 DEF AntiChurn
<1>9. ASSUME OrderStorm(now) PROVE OrderStorm(t)
  <2> DEFINE early == Recent(mem.sends, t)
             late == Recent(mem.sends, now)
  <2>1. \A x \in mem.sends : x.at \in Nat
    BY <1>0 DEF Mems
  <2>2. late \subseteq early
    BY <1>0, <1>1, <2>1 DEF Recent
  <2>3. IsFiniteSet(early)
    BY <1>0, FS_Subset DEF Recent
  <2> HIDE DEF early, late
  <2>4. Cardinality(late) \in Nat /\ Cardinality(early) \in Nat /\ Cardinality(late) <= Cardinality(early)
    BY <1>3, <2>2, <2>3
  <2>5. Risk.fuseCap \in Nat
    BY ConfigTyped DEF Positive
  <2> QED BY <1>9, <2>4, <2>5 DEF OrderStorm, RecentSends, early, late
<1> QED
  BY <1>2, <1>5, <1>6, <1>7, <1>8, <1>9 DEF Rejects

\* Losses of nothing are none: an anchor that moves moves to the equity, and ends
\* the halt.
LEMMA NoLoss ==
  ASSUME NEW e \in Nat, NEW g \in Halts
  PROVE  ~(LossFrac(e, e) >= HaltAt(g))
<1>1. LossFrac(e, e) = 0
  BY DEF LossFrac
<1>2. /\ Risk.dailyHalt \in Positive /\ Risk.weeklyHalt \in Positive
      /\ Risk.hardHalt \in Positive
  BY ConfigTyped
<1>3. HaltAt(g) \in Nat /\ HaltAt(g) > 0
  <2>1. HaltAt(g) \in {Risk.dailyHalt, Risk.weeklyHalt, Risk.hardHalt}
    BY DEF HaltAt
  <2>2. /\ Risk.dailyHalt \in Nat /\ Risk.weeklyHalt \in Nat /\ Risk.hardHalt \in Nat
        /\ Risk.dailyHalt > 0 /\ Risk.weeklyHalt > 0 /\ Risk.hardHalt > 0
    BY <1>2 DEF Positive
  <2> QED BY <2>1, <2>2
<1> QED BY <1>1, <1>3


\* A veto that begins finds every order of its time or before.
LEMMA BitesNew ==
  ASSUME Typed', Related', NEW s \in Slots, NEW v \in Vetoes, slot'[s].pc \in Way, since'[v] = now'
  PROVE  Bites(s, v)'
<1>1. /\ now' \in Nat /\ slot'[s].asOf \in Nat /\ slot'[s].started \in Nat
      /\ slot'[s].asOf <= now' /\ slot'[s].started <= now'
  BY VetoTypedNext DEF Related
<1>2. Risk.accountTtl \in Nat
  BY ConfigTyped
<1> QED BY <1>1, <1>2 DEF Bites

\* One that lasts keeps biting an order that waits.
LEMMA BitesKept ==
  ASSUME NEW s \in Slots, NEW v \in Vetoes, Bites(s, v), since'[v] = since[v], slot'[s] = slot[s],
         v[1] \in Halts => Anchor(disk', v[1]) = Anchor(disk, v[1]),
         v[1] = "TRADE_NOT_ALLOWED" => (mem'.account.ok => mem.account.ok)
  PROVE  Bites(s, v)'
<1>1. v[1] \in Halts => (check_halts(v[1], slot[s].eq)' <=> check_halts(v[1], slot[s].eq))
  BY HaltIs, HaltNext
<1> QED BY <1>1 DEF Bites

\* The anchor of a halt that lasts stays: had it moved, it would be the equity.
LEMMA AnchorKept ==
  ASSUME Typed, [RiskNext]_vars, NEW g \in Halts, check_halts(g, equity)'
  PROVE  Anchor(disk', g) = Anchor(disk, g)
<1>1. equity \in Nat
  BY DEF Typed, Positive
<1>2. equity' = equity => Anchor(disk', g) # equity
  BY <1>1, HaltNext, NoLoss
<1>3. ASSUME NEW d \in Rolled \cup {disk}
      PROVE  Anchor(d, g) \in {Anchor(disk, g), equity}
  <2> DEFINE Kept(e) == Anchor(e, g) \in {Anchor(disk, g), equity} /\ e \in Disks
  <2>0. equity \in Int /\ now \div Risk.day \in Int /\ now \div Risk.week \in Int /\ disk \in Disks
    <3>1. now \in Nat /\ disk \in Disks
      BY DEF Typed
    <3>2. now \div Risk.day \in Int /\ now \div Risk.week \in Int
      BY <3>1, ConfigTyped DEF Positive
    <3> QED BY <1>1, <3>1, <3>2
  <2>1. ASSUME NEW e, Kept(e)
        PROVE  Kept(RollDay(e)) /\ Kept(RollWeek(e)) /\ Kept(RollPeak(e))
    BY <2>0, <2>1 DEF RollDay, RollWeek, RollPeak, Disks, Anchor
  <2>2. Kept(disk)
    BY <2>0
  <2> HIDE DEF Kept
  <2>3. \A e \in Rolled \cup {disk} : Kept(e)
    BY <2>1, <2>2 DEF Rolled
  <2> QED BY <2>3 DEF Kept
<1>4. CASE Roll \/ Restart
  <2>1. disk' \in Rolled \cup {disk} /\ equity' = equity
    BY <1>4 DEF Roll, Restart, Rolled, Keep
  <2> QED BY <1>2, <1>3, <2>1
<1>5. CASE UNCHANGED <<disk>>
  BY <1>5
<1>6. ASSUME NEW s \in Slots, Order(s)
      PROVE  Anchor(disk', g) = Anchor(disk, g)
  <2>0. disk \in Disks
    BY DEF Typed
  <2>1. CASE Evaluate(s)
    BY <2>0, <2>1 DEF Evaluate, Anchor, Disks
  <2>2. CASE RecordGlobal(s)
    BY <2>0, <2>2 DEF RecordGlobal, Anchor, Disks
  <2>3. CASE RecordSymbol(s)
    BY <2>0, <2>3 DEF RecordSymbol, Anchor, Disks
  <2>4. CASE ~Evaluate(s) /\ ~RecordGlobal(s) /\ ~RecordSymbol(s)
    <3>1. disk' = disk
      BY <1>6, <2>4 DEF Order, Size, Preflight, AccountAnswers, Gates, OrderChecked, Abandon, Enter,
                        SendFails, SendFills, ReadCanary, CountCanary
    <3> QED BY <3>1
  <2> QED BY <2>1, <2>2, <2>3, <2>4
<1>7. ASSUME NEW i \in Ids, Close(i) \/ RecordLoss(i) \/ RecordStreak(i)
      PROVE  Anchor(disk', g) = Anchor(disk, g)
  <2>0. disk \in Disks
    BY DEF Typed
  <2>1. CASE Close(i)
    BY <2>1 DEF Close
  <2>2. CASE RecordLoss(i)
    BY <2>0, <2>2 DEF RecordLoss, Anchor, Disks
  <2>3. CASE RecordStreak(i)
    BY <2>0, <2>3 DEF RecordStreak, Anchor, Disks
  <2> QED BY <1>7, <2>1, <2>2, <2>3
<1> QED
  BY <1>4, <1>5, <1>6, <1>7 DEF RiskNext, Step, World, riskVars, vars

\* While the broker refuses to trade no cached account says that it may but the
\* one that did before.
LEMMA AccountKept ==
  ASSUME Typed, [RiskNext]_vars, mem'.account.ok, ~broker'.perm
  PROVE  mem'.account = mem.account
<1>0. mem \in Mems
  BY DEF Typed
<1>1. ASSUME NEW s \in Slots, Order(s)
      PROVE  mem'.account = mem.account
  <2>1. CASE AccountAnswers(s)
    BY <1>0, <2>1 DEF AccountAnswers, Mems
  <2>2. CASE Evaluate(s) \/ Enter(s)
    BY <1>0, <2>2 DEF Evaluate, Enter, Mems
  <2>3. CASE SendFails(s)
    BY <2>3, CountedTyped DEF SendFails
  <2>4. CASE SendFills(s)
    <3>1. PICK points \in bound.slips : mem' = Slipped(Counted, slot[s].sym, points)
      BY <2>4 DEF SendFills
    <3>2. points \in Nat /\ slot[s].sym \in Symbols
      BY <2>4, <3>1, SlotsAre DEF SendFills, Typed, Courses, Sending
    <3> QED BY <3>1, <3>2, CountedTyped, SlippedTyped
  <2>5. CASE ~(AccountAnswers(s) \/ Evaluate(s) \/ Enter(s) \/ SendFails(s) \/ SendFills(s))
    BY <1>1, <2>5 DEF Order, Size, Preflight, Gates, OrderChecked, Abandon, RecordGlobal, RecordSymbol,
                      ReadCanary, CountCanary
  <2> QED BY <2>1, <2>2, <2>3, <2>4, <2>5
<1>2. ASSUME NEW i \in Ids, Close(i) \/ RecordLoss(i) \/ RecordStreak(i)
      PROVE  mem'.account = mem.account
  BY <1>2 DEF Close, RecordLoss, RecordStreak
<1>3. CASE Restart
  BY <1>3 DEF Restart, Fresh
<1>4. CASE Roll \/ World \/ UNCHANGED riskVars \/ UNCHANGED vars
  BY <1>4 DEF Roll, World, riskVars, vars
<1> QED BY <1>1, <1>2, <1>3, <1>4 DEF RiskNext, Step

\* How an order comes to be on its way after a step.
LEMMA WayStep ==
  ASSUME Typed, [RiskNext]_vars, NEW s \in Slots, slot'[s].pc \in Way
  PROVE  \/ slot'[s] = slot[s]
         \/ \E y \in bound.symbols, r \in Quotes : Size(s, y, r)
         \/ Evaluate(s) /\ Approved(slot[s])
         \/ Preflight(s) \/ AccountAnswers(s) \/ Gates(s) \/ OrderChecked(s)
<1>0. DOMAIN slot = Slots /\ Idle.pc \notin Way
  BY DEF Typed, Idle, Way
<1>1. ASSUME NEW u \in Slots, Order(u), u # s
      PROVE  slot'[s] = slot[s]
  BY <1>0, <1>1 DEF Order, Size, Evaluate, Preflight, AccountAnswers, Gates, OrderChecked, Abandon, Enter,
                    SendFails, SendFills, RecordGlobal, RecordSymbol, ReadCanary, CountCanary
<1>2. ~(Evaluate(s) /\ ~Approved(slot[s])) /\ ~Abandon(s) /\ ~CountCanary(s)
  BY <1>0 DEF Evaluate, Abandon, CountCanary
<1>3. ~Enter(s) /\ ~RecordSymbol(s) /\ ~ReadCanary(s)
  BY <1>0 DEF Enter, RecordSymbol, ReadCanary, Way
<1>4. ~SendFills(s)
  BY <1>0 DEF SendFills, Way
<1>5. ~SendFails(s) /\ ~RecordGlobal(s)
  <2>1. slot[s].pc \in {"sending", "filled"} => "pc" \in DOMAIN slot[s]
    BY SlotsAre DEF Sending, Filled
  <2>2. ~SendFails(s)
    BY <1>0, <2>1 DEF SendFails, Way
  <2>3. ~RecordGlobal(s)
    BY <1>0, <2>1 DEF RecordGlobal, Way
  <2> QED BY <2>2, <2>3
<1>6. ~Restart
  BY <1>0 DEF Restart
<1>7. CASE \E u \in Slots : Order(u)
  BY <1>1, <1>2, <1>3, <1>4, <1>5, <1>7 DEF Order
<1>8. ASSUME NEW i \in Ids, Close(i) \/ RecordLoss(i) \/ RecordStreak(i)
      PROVE  slot'[s] = slot[s]
  BY <1>8 DEF Close, RecordLoss, RecordStreak
<1>9. CASE Roll \/ World \/ UNCHANGED riskVars \/ UNCHANGED vars
  BY <1>9 DEF Roll, World, riskVars, vars
<1> QED BY <1>6, <1>7, <1>8, <1>9 DEF RiskNext, Step

LEMMA VetoBites ==
  ASSUME Typed, Related, Typed', Related', VetoInv, [RiskNext]_vars, Watch,
         NEW s \in Slots, NEW v \in Vetoes,
         since'[v] # Never, slot'[s].pc \in Way, v[2] = slot'[s].sym
  PROVE  Bites(s, v)'
<1> DEFINE o == slot[s]
           p == slot'[s]
<1>1. /\ Stands(v)'
      /\ since'[v] = now' \/ (since[v] # Never /\ since'[v] = since[v])
  BY SinceIs
<1>2. CASE since'[v] = now'
  BY <1>2, BitesNew
<1> SUFFICES ASSUME since[v] # Never, since'[v] = since[v] PROVE Bites(s, v)'
  BY <1>1, <1>2
<1>3. Stands(v) /\ since[v] \in 0..now
  BY DEF VetoInv
<1>4. v[1] \in Halts => check_halts(v[1], equity)' /\ Anchor(disk', v[1]) = Anchor(disk, v[1])
  <2>1. v[1] \in Halts => check_halts(v[1], equity)'
    BY <1>1 DEF Stands, Rejects, Halts
  <2> QED BY <2>1, AnchorKept
<1>5. v[1] = "TRADE_NOT_ALLOWED" => ~broker'.perm /\ ~broker.perm
  BY <1>1, <1>3 DEF Stands
<1>6. v[1] = "TRADE_NOT_ALLOWED" => (mem'.account.ok => mem'.account = mem.account)
  BY <1>5, AccountKept
<1>d. DOMAIN slot = Slots
  BY DEF Typed
<1>t. /\ now \in Nat /\ since[v] \in Int /\ mem.account.expires \in Int
      /\ Risk.accountTtl \in Nat /\ Risk.verdictAge \in Nat
  BY VetoTyped, ConfigTyped
<1>7. CASE slot'[s] = slot[s]
  <2>1. Bites(s, v)
    BY <1>7 DEF VetoInv
  <2> QED BY <1>4, <1>6, <1>7, <2>1, BitesKept
<1>8. CASE \E y \in bound.symbols, r \in Quotes : Size(s, y, r)
  <2>1. p.pc = "sized" /\ p.eq = equity /\ disk' = disk /\ equity' = equity
    BY <1>8, <1>d DEF Size, Keep
  <2>2. v[1] \in Halts => check_halts(v[1], slot[s].eq)'
    BY <1>4, <2>1, HaltNext
  <2> QED BY <2>1, <2>2 DEF Bites
<1>9. CASE o.pc \in Way /\ v[2] = o.sym
  <2>0. Bites(s, v) /\ o \in Judging /\ o.asOf \in Nat /\ o.asOf <= now /\ o.started \in Nat /\ o.started <= now
    BY <1>9, SlotsAre, VetoTyped DEF VetoInv, Related
  <2>1. CASE Evaluate(s) /\ Approved(o)
    <3>1. o.pc = "sized" /\ p.pc = "judged" /\ p.asOf = o.asOf
      BY <1>d, <2>0, <2>1 DEF Evaluate, Judging
    <3>2. CASE v[1] = "TRADE_NOT_ALLOWED"
      BY <3>1, <3>2 DEF Bites
    <3>3. CASE v[1] # "TRADE_NOT_ALLOWED" /\ v[1] \in Halts
      <4>1. ~check_halts(v[1], o.eq)
        BY <2>1, <3>3 DEF Approved, Rejects, Guards, Halts
      <4> QED BY <2>0, <3>1, <3>3, <4>1 DEF Bites
    <3>4. CASE v[1] # "TRADE_NOT_ALLOWED" /\ v[1] \notin Halts
      <4>1. v[1] \in Guards \ Halts /\ v[2] \in Symbols
        BY <3>4 DEF Vetoes
      <4>2. Rejects(v[1], v[2], now, equity)
        BY <1>3, <3>4 DEF Stands
      <4>3. Rejects(v[1], o.sym, o.asOf, o.eq)
        BY <1>9, <2>0, <4>1, <4>2, Antitone
      <4> QED BY <2>1, <4>1, <4>3 DEF Approved
    <3> QED BY <3>2, <3>3, <3>4
  <2>2. CASE Preflight(s)
    <3>1. o.pc = "judged" /\ p.asOf = o.asOf /\ p.started = now /\ mem' = mem
          /\ p.pc = IF mem.account.expires < now THEN "asking" ELSE "gates"
      BY <1>d, <2>0, <2>2 DEF Preflight, Judging
    <3>2. CASE v[1] = "TRADE_NOT_ALLOWED"
      <4>1. mem.account.ok => mem.account.expires - Risk.accountTtl <= since[v]
        BY <3>2 DEF VetoInv
      <4> QED BY <1>t, <3>1, <3>2, <4>1 DEF Bites
    <3>3. CASE v[1] # "TRADE_NOT_ALLOWED"
      BY <2>0, <3>1, <3>3 DEF Bites
    <3> QED BY <3>2, <3>3
  <2>3. CASE AccountAnswers(s)
    <3>1. o.pc = "asking" /\ p.asOf = o.asOf /\ p.pc = "gates" /\ mem'.account.ok = broker.perm
      BY <1>d, <2>0, <2>3 DEF AccountAnswers, Judging, Typed, Mems
    <3> QED BY <1>5, <2>0, <3>1 DEF Bites
  <2>4. CASE Gates(s)
    <3>1. o.pc = "gates" /\ MayCheck(o)
      BY <1>d, <2>4 DEF Gates, Idle, Way
    <3>2. p.pc = "checking" /\ p.asOf = o.asOf /\ p.started = o.started
      BY <1>d, <2>0, <2>4, <3>1 DEF Gates, Judging
    <3> QED BY <2>0, <3>1, <3>2 DEF Bites, MayCheck
  <2>5. CASE OrderChecked(s)
    <3>1. o.pc = "checking" /\ p.pc = "passed" /\ p.asOf = o.asOf /\ p.started = o.started
      BY <1>d, <2>0, <2>5 DEF OrderChecked, Judging
    <3> QED BY <2>0, <3>1 DEF Bites
  <2> QED BY <1>7, <1>8, <2>1, <2>2, <2>3, <2>4, <2>5, WayStep
<1>10. ASSUME ~(slot'[s] = slot[s]), ~(\E y \in bound.symbols, r \in Quotes : Size(s, y, r))
       PROVE  o.pc \in Way /\ v[2] = o.sym
  <2>1. /\ o.pc \in Way
        /\ \/ Evaluate(s) /\ Approved(o)
           \/ Preflight(s) \/ AccountAnswers(s) \/ Gates(s) \/ OrderChecked(s)
    BY <1>10, WayStep DEF Evaluate, Preflight, AccountAnswers, Gates, OrderChecked, Way
  <2>2. o \in Judging
    BY <2>1, SlotsAre
  <2>3. CASE Evaluate(s) /\ Approved(o)
    BY <1>d, <2>1, <2>2, <2>3 DEF Evaluate, Judging
  <2>4. CASE Preflight(s)
    BY <1>d, <2>1, <2>2, <2>4 DEF Preflight, Judging
  <2>5. CASE AccountAnswers(s) \/ OrderChecked(s)
    BY <1>d, <2>1, <2>2, <2>5 DEF AccountAnswers, OrderChecked, Judging
  <2>6. CASE Gates(s)
    BY <1>d, <2>1, <2>2, <2>6 DEF Gates, Judging, Idle, Way
  <2> QED BY <2>1, <2>3, <2>4, <2>5, <2>6
<1> QED BY <1>7, <1>8, <1>9, <1>10

LEMMA VetoInit == ASSUME RiskInit PROVE VetoInv
<1>1. \A s \in Slots : slot[s].pc = "idle"
  BY DEF RiskInit, Idle
<1>2. mem.account = [ok |-> FALSE, expires |-> Never] /\ now = 0 /\ \A v \in Vetoes : since[v] = Never
  BY DEF RiskInit, Fresh
<1>3. Risk.accountTtl \in Nat
  BY ConfigTyped
<1> QED BY <1>1, <1>2, <1>3 DEF VetoInv, Way, Never

\* A check that has begun was within the age of the verdict.
LEMMA AgeNext ==
  ASSUME Typed, VetoInv, [RiskNext]_vars, NEW s \in Slots, slot'[s].pc \in {"checking", "passed"}
  PROVE  slot'[s].started - slot'[s].asOf <= Risk.verdictAge
<1> DEFINE o == slot[s]
<1>d. DOMAIN slot = Slots
  BY DEF Typed
<1>1. CASE slot'[s] = slot[s]
  BY <1>1 DEF VetoInv
<1>2. o.pc \in Way => "pc" \in DOMAIN o
  BY SlotsAre DEF Judging
<1>3. ~(\E y \in bound.symbols, r \in Quotes : Size(s, y, r))
  <2> SUFFICES ASSUME NEW y \in bound.symbols, NEW r \in Quotes, Size(s, y, r) PROVE FALSE
    OBVIOUS
  <2>1. slot'[s].pc = "sized"
    BY <1>d DEF Size
  <2> QED BY <2>1
<1>4. ~(Evaluate(s) /\ Approved(o)) /\ ~Preflight(s) /\ ~AccountAnswers(s)
  <2>1. ~(Evaluate(s) /\ Approved(o))
    BY <1>d, <1>2 DEF Evaluate, Way
  <2>2. ~Preflight(s)
    BY <1>d, <1>2 DEF Preflight, Way
  <2>3. ~AccountAnswers(s)
    BY <1>d, <1>2 DEF AccountAnswers, Way
  <2> QED BY <2>1, <2>2, <2>3
<1>5. CASE Gates(s)
  <2>1. o.pc = "gates" /\ MayCheck(o)
    BY <1>5, <1>d DEF Gates, Idle
  <2>2. o \in Judging
    BY <2>1, SlotsAre DEF Way
  <2>3. slot'[s].started = o.started /\ slot'[s].asOf = o.asOf
    BY <1>5, <1>d, <2>1, <2>2 DEF Gates, Judging
  <2> QED BY <2>1, <2>3 DEF MayCheck
<1>6. CASE OrderChecked(s)
  <2>1. o.pc = "checking" /\ o \in Judging
    BY <1>6, SlotsAre DEF OrderChecked, Way
  <2>2. slot'[s].started = o.started /\ slot'[s].asOf = o.asOf
    BY <1>6, <1>d, <2>1 DEF OrderChecked, Judging
  <2> QED BY <2>1, <2>2 DEF VetoInv
<1> QED BY <1>1, <1>3, <1>4, <1>5, <1>6, WayStep DEF Way

\* The cached account is as old as the call that asked for it.
LEMMA ExpiryNext ==
  ASSUME Typed, Related, VetoInv, [RiskNext]_vars
  PROVE  mem'.account.expires - Risk.accountTtl <= now'
<1>0. /\ mem \in Mems /\ now \in Nat /\ mem.account.expires \in Int /\ Risk.accountTtl \in Nat
      /\ mem.account.expires - Risk.accountTtl <= now
  BY VetoTyped, ConfigTyped DEF Typed, VetoInv
<1>1. ASSUME NEW s \in Slots, Order(s)
      PROVE  mem'.account.expires - Risk.accountTtl <= now'
  <2>0. now' = now
    BY <1>1 DEF Order, Size, Evaluate, Preflight, AccountAnswers, Gates, OrderChecked, Abandon, Enter,
                SendFails, SendFills, RecordGlobal, RecordSymbol, ReadCanary, CountCanary, Keep
  <2>1. CASE AccountAnswers(s)
    <3>1. slot[s].started \in Nat /\ slot[s].started <= now
      BY <2>1, VetoTyped DEF AccountAnswers, Related, Way
    <3>2. mem'.account.expires = slot[s].started + Risk.accountTtl
      BY <1>0, <2>1 DEF AccountAnswers, Mems
    <3> QED BY <1>0, <2>0, <3>1, <3>2
  <2>2. CASE Evaluate(s) \/ Enter(s)
    BY <1>0, <2>0, <2>2 DEF Evaluate, Enter, Mems
  <2>3. CASE SendFails(s)
    BY <1>0, <2>0, <2>3, CountedTyped DEF SendFails
  <2>4. CASE SendFills(s)
    <3>1. PICK points \in bound.slips : mem' = Slipped(Counted, slot[s].sym, points)
      BY <2>4 DEF SendFills
    <3>2. points \in Nat /\ slot[s].sym \in Symbols
      BY <2>4, <3>1, SlotsAre DEF SendFills, Typed, Courses, Sending
    <3>3. mem'.account = mem.account
      BY <3>1, <3>2, CountedTyped, SlippedTyped
    <3> QED BY <1>0, <2>0, <3>3
  <2>5. CASE ~(AccountAnswers(s) \/ Evaluate(s) \/ Enter(s) \/ SendFails(s) \/ SendFills(s))
    <3>1. mem' = mem
      BY <1>1, <2>5 DEF Order, Size, Preflight, Gates, OrderChecked, Abandon, RecordGlobal, RecordSymbol,
                        ReadCanary, CountCanary
    <3> QED BY <1>0, <2>0, <3>1
  <2> QED BY <2>1, <2>2, <2>3, <2>4, <2>5
<1>2. ASSUME NEW i \in Ids, Close(i) \/ RecordLoss(i) \/ RecordStreak(i)
      PROVE  mem'.account.expires - Risk.accountTtl <= now'
  BY <1>0, <1>2 DEF Close, RecordLoss, RecordStreak, Keep
<1>3. CASE Restart
  <2>1. mem'.account.expires = -1 /\ now' = now
    BY <1>3 DEF Restart, Fresh, Never
  <2> QED BY <1>0, <2>1
<1>4. CASE World
  <2>1. mem' = mem /\ (now' = now \/ now' = now + 1)
    BY <1>4 DEF World, Tick, Market
  <2> QED BY <1>0, <2>1
<1>5. CASE Roll \/ UNCHANGED riskVars \/ UNCHANGED vars
  BY <1>0, <1>5 DEF Roll, Keep, riskVars, vars
<1> QED BY <1>1, <1>2, <1>3, <1>4, <1>5 DEF RiskNext, Step

LEMMA VetoStays == ASSUME VetoInv, UNCHANGED vars PROVE VetoInv'
<1>1. UNCHANGED <<now, equity, disk, mem, broker, slot, since>>
  BY DEF vars, riskVars
<1>2. \A v \in Vetoes : Stands(v)' <=> Stands(v)
  BY <1>1 DEF Stands, Rejects, check_halts, check_position_caps, TradeRate, Within, OfSymbol, LossVelocity,
              Lost, MicroCooldown, AntiChurn, OrderStorm, RecentSends, OpenIds, Ids, Fill
<1>3. \A s \in Slots, v \in Vetoes : Bites(s, v)' <=> Bites(s, v)
  BY <1>1 DEF Bites, check_halts
<1> QED BY <1>1, <1>2, <1>3 DEF VetoInv

LEMMA VetoNext ==
  ASSUME Typed, Related, Typed', Related', VetoInv, [RiskNext]_vars
  PROVE  VetoInv'
<1>1. CASE UNCHANGED vars
  BY <1>1, VetoStays
<1>2. CASE Watch
  <2>1. ASSUME NEW v \in Vetoes, since'[v] # Never
        PROVE  since'[v] \in 0..now' /\ Stands(v)'
    <3>1. Stands(v)' /\ (since'[v] = now' \/ (since[v] # Never /\ since'[v] = since[v]))
      BY <1>2, <2>1, SinceIs
    <3>2. since[v] # Never => since[v] \in 0..now
      BY DEF VetoInv
    <3>3. now' \in Nat /\ now \in Nat /\ now <= now'
      <4>1. now' = now \/ now' = now + 1
        BY DEF RiskNext, Step, Order, Size, Evaluate, Preflight, AccountAnswers, Gates, OrderChecked, Abandon,
               Enter, SendFails, SendFills, RecordGlobal, RecordSymbol, ReadCanary, CountCanary, Keep, Close,
               RecordLoss, RecordStreak, Roll, Restart, World, Tick, Market, riskVars, vars
      <4> QED BY <4>1, VetoTyped
    <3> QED BY <3>1, <3>2, <3>3
  <2>2. ASSUME NEW s \in Slots, NEW v \in Vetoes,
               since'[v] # Never, slot'[s].pc \in Way, v[2] = slot'[s].sym
        PROVE  Bites(s, v)'
    BY <1>2, <2>2, VetoBites
  <2>3. ASSUME NEW v \in Vetoes, since'[v] # Never, v[1] = "TRADE_NOT_ALLOWED", mem'.account.ok
        PROVE  mem'.account.expires - Risk.accountTtl <= since'[v]
    <3>1. Stands(v)' /\ (since'[v] = now' \/ (since[v] # Never /\ since'[v] = since[v]))
      BY <1>2, <2>3, SinceIs
    <3>2. CASE since'[v] = now'
      BY <3>2, ExpiryNext
    <3>3. CASE since[v] # Never /\ since'[v] = since[v]
      <4>1. ~broker'.perm
        BY <2>3, <3>1 DEF Stands
      <4>2. mem'.account = mem.account
        BY <2>3, <4>1, AccountKept
      <4> QED BY <2>3, <3>3, <4>2 DEF VetoInv
    <3> QED BY <3>1, <3>2, <3>3
  <2> QED BY <2>1, <2>2, <2>3, AgeNext, ExpiryNext DEF VetoInv
<1> QED BY <1>1, <1>2 DEF RiskNext

\* However the threads, the clock, the equity, the broker's permission, the daily
\* and weekly rolls and the restarts interleave, an order that has passed its
\* preflight was checked no later after any veto on its symbol began to stand than
\* a verdict may be old, and than an account may be cached after the broker
\* withdrew its permission (commander.py: evaluate; preflight.py: run, _account;
\* guards.py; anchors.py: roll).
THEOREM VetoesBiteInTime == RiskSpec => []VetoesBite
<1> DEFINE Inv == ArmingTypeOK /\ Typed /\ Related /\ VetoInv
<1>1. RiskInit => Inv
  BY DeskInit, VetoInit
<1>2. Inv /\ [RiskNext]_vars => Inv'
  BY DeskNext, VetoNext
<1>3. Inv => VetoesBite
  <2> SUFFICES ASSUME Typed, VetoInv, NEW s \in Passed, NEW v \in Vetoes, v[2] = slot[s].sym, since[v] # Never
               PROVE  slot[s].started - since[v]
                        <= IF v[1] = "TRADE_NOT_ALLOWED" THEN Risk.accountTtl ELSE Risk.verdictAge
    BY DEF VetoesBite
  <2>1. s \in Slots /\ slot[s].pc = "passed"
    BY DEF Passed
  <2>2. Bites(s, v) /\ slot[s].started - slot[s].asOf <= Risk.verdictAge
    BY <2>1 DEF VetoInv, Way
  <2>3. slot[s].started \in Nat /\ slot[s].asOf \in Nat /\ since[v] \in Int /\ Risk.verdictAge \in Nat
    BY <2>1, VetoTyped, ConfigTyped DEF Way
  <2> QED BY <2>1, <2>2, <2>3 DEF Bites
<1> QED
  BY <1>1, <1>2, <1>3, PTL DEF RiskSpec
=============================================================================
