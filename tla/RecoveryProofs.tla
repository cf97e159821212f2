--------------------------- MODULE RecoveryProofs ---------------------------
(***************************************************************************)
(* Theorems about Recovery for every set of keys and calls and every       *)
(* number of crashes.  Core, the invariant of the engine, survives a crash *)
(* and a reconcile; that released keys are dead does not, as a reconcile   *)
(* may release a key whose order has just triggered: it then flags it.     *)
(***************************************************************************)
EXTENDS Recovery, ExecutionProofs

(* The inductive invariant, part by part *)

\* While the process is down or reconciles, nothing of a call, a send or a
\* cancel is left.
Calm == phase # "running" => /\ queue = {}
                             /\ \A c \in Calls : Unaffected(c)
                             /\ \A k \in Keys : canc[k] = "idle"

\* A resting order is that of a pending request, and holds its symbol.
RestsHeld == \A k \in Keys : obj[k] = "resting" => k \in PendingKeys /\ InFlight(k)

\* What a snapshot listed was there, and may have moved on since.
SnapshotsTrue ==
    \A k \in Keys : /\ k \in positions \cup traded => obj[k] \in {"open", "closed"}
                    /\ k \in exited \cup aged => obj[k] = "closed"
                    /\ k \in pendings => exec[k] = 1 /\ k \notin positions

\* What is live was seen by one of the queries: an order that triggers between
\* two of them is missing from one, not from all.
SnapshotsComplete ==
    \A k \in Keys :
        /\ phase \in {"deals"} \cup Loops /\ obj[k] = "resting" => k \in pendings
        /\ phase \in Loops /\ obj[k] = "open" => k \in traded \cup pendings

\* Outside a reconcile there are no snapshots.
SnapshotsFresh ==
    /\ phase \in {"running", "down", "positions"}
         => positions = {} /\ pendings = {} /\ traded = {} /\ exited = {}
    /\ phase = "orders" => pendings = {}

\* A row the reconcile will make PLACED holds its symbol until it does.
Holds(k) == InFlight(k) \/ k \in pendings

HoldersApart == \A j, k \in Keys : j # k /\ Holds(j) /\ Holds(k) /\ SymbolOf[j] = SymbolOf[k]
                                      => SameStraddle(j, k)

\* What each loop of the reconcile has achieved so far.
LoopsDone ==
    /\ phase = "matchPositions" => todo \subseteq positions
    /\ phase = "matchPendings" => todo \subseteq pendings
    /\ \A k \in Keys :
         /\ phase \in Loops /\ row[k] = "UNKNOWN_OUTCOME" => phase = "resolve" /\ k \in todo
         /\ phase \in {"matchPositions", "matchPendings", "override"} /\ k \in positions
              => row[k] = "FILLED" \/ (phase = "matchPositions" /\ k \in todo)
         /\ phase \in {"matchPendings", "override"} /\ k \in pendings
              => row[k] = "PLACED" \/ (phase = "matchPendings" /\ k \in todo)
         /\ phase = "override" /\ row[k] = "PLACED" /\ ticketed[k]
              => k \in pendings \/ k \in todo

RInv == /\ RecoveryTypeOK /\ Core /\ Calm /\ RestsHeld
        /\ SnapshotsTrue /\ SnapshotsComplete /\ SnapshotsFresh
        /\ HoldersApart /\ LoopsDone /\ ReleaseSurvivesRestart

USE EngineAssumption, RecoveryAssumption
    DEF PCs, OwningPCs, SendingPCs, ResolvingPCs, QueryPCs, EndPCs, RowStates, Objects,
    Replies, Acks, Refusals, Live, storeVars, callVars, brokerVars, Owns, SendQueued,
    InFlight, InFlightStates, Phases, Loops, snapVars, humanVars, recoveryVars
-----------------------------------------------------------------------------
(* The engine running *)

\* A resting order holds its symbol: what rests was executed of a key in flight,
\* and no step takes a row out of flight whose order rests.
LEMMA CallRests ==
  ASSUME Core, RestsHeld, NEW c \in Calls, LookUp(c) \/ CallStep(c) \/ ExecuteSend(c)
  PROVE  RestsHeld'
<1>1. CASE LookUp(c) \/ Send(c) \/ ReadAck(c) \/ RetryRefresh(c) \/ RetryOnce(c)
           \/ QueryFails(c)
  BY <1>1 DEF RestsHeld, LookUp, Send, ReadAck, RetryRefresh, RetryOnce, QueryFails
<1>2. CASE TryClaim(c)
  BY <1>2 DEF Core, TypeOK, RestsHeld, TryClaim, SetState
<1>3. CASE ExecuteSend(c)
  BY <1>3 DEF Core, TypeOK, QueuedSend, RestsHeld, ExecuteSend
<1>4. CASE FuseCheck(c) \/ Refresh(c)
  BY <1>4 DEF Core, TypeOK, ExecutedOnce, BeforeSend, RestsHeld, FuseCheck, Refresh,
      QueryRuns, Rejects, SetState
<1>5. CASE RecomputeStops(c) \/ SwitchFilling(c) \/ ReadRefusal(c)
  BY <1>5 DEF Core, TypeOK, ExecutedOnce, QueuedSend, Answered, RestsHeld,
      RecomputeStops, SwitchFilling, ReadRefusal, Reads, Rejects, SetState
<1>6. CASE ReadPartial(c) \/ ReadUnknown(c)
  BY <1>6 DEF Core, TypeOK, RestsHeld, ReadPartial, ReadUnknown, IsMarket, SetState,
      SetStateTicket
<1>7. CASE VerifyFill(c) \/ VerifyPlaced(c) \/ ResolvePositions(c)
           \/ ResolveOrders(c) \/ ResolveDeals(c)
  BY <1>7 DEF Core, TypeOK, NotResting, RestsHeld, VerifyFill, VerifyPlaced,
      ResolvePositions, ResolveOrders, ResolveDeals, QueryRuns, SetState, SetStateTicket
<1> QED
  BY <1>1, <1>2, <1>3, <1>4, <1>5, <1>6, <1>7 DEF CallStep

LEMMA NextRests == Core /\ RestsHeld /\ [Next]_vars => RestsHeld'
<1> SUFFICES ASSUME Core, RestsHeld, [Next]_vars
             PROVE  RestsHeld'
  OBVIOUS
<1>1. ASSUME NEW c \in Calls, LookUp(c) \/ CallStep(c) \/ ExecuteSend(c)
      PROVE  RestsHeld'
  BY <1>1, CallRests
<1>2. ASSUME NEW k \in Keys,
             CancelStep(k) \/ CancelExecute(k) \/ Trigger(k) \/ Expire(k) \/ Close(k)
      PROVE  RestsHeld'
  BY <1>2 DEF Core, TypeOK, PlacedIsReal, RestsHeld, CancelStep, CancelSend,
      CancelTimeout, CancelReturns, CancelExecute, Trigger, Expire, Close, Becomes, SetState
<1>3. CASE UNCHANGED vars
  BY <1>3 DEF RestsHeld, vars
<1> QED
  BY <1>1, <1>2, <1>3 DEF Next, EngineNext, Worker, Market

\* What closed stays closed, whoever runs.
LEMMA ClosedStays ==
  ASSUME Core, [Next]_vars, NEW k \in Keys, obj[k] = "closed"
  PROVE  obj'[k] = "closed"
<1>1. ASSUME NEW c \in Calls, ExecuteSend(c)
      PROVE  obj'[k] = "closed"
  BY <1>1 DEF Core, TypeOK, QueuedSend, ExecutedOnce, ExecuteSend
<1>2. ASSUME NEW j \in Keys, CancelExecute(j) \/ Trigger(j) \/ Expire(j) \/ Close(j)
      PROVE  obj'[k] = "closed"
  BY <1>2 DEF Core, TypeOK, CancelExecute, Trigger, Expire, Close, Becomes
<1>3. ASSUME NEW c \in Calls, LookUp(c) \/ CallStep(c)
      PROVE  obj' = obj
  BY <1>3 DEF LookUp, CallStep, TryClaim, FuseCheck, Send, ReadAck, ReadPartial,
      ReadUnknown, RetryRefresh, RecomputeStops, RetryOnce, SwitchFilling, ReadRefusal,
      Refresh, VerifyFill, VerifyPlaced, ResolvePositions, ResolveOrders, ResolveDeals,
      QueryFails
<1>4. ASSUME NEW j \in Keys, CancelStep(j)
      PROVE  obj' = obj
  BY <1>4 DEF CancelStep, CancelSend, CancelTimeout, CancelReturns
<1>5. CASE UNCHANGED vars
  BY <1>5 DEF vars
<1> QED
  BY <1>1, <1>2, <1>3, <1>4, <1>5 DEF Next, EngineNext, Worker, Market

\* Keys in flight stay apart, by the protocol the engine implements.
LEMMA NextApart == Core /\ OneInFlightPerSymbol /\ [Next]_vars => OneInFlightPerSymbol'
<1>1. OneInFlightPerSymbol <=> Protocol!Exclusive
  BY DEF Protocol!Exclusive, Protocol!Compatible, OneInFlightPerSymbol, SameStraddle
<1>2. OneInFlightPerSymbol' <=> Protocol!Exclusive'
  BY DEF Protocol!Exclusive, Protocol!Compatible, OneInFlightPerSymbol, SameStraddle
<1> QED
  BY <1>1, <1>2, StepImplements, ExclusionStep

\* Outside a reconcile the holders are the keys in flight.
LEMMA HoldersInFlight ==
  ASSUME pendings = {}
  PROVE  HoldersApart <=> OneInFlightPerSymbol
  BY DEF HoldersApart, Holds, OneInFlightPerSymbol

\* While the engine runs there are no snapshots to keep true.
LEMMA RunningInv ==
  ASSUME RInv, Running
  PROVE  RInv'
<1>1. /\ phase = "running" /\ UNCHANGED recoveryVars
      /\ positions = {} /\ pendings = {} /\ traded = {} /\ exited = {}
  BY DEF RInv, SnapshotsFresh, Running
<1>2. [Next]_vars /\ Core
  BY DEF RInv, Running, Next
<1>3. Core' /\ StaysDead
  BY <1>2, CoreNext
<1>4. RecoveryTypeOK'
  BY <1>1, <1>3 DEF RInv, RecoveryTypeOK, Core
<1>5. RestsHeld'
  BY <1>2, NextRests DEF RInv
<1>6. HoldersApart'
  <2>1. OneInFlightPerSymbol
    BY <1>1, HoldersInFlight DEF RInv
  <2>2. OneInFlightPerSymbol'
    BY <1>2, <2>1, NextApart
  <2>3. pendings' = {}
    BY <1>1
  <2> QED
    BY <2>2, <2>3 DEF HoldersApart, Holds, OneInFlightPerSymbol
<1>7. SnapshotsTrue'
  BY <1>1, <1>2, ClosedStays DEF RInv, SnapshotsTrue
<1>8. ReleaseSurvivesRestart'
  BY <1>1, <1>3 DEF RInv, ReleaseSurvivesRestart, StaysDead, Dead
<1>9. (Calm /\ SnapshotsComplete /\ SnapshotsFresh /\ LoopsDone)'
  BY <1>1 DEF Calm, SnapshotsComplete, SnapshotsFresh, LoopsDone
<1> QED
  BY <1>3, <1>4, <1>5, <1>6, <1>7, <1>8, <1>9 DEF RInv

-----------------------------------------------------------------------------
(* The market, at any time *)

\* What the market does to the orders, with the store and the process alone.
Drifts == /\ \A k \in Keys :
               \/ obj'[k] = obj[k]
               \/ obj[k] = "resting" /\ obj'[k] \in {"open", "gone"}
               \/ obj[k] = "open" /\ obj'[k] = "closed"
          /\ UNCHANGED <<storeVars, pc, callVars, queue, reply, exec, canc, blown>>

LEMMA MarketDrifts ==
  ASSUME Core, NEW k \in Keys, Trigger(k) \/ Expire(k) \/ Close(k)
  PROVE  Drifts /\ Core' /\ StaysDead /\ [Next]_vars
<1>1. Core' /\ StaysDead
  BY KeyInv
<1>2. PICK to : obj' = [obj EXCEPT ![k] = to]
                /\ \/ obj[k] = "resting" /\ to \in {"open", "gone"}
                   \/ obj[k] = "open" /\ to = "closed"
  BY DEF Trigger, Expire, Close, Becomes
<1>3. Drifts
  <2>1. UNCHANGED <<storeVars, pc, callVars, queue, reply, exec, canc, blown>>
    BY DEF Trigger, Expire, Close, Becomes
  <2>2. obj'[k] = to /\ \A j \in Keys \ {k} : obj'[j] = obj[j]
    BY <1>2 DEF Core, TypeOK
  <2> QED
    BY <1>2, <2>1, <2>2 DEF Drifts
<1> QED
  BY <1>1, <1>3 DEF Next, Market

\* An order that triggers leaves pendings true, and was in pendings if it was
\* resting when they were asked for.
LEMMA DriftInv ==
  ASSUME RInv, Drifts, Core', StaysDead, [Next]_vars, byHand' \subseteq Keys,
         UNCHANGED <<phase, todo, snapVars, aged, flagged, crashes>>
  PROVE  RInv'
<1>1. RecoveryTypeOK'
  BY DEF RInv, RecoveryTypeOK, Core
<1>2. (Calm /\ SnapshotsFresh /\ HoldersApart /\ LoopsDone)'
  BY DEF RInv, Calm, SnapshotsFresh, HoldersApart, Holds, LoopsDone, Drifts, Unaffected
<1>3. RestsHeld'
  BY NextRests DEF RInv
<1>4. (SnapshotsTrue /\ SnapshotsComplete)'
  BY DEF RInv, SnapshotsTrue, SnapshotsComplete, Drifts
<1>5. ReleaseSurvivesRestart'
  BY DEF RInv, ReleaseSurvivesRestart, StaysDead, Dead
<1> QED
  BY <1>1, <1>2, <1>3, <1>4, <1>5 DEF RInv

LEMMA MarketInv ==
  ASSUME RInv, MarketMoves \/ \E k \in Keys : HumanActs(k)
  PROVE  RInv'
<1>1. ASSUME NEW k \in Keys, Trigger(k) \/ Expire(k) \/ Close(k), byHand' \subseteq Keys,
             UNCHANGED <<phase, todo, snapVars, aged, flagged, crashes>>
      PROVE  RInv'
  BY <1>1, MarketDrifts, DriftInv DEF RInv
<1>2. CASE MarketMoves
  BY <1>1, <1>2 DEF MarketMoves, Market, RInv, RecoveryTypeOK
<1>3. CASE \E k \in Keys : HumanActs(k)
  BY <1>1, <1>3 DEF HumanActs, RInv, RecoveryTypeOK
<1> QED
  BY <1>2, <1>3

-----------------------------------------------------------------------------
(* Crash, restart and the snapshots *)

\* A crash ends every call and forgets every queued send: what was in flight
\* stays so, and what was released is as dead as before.
LEMMA CrashInv ==
  ASSUME RInv, Crash
  PROVE  RInv'
<1>1. TypeOK'
  BY DEF RInv, Core, TypeOK, Crash, Unaffected
<1>2. RecoveryTypeOK'
  BY <1>1 DEF RInv, RecoveryTypeOK, Crash, SnapshotsGone
<1>3. \A c \in Calls : pc'[c] \in {"idle", "returned", "raised"} /\ reply'[c] = "none"
  BY DEF Crash, Unaffected
<1>4. Core'
  BY <1>1, <1>3 DEF RInv, Core, ReplyAwaited, ExecutedOnce, Unclaimed, OneOwner,
      OwnedRow, QueuedSend, BeforeSend, Answered, SendIsOver, NotResting,
      PlacedIsReal, FilledIsReal, Crash
<1>5. (RestsHeld /\ HoldersApart)'
  BY DEF RInv, RestsHeld, HoldersApart, Holds, Crash, SnapshotsGone
<1>6. (Calm /\ SnapshotsTrue /\ SnapshotsComplete /\ SnapshotsFresh /\ LoopsDone)'
  BY <1>3 DEF RInv, Calm, SnapshotsTrue, SnapshotsComplete, SnapshotsFresh, LoopsDone,
      Crash, SnapshotsGone, Unaffected
<1>7. ReleaseSurvivesRestart'
  BY DEF RInv, ReleaseSurvivesRestart, Crash
<1> QED
  BY <1>2, <1>4, <1>5, <1>6, <1>7 DEF RInv

LEMMA RestartInv ==
  ASSUME RInv, Restart
  PROVE  RInv'
<1>1. UNCHANGED vars /\ phase = "down" /\ phase' = "positions"
      /\ UNCHANGED <<todo, positions, pendings, traded, exited, byHand, flagged, crashes>>
  BY DEF Restart
<1>2. \A k \in Keys : k \in aged' => k \in aged \/ obj[k] = "closed"
  BY DEF Restart
<1>3. aged' \subseteq Keys
  BY DEF RInv, RecoveryTypeOK, Restart
<1>4. RecoveryTypeOK' /\ Core'
  BY <1>1, <1>3, StutterInv DEF RInv, RecoveryTypeOK, Core
<1>5. (RestsHeld /\ HoldersApart /\ Calm /\ SnapshotsComplete /\ SnapshotsFresh
       /\ LoopsDone /\ ReleaseSurvivesRestart)'
  BY <1>1 DEF vars, RInv, RestsHeld, HoldersApart, Holds, Calm, Unaffected,
      SnapshotsComplete, SnapshotsFresh, LoopsDone, ReleaseSurvivesRestart
<1>6. SnapshotsTrue'
  BY <1>1, <1>2 DEF vars, RInv, SnapshotsTrue
<1> QED
  BY <1>4, <1>5, <1>6 DEF RInv

LEMMA PositionsGetInv ==
  ASSUME RInv, PositionsGet
  PROVE  RInv'
<1>1. RecoveryTypeOK' /\ Core'
  BY StutterInv DEF RInv, RecoveryTypeOK, Core, PositionsGet, Having
<1>2. (RestsHeld /\ HoldersApart /\ Calm /\ SnapshotsTrue /\ SnapshotsComplete
       /\ SnapshotsFresh /\ LoopsDone /\ ReleaseSurvivesRestart)'
  BY DEF vars, RInv, RestsHeld, HoldersApart, Holds, Calm, Unaffected, SnapshotsTrue,
      SnapshotsComplete, SnapshotsFresh, LoopsDone, ReleaseSurvivesRestart, PositionsGet,
      Having
<1> QED
  BY <1>1, <1>2 DEF RInv

\* What orders_get lists rests, and so is in flight already.
LEMMA OrdersGetInv ==
  ASSUME RInv, OrdersGet
  PROVE  RInv'
<1>1. RecoveryTypeOK' /\ Core'
  BY StutterInv DEF RInv, RecoveryTypeOK, Core, OrdersGet, Having
<1>2. HoldersApart'
  <2>1. \A k \in Keys : Holds(k)' => Holds(k)
    BY DEF RInv, RestsHeld, Holds, OrdersGet, Having, vars
  <2> QED
    BY <2>1 DEF RInv, HoldersApart
<1>3. SnapshotsTrue'
  BY DEF vars, RInv, Core, TypeOK, ExecutedOnce, SnapshotsTrue, OrdersGet, Having
<1>4. (RestsHeld /\ Calm /\ SnapshotsComplete /\ SnapshotsFresh /\ LoopsDone
       /\ ReleaseSurvivesRestart)'
  BY DEF vars, RInv, RestsHeld, Calm, Unaffected, SnapshotsComplete, SnapshotsFresh,
      LoopsDone, ReleaseSurvivesRestart, OrdersGet, Having
<1> QED
  BY <1>1, <1>2, <1>3, <1>4 DEF RInv

\* A position that is open was not closed before the restart: it has a deal of
\* the last 48 hours.
LEMMA DealsGetInv ==
  ASSUME RInv, DealsGet
  PROVE  RInv'
<1>1. RecoveryTypeOK' /\ Core'
  BY StutterInv DEF RInv, RecoveryTypeOK, Core, DealsGet, Having, RowsIn
<1>2. (SnapshotsTrue /\ SnapshotsComplete)'
  BY DEF vars, RInv, SnapshotsTrue, SnapshotsComplete, DealsGet, Having
<1>3. (RestsHeld /\ HoldersApart /\ Calm /\ SnapshotsFresh /\ LoopsDone
       /\ ReleaseSurvivesRestart)'
  BY DEF vars, RInv, RestsHeld, HoldersApart, Holds, Calm, Unaffected, SnapshotsFresh,
      LoopsDone, ReleaseSurvivesRestart, DealsGet, RowsIn
<1> QED
  BY <1>1, <1>2, <1>3 DEF RInv

-----------------------------------------------------------------------------
(* The loops *)

\* Writing a row while nothing else runs keeps the engine's invariant, if what it
\* says of the broker is true.
LEMMA RewriteCore ==
  ASSUME RInv, phase # "running", NEW k \in Keys, NEW s \in RowStates \ {"NONE"},
         SetState(k, s) \/ SetStateTicket(k, s), UNCHANGED engineVars,
         s = "PLACED" => exec[k] = 1,
         s = "FILLED" => obj[k] \in {"open", "closed"}
  PROVE  Core'
<1>1. /\ row \in [Keys -> RowStates] /\ row' = [row EXCEPT ![k] = s]
      /\ queue = {} /\ \A c \in Calls : pc[c] \in {"idle", "returned", "raised"}
      /\ \A j \in Keys : canc[j] = "idle"
  BY DEF RInv, Core, TypeOK, Calm, Unaffected, SetState, SetStateTicket
<1>2. TypeOK'
  <2>1. row' \in [Keys -> RowStates] /\ ticketed' \in [Keys -> BOOLEAN]
    BY StoredType DEF RInv, Core
  <2> QED
    BY <2>1 DEF RInv, Core, TypeOK, engineVars
<1> QED
  BY <1>1, <1>2 DEF RInv, Core, ReplyAwaited, ExecutedOnce, Unclaimed, OneOwner,
     OwnedRow, QueuedSend, BeforeSend, Answered, SendIsOver, NotResting, PlacedIsReal,
     FilledIsReal, engineVars

\* The parts of the invariant that no loop can disturb.
LEMMA RoundKeeps ==
  ASSUME RInv, NEW l \in Loops, NEW k \in Keys, Round(l, k), flagged' \subseteq Keys,
         Core'
  PROVE  (RecoveryTypeOK /\ Calm /\ SnapshotsTrue /\ SnapshotsComplete /\ SnapshotsFresh)'
<1>1. RecoveryTypeOK'
  BY DEF RInv, RecoveryTypeOK, Core, Round
<1>2. (Calm /\ SnapshotsTrue /\ SnapshotsComplete /\ SnapshotsFresh)'
  BY DEF RInv, Calm, Unaffected, SnapshotsTrue, SnapshotsComplete, SnapshotsFresh, Round,
     engineVars
<1> QED
  BY <1>1, <1>2

\* An unknown outcome is resolved by what was listed: what no query listed is dead.
LEMMA ResolveRowInv ==
  ASSUME RInv, NEW k \in Keys, ResolveRow(k)
  PROVE  RInv'
<1> DEFINE s == IF k \in positions \cup traded THEN "FILLED"
                ELSE IF k \in pendings THEN "PLACED" ELSE "CANCELLED"
<1>1. /\ phase = "resolve" /\ Round("resolve", k) /\ SetState(k, s) /\ UNCHANGED flagged
      /\ row \in [Keys -> RowStates]
  BY DEF RInv, Core, TypeOK, ResolveRow, Round
<1>2. Core'
  <2>1. /\ s \in RowStates \ {"NONE"} /\ s = "PLACED" => exec[k] = 1
        /\ s = "FILLED" => obj[k] \in {"open", "closed"}
    BY DEF RInv, SnapshotsTrue
  <2> QED
    BY <1>1, <2>1, RewriteCore DEF Round
<1>3. (RecoveryTypeOK /\ Calm /\ SnapshotsTrue /\ SnapshotsComplete /\ SnapshotsFresh)'
  BY <1>1, <1>2, RoundKeeps DEF RInv, RecoveryTypeOK
<1>4. row' = [row EXCEPT ![k] = s] /\ pendings' = pendings /\ UNCHANGED <<obj, queue>>
  BY <1>1 DEF SetState, Round, engineVars
<1>5. obj[k] = "resting" => s \in {"FILLED", "PLACED"} /\ k \in pendings
  BY <1>1 DEF RInv, SnapshotsComplete
<1>6. RestsHeld'
  BY <1>1, <1>4, <1>5 DEF RInv, RestsHeld, SnapshotsTrue
<1>7. HoldersApart'
  <2>1. \A j \in Keys : Holds(j)' => Holds(j)
    BY <1>1, <1>4 DEF Holds
  <2> QED
    BY <2>1 DEF RInv, HoldersApart
<1>8. ReleaseSurvivesRestart'
  <2>1. s = "CANCELLED" => obj[k] \notin Live /\ queue = {}
    BY <1>1 DEF RInv, Calm, SnapshotsComplete
  <2> QED
    BY <1>1, <1>4, <2>1 DEF RInv, ReleaseSurvivesRestart
<1>9. LoopsDone'
  BY <1>1, <1>4 DEF RInv, LoopsDone, Round
<1> QED
  BY <1>2, <1>3, <1>6, <1>7, <1>8, <1>9 DEF RInv

\* A listed position is FILLED, whatever its row said.
LEMMA MatchPositionInv ==
  ASSUME RInv, NEW k \in Keys, MatchPosition(k)
  PROVE  RInv'
<1>1. /\ phase = "matchPositions" /\ Round("matchPositions", k) /\ SetStateTicket(k, "FILLED")
      /\ UNCHANGED flagged /\ row \in [Keys -> RowStates] /\ k \in todo
  BY DEF RInv, Core, TypeOK, MatchPosition, Round
<1>2. k \in positions /\ k \notin pendings /\ obj[k] \in {"open", "closed"}
  BY <1>1 DEF RInv, LoopsDone, SnapshotsTrue
<1>3. Core'
  BY <1>1, <1>2, RewriteCore DEF Round
<1>4. (RecoveryTypeOK /\ Calm /\ SnapshotsTrue /\ SnapshotsComplete /\ SnapshotsFresh)'
  BY <1>1, <1>3, RoundKeeps DEF RInv, RecoveryTypeOK
<1>5. row' = [row EXCEPT ![k] = "FILLED"] /\ UNCHANGED <<pendings, positions, obj, queue>>
  BY <1>1 DEF SetStateTicket, Round, engineVars, snapVars
<1>6. RestsHeld'
  BY <1>1, <1>2, <1>5 DEF RInv, RestsHeld
<1>7. HoldersApart'
  <2>1. \A j \in Keys : Holds(j)' => Holds(j)
    BY <1>1, <1>5 DEF Holds
  <2> QED
    BY <2>1 DEF RInv, HoldersApart
<1>8. ReleaseSurvivesRestart'
  BY <1>1, <1>5 DEF RInv, ReleaseSurvivesRestart
<1>9. LoopsDone'
  BY <1>1, <1>5 DEF RInv, LoopsDone, Round
<1> QED
  BY <1>3, <1>4, <1>6, <1>7, <1>8, <1>9 DEF RInv

\* A listed order is PLACED: it held its symbol when it was listed, and no one
\* has claimed it since.
LEMMA MatchPendingInv ==
  ASSUME RInv, NEW k \in Keys, MatchPending(k)
  PROVE  RInv'
<1>1. /\ phase = "matchPendings" /\ Round("matchPendings", k) /\ SetStateTicket(k, "PLACED")
      /\ UNCHANGED flagged /\ row \in [Keys -> RowStates] /\ k \in todo
  BY DEF RInv, Core, TypeOK, MatchPending, Round
<1>2. k \in pendings /\ k \notin positions /\ exec[k] = 1
  BY <1>1 DEF RInv, LoopsDone, SnapshotsTrue
<1>3. Core'
  BY <1>1, <1>2, RewriteCore DEF Round
<1>4. (RecoveryTypeOK /\ Calm /\ SnapshotsTrue /\ SnapshotsComplete /\ SnapshotsFresh)'
  BY <1>1, <1>3, RoundKeeps DEF RInv, RecoveryTypeOK
<1>5. row' = [row EXCEPT ![k] = "PLACED"] /\ UNCHANGED <<pendings, positions, obj, queue>>
  BY <1>1 DEF SetStateTicket, Round, engineVars, snapVars
<1>6. RestsHeld'
  BY <1>1, <1>5 DEF RInv, RestsHeld
<1>7. HoldersApart'
  <2>1. \A j \in Keys : Holds(j)' => Holds(j)
    BY <1>1, <1>2, <1>5 DEF Holds
  <2> QED
    BY <2>1 DEF RInv, HoldersApart
<1>8. ReleaseSurvivesRestart'
  BY <1>1, <1>5 DEF RInv, ReleaseSurvivesRestart
<1>9. LoopsDone'
  BY <1>1, <1>2, <1>5 DEF RInv, LoopsDone, Round
<1> QED
  BY <1>3, <1>4, <1>6, <1>7, <1>8, <1>9 DEF RInv

\* An unlisted row is not that of a resting order; if it is released, it is
\* flagged.
LEMMA OverrideRowInv ==
  ASSUME RInv, NEW k \in Keys, OverrideRow(k)
  PROVE  RInv'
<1>1. /\ phase = "override" /\ Round("override", k) /\ row \in [Keys -> RowStates] /\ k \in todo
      /\ UNCHANGED <<pendings, positions, obj, queue>>
  BY DEF RInv, Core, TypeOK, OverrideRow, Round, engineVars, snapVars
<1>2. CASE ~Unlisted(k)
  <2>1. UNCHANGED <<storeVars, flagged, engineVars>>
    BY <1>1, <1>2 DEF OverrideRow, Round
  <2>2. Core'
    BY <2>1, StutterInv DEF RInv, engineVars, vars
  <2>3. (RecoveryTypeOK /\ Calm /\ SnapshotsTrue /\ SnapshotsComplete /\ SnapshotsFresh)'
    BY <1>1, <2>1, <2>2, RoundKeeps DEF RInv, RecoveryTypeOK
  <2>4. (RestsHeld /\ HoldersApart /\ ReleaseSurvivesRestart)'
    BY <1>1, <2>1 DEF RInv, RestsHeld, HoldersApart, Holds, ReleaseSurvivesRestart
  <2>5. LoopsDone'
    BY <1>1, <1>2, <2>1 DEF RInv, LoopsDone, Round, Unlisted
  <2> QED
    BY <2>2, <2>3, <2>4, <2>5 DEF RInv
<1>3. CASE Unlisted(k)
  <2>1. PICK s \in {"FILLED", "CANCELLED"} :
           /\ SetState(k, s)
           /\ s = "FILLED" => k \in exited /\ flagged' = flagged
           /\ s = "CANCELLED" => flagged' = flagged \cup {k}
    BY <1>1, <1>3 DEF OverrideRow
  <2>2. row' = [row EXCEPT ![k] = s] /\ k \notin pendings /\ k \notin positions
    BY <1>3, <2>1 DEF SetState, Unlisted
  <2>3. obj[k] # "resting"
    BY <1>1, <2>2 DEF RInv, SnapshotsComplete
  <2>4. Core'
    BY <1>1, <2>1, RewriteCore DEF RInv, SnapshotsTrue, Round
  <2>5. (RecoveryTypeOK /\ Calm /\ SnapshotsTrue /\ SnapshotsComplete /\ SnapshotsFresh)'
    BY <1>1, <2>1, <2>4, RoundKeeps DEF RInv, RecoveryTypeOK
  <2>6. RestsHeld'
    BY <1>1, <2>2, <2>3 DEF RInv, RestsHeld
  <2>7. HoldersApart'
    <3>1. \A j \in Keys : Holds(j)' => Holds(j)
      BY <1>1, <2>2 DEF Holds
    <3> QED
      BY <3>1 DEF RInv, HoldersApart
  <2>8. ReleaseSurvivesRestart'
    BY <1>1, <2>1, <2>2 DEF RInv, ReleaseSurvivesRestart
  <2>9. LoopsDone'
    BY <1>1, <2>1, <2>2 DEF RInv, LoopsDone, Round, SetState
  <2> QED
    BY <2>4, <2>5, <2>6, <2>7, <2>8, <2>9 DEF RInv
<1> QED
  BY <1>2, <1>3

\* Between two loops nothing changes but what is to do.
LEMMA LoopEndsInv ==
  ASSUME RInv,
         \/ LoopEnds("resolve", "matchPositions", positions)
         \/ LoopEnds("matchPositions", "matchPendings", pendings)
         \/ LoopEnds("matchPendings", "override", RowsIn({"FILLED", "PLACED"}))
  PROVE  RInv'
<1>1. /\ UNCHANGED <<vars, snapVars, humanVars, flagged, crashes>>
      /\ phase \in Loops /\ phase' \in Loops /\ todo' \subseteq Keys
  BY DEF RInv, RecoveryTypeOK, LoopEnds, RowsIn
<1>2. RecoveryTypeOK' /\ Core'
  BY <1>1, StutterInv DEF RInv, RecoveryTypeOK, Core
<1>3. (Calm /\ RestsHeld /\ SnapshotsTrue /\ SnapshotsComplete /\ SnapshotsFresh
       /\ HoldersApart /\ ReleaseSurvivesRestart)'
  BY <1>1 DEF vars, RInv, Calm, Unaffected, RestsHeld, SnapshotsTrue, SnapshotsComplete,
      SnapshotsFresh, HoldersApart, Holds, ReleaseSurvivesRestart
<1>4. LoopsDone'
  <2>1. row' = row /\ ticketed' = ticketed /\ positions' = positions /\ pendings' = pendings
    BY <1>1 DEF vars
  <2>2. todo = {}
    BY DEF LoopEnds
  <2>3. CASE LoopEnds("resolve", "matchPositions", positions)
    BY <2>1, <2>2, <2>3 DEF RInv, LoopsDone, LoopEnds
  <2>4. CASE LoopEnds("matchPositions", "matchPendings", pendings)
    BY <2>1, <2>2, <2>4 DEF RInv, LoopsDone, LoopEnds
  <2>5. CASE LoopEnds("matchPendings", "override", RowsIn({"FILLED", "PLACED"}))
    BY <2>1, <2>2, <2>5 DEF RInv, LoopsDone, LoopEnds, RowsIn
  <2> QED
    BY <2>3, <2>4, <2>5
<1> QED
  BY <1>2, <1>3, <1>4 DEF RInv

LEMMA ReconcileReturnsInv ==
  ASSUME RInv, ReconcileReturns
  PROVE  RInv'
<1>1. /\ UNCHANGED <<vars, humanVars, flagged, crashes>>
      /\ phase' = "running" /\ todo' = {}
      /\ positions' = {} /\ pendings' = {} /\ traded' = {} /\ exited' = {}
  BY DEF ReconcileReturns, SnapshotsGone
<1>2. RecoveryTypeOK' /\ Core'
  BY <1>1, StutterInv DEF RInv, RecoveryTypeOK, Core
<1>3. (Calm /\ RestsHeld /\ SnapshotsTrue /\ SnapshotsComplete /\ SnapshotsFresh
       /\ HoldersApart /\ LoopsDone /\ ReleaseSurvivesRestart)'
  BY <1>1 DEF vars, RInv, Calm, RestsHeld, SnapshotsTrue, SnapshotsComplete,
      SnapshotsFresh, HoldersApart, Holds, LoopsDone, ReleaseSurvivesRestart
<1> QED
  BY <1>2, <1>3 DEF RInv

-----------------------------------------------------------------------------
(* The theorems *)

LEMMA RecoveryInitInv == RecoveryInit => RInv
<1> SUFFICES ASSUME RecoveryInit
             PROVE  RInv
  OBVIOUS
<1>1. Core /\ RecoveryTypeOK
  BY InitInv DEF RecoveryInit, RecoveryTypeOK, Core
<1>2. Calm /\ SnapshotsTrue /\ SnapshotsComplete /\ SnapshotsFresh /\ LoopsDone
  BY DEF RecoveryInit, Calm, SnapshotsTrue, SnapshotsComplete, SnapshotsFresh, LoopsDone
<1>3. RestsHeld /\ HoldersApart /\ ReleaseSurvivesRestart
  BY DEF RecoveryInit, Init, RestsHeld, HoldersApart, Holds, ReleaseSurvivesRestart
<1> QED
  BY <1>1, <1>2, <1>3 DEF RInv

\* Every step, of the engine, the market, a human, a crash or the reconcile,
\* preserves the invariant.
LEMMA RecoveryNextInv == RInv /\ [RecoveryNext]_allVars => RInv'
<1> SUFFICES ASSUME RInv, [RecoveryNext]_allVars
             PROVE  RInv'
  OBVIOUS
<1>1. CASE Running
  BY <1>1, RunningInv
<1>2. CASE MarketMoves \/ \E k \in Keys : HumanActs(k)
  BY <1>2, MarketInv
<1>3. CASE Crash \/ Restart
  BY <1>3, CrashInv, RestartInv
<1>4. CASE Reconcile
  BY <1>4, PositionsGetInv, OrdersGetInv, DealsGetInv, ResolveRowInv, MatchPositionInv,
     MatchPendingInv, OverrideRowInv, LoopEndsInv, ReconcileReturnsInv DEF Reconcile
<1>5. CASE UNCHANGED allVars
  <2>1. Core' /\ UNCHANGED vars
    BY <1>5, StutterInv DEF RInv, allVars
  <2> QED
    BY <1>5, <2>1 DEF allVars, vars, RInv, RecoveryTypeOK, Core, Calm, Unaffected,
       RestsHeld, SnapshotsTrue, SnapshotsComplete, SnapshotsFresh, HoldersApart, Holds,
       LoopsDone, ReleaseSurvivesRestart
<1> QED
  BY <1>1, <1>2, <1>3, <1>4, <1>5 DEF RecoveryNext

\* The inductive invariant of crash and restart holds in every reachable state.
THEOREM RecoveryInductive == RecoverySpec => []RInv
  BY RecoveryInitInv, RecoveryNextInv, PTL DEF RecoverySpec

\* The variables keep their types over crashes.
THEOREM RecoveryTyped == RecoverySpec => []RecoveryTypeOK
<1>1. RInv => RecoveryTypeOK
  BY DEF RInv
<1> QED
  BY <1>1, RecoveryInductive, PTL

\* However often the process dies between a send, its execution and its row, the
\* broker executes a key at most once.
THEOREM NoDuplicatesOverCrashes == RecoverySpec => []NoDuplicateExecution
<1>1. RInv => NoDuplicateExecution
  BY DEF RInv, Core, ExecutedOnce, NoDuplicateExecution
<1> QED
  BY <1>1, RecoveryInductive, PTL

\* The engine and startup_reconcile between them never put two keys of a symbol
\* in flight, though a reconcile may put back in flight a row it had just settled.
THEOREM OneInFlightOverCrashes == RecoverySpec => []OneInFlightPerSymbol
<1>1. RInv => OneInFlightPerSymbol
  BY DEF RInv, HoldersApart, Holds, OneInFlightPerSymbol
<1> QED
  BY <1>1, RecoveryInductive, PTL

\* What the reconcile makes FILLED has, or had, its position.
THEOREM FillsAreRealOverCrashes == RecoverySpec => []FilledIsReal
<1>1. RInv => FilledIsReal
  BY DEF RInv, Core
<1> QED
  BY <1>1, RecoveryInductive, PTL

\* A key that was released is dead, however the market moves while the reconcile
\* asks its three queries, unless the reconcile flagged it as an override.
THEOREM ReleasesSurvive == RecoverySpec => []ReleaseSurvivesRestart
<1>1. RInv => ReleaseSurvivesRestart
  BY DEF RInv
<1> QED
  BY <1>1, RecoveryInductive, PTL

\* When startup_reconcile returns, every row says what its snapshots said.
THEOREM Settles == RecoverySpec => SettledByBroker
<1>1. ASSUME RInv, [RecoveryNext]_allVars
      PROVE  [phase = "override" /\ phase' = "running"
              => \A k \in Keys : /\ row[k] # "UNKNOWN_OUTCOME"
                                 /\ k \in positions => row[k] = "FILLED"
                                 /\ k \in pendings => row[k] = "PLACED"
                                 /\ row[k] = "PLACED" /\ ticketed[k] => k \in pendings]_allVars
  <2> SUFFICES ASSUME phase = "override", phase' = "running"
               PROVE  \A k \in Keys : /\ row[k] # "UNKNOWN_OUTCOME"
                                      /\ k \in positions => row[k] = "FILLED"
                                      /\ k \in pendings => row[k] = "PLACED"
                                      /\ row[k] = "PLACED" /\ ticketed[k] => k \in pendings
    OBVIOUS
  <2>1. ReconcileReturns
    BY <1>1 DEF allVars, RecoveryNext, Running, MarketMoves, HumanActs, Crash, Restart,
       Reconcile, PositionsGet, OrdersGet, DealsGet, ResolveRow, MatchPosition,
       MatchPending, OverrideRow, Round, LoopEnds
  <2>2. todo = {}
    BY <2>1 DEF ReconcileReturns
  <2> QED
    BY <1>1, <2>2 DEF RInv, LoopsDone
<1> QED
  BY <1>1, RecoveryInductive, PTL DEF RecoverySpec, SettledByBroker
=============================================================================
