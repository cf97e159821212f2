--------------------------- MODULE StraddleProofs ---------------------------
(***************************************************************************)
(* Theorems about Straddle for every set of keys, calls and detections.    *)
(* To the engine, a leg deleted by the backstop or by the EA is an order   *)
(* that expired: what ExecutionProofs shows holds here too.                *)
(***************************************************************************)
EXTENDS Straddle, ExecutionProofs

USE EngineAssumption, StraddleAssumption
    DEF PCs, OwningPCs, SendingPCs, ResolvingPCs, QueryPCs, EndPCs, RowStates, Objects,
    Replies, Acks, Refusals, Live, storeVars, callVars, brokerVars, Owns, SendQueued

\* A leg's sibling is the other leg of its straddle, and so mutual.
LEMMA SiblingIsLeg ==
  ASSUME NEW k \in Legs
  PROVE  /\ Sibling(k) \in Legs /\ Sibling(k) # k
         /\ Sibling(Sibling(k)) = k
<1>1. ASSUME NEW l \in Legs
      PROVE  /\ Sibling(l) \in Legs /\ Sibling(l) # l /\ SameStraddle(Sibling(l), l)
             /\ \A i \in Legs \ {l} : SameStraddle(i, l) => i = Sibling(l)
  <2>1. PICK j \in Legs : /\ j # l /\ SameStraddle(j, l)
                          /\ \A i \in Legs \ {l} : SameStraddle(i, l) => i = j
    OBVIOUS
  <2>2. Sibling(l) \in Legs /\ Sibling(l) # l /\ SameStraddle(Sibling(l), l)
    BY <2>1, Zenon DEF Sibling
  <2> QED
    BY <2>1, <2>2
<1>2. SameStraddle(k, Sibling(k))
  BY <1>1 DEF SameStraddle, Legs
<1> QED
  BY <1>1, <1>2

-----------------------------------------------------------------------------
(* The engine inside *)

\* Deleting an order is an expiry to the engine, or nothing.
LEMMA DeletionExpires ==
  ASSUME NEW k \in Keys, Deletes(k)
  PROVE  Expire(k) \/ UNCHANGED vars
  BY DEF Deletes, Expire, Becomes, vars

\* Every step of the composition is a step of the engine or invisible to it.
LEMMA StepIsEngine == [StraddleNext]_svars => [Next]_vars
<1> SUFFICES ASSUME [StraddleNext]_svars
             PROVE  [Next]_vars
  OBVIOUS
<1>1. CASE EngineStep
  BY <1>1 DEF EngineStep, Next, EngineNext
<1>2. ASSUME NEW k \in Keys, ExecuteRemove(k)
      PROVE  [Next]_vars
  BY <1>2, DeletionExpires DEF ExecuteRemove, Next, Market
<1>3. ASSUME NEW k \in Keys, EaSeesFill(k)
      PROVE  [Next]_vars
  <2>1. k \in Legs /\ Sibling(k) \in Keys
    BY <1>3, SiblingIsLeg DEF EaSeesFill, Legs
  <2> QED
    BY <1>3, <2>1, DeletionExpires DEF EaSeesFill, Next, Market
<1>4. CASE \E k \in Keys : Register(k)
  BY <1>4 DEF Register
<1>5. CASE \E d \in Detections : DetectionStep(d) \/ \E k \in Keys : Detect(d, k)
  BY <1>5 DEF DetectionStep, Check, Mark, LooksUp, SendsRemove, DetectionFails, Detect
<1>6. CASE EaLearns
  BY <1>6 DEF EaLearns
<1>7. CASE UNCHANGED svars
  BY <1>7 DEF svars
<1> QED
  BY <1>1, <1>2, <1>3, <1>4, <1>5, <1>6, <1>7 DEF StraddleNext

\* register_oco, on_fill_detected and the EA change nothing of the order path
\* but what the market might do as well.
THEOREM StraddleIsEngine == StraddleSpec => Spec
<1>1. StraddleInit => Init
  BY DEF StraddleInit
<1> QED
  BY <1>1, StepIsEngine, PTL DEF StraddleSpec, Spec

\* With the backstop and the EA beside it, too, a key that was released has
\* nothing live at the broker and no send on its way.
THEOREM LegsReleasedAreDead == StraddleSpec => []ReleasedIsDead
  BY StraddleIsEngine, ReleasedAreDead, PTL
-----------------------------------------------------------------------------
(* A ticket settles its key *)

\* Once a row has its ticket, no call owns the key and no send of it is left:
\* nothing more will be executed for it.
Settled(k) == /\ row[k] # "NONE"
              /\ ~SendQueued(k)
              /\ \A c \in Calls : KeyOf[c] = k => ~Owns(c)

TicketSettles == \A k \in Keys : ticketed[k] => Settled(k)

\* A ticket is never taken back.
TicketStays == \A k \in Keys : ticketed[k] => ticketed'[k]

\* A call that writes a ticket has read the answer of its last send, and ends.
LEMMA CallSettles ==
  ASSUME Core, TicketSettles, NEW c \in Calls,
         LookUp(c) \/ CallStep(c) \/ ExecuteSend(c)
  PROVE  TicketSettles' /\ TicketStays
<1>1. CASE LookUp(c) \/ FuseCheck(c)
  BY <1>1 DEF Core, TypeOK, TicketSettles, TicketStays, Settled, LookUp, FuseCheck,
      Goto, Ends, Returns, Rejects, SetState
<1>2. CASE TryClaim(c)
  BY <1>2 DEF Core, TypeOK, TicketSettles, TicketStays, Settled, TryClaim, Goto, Ends,
      Returns, SetState
<1>3. CASE Send(c)
  BY <1>3 DEF Core, TypeOK, TicketSettles, TicketStays, Settled, Send
<1>4. CASE ExecuteSend(c)
  BY <1>4 DEF Core, TypeOK, TicketSettles, TicketStays, Settled, ExecuteSend
<1>5. CASE ReadPartial(c)
  BY <1>5 DEF Core, TypeOK, OneOwner, QueuedSend, Answered, TicketSettles, TicketStays,
      Settled, ReadPartial, Reads, Ends, Returns, SetStateTicket
<1>6. CASE ReadAck(c) \/ ReadUnknown(c) \/ RetryRefresh(c) \/ RecomputeStops(c)
           \/ RetryOnce(c) \/ SwitchFilling(c)
  BY <1>6 DEF Core, TypeOK, TicketSettles, TicketStays, Settled, ReadAck, ReadUnknown,
      RetryRefresh, RecomputeStops, RetryOnce, SwitchFilling, Spends, Reads, Goto,
      Ends, Returns, Rejects, SetState
<1>7. CASE ReadRefusal(c) \/ Refresh(c) \/ QueryFails(c)
  BY <1>7 DEF Core, TypeOK, TicketSettles, TicketStays, Settled, ReadRefusal, Refresh,
      QueryFails, Reads, QueryRuns, Goto, Ends, Returns, Rejects, SetState
<1>8. CASE VerifyFill(c) \/ VerifyPlaced(c) \/ ResolvePositions(c)
           \/ ResolveOrders(c) \/ ResolveDeals(c)
  BY <1>8 DEF Core, TypeOK, OneOwner, TicketSettles, TicketStays, Settled, VerifyFill,
      VerifyPlaced, ResolvePositions, ResolveOrders, ResolveDeals, QueryRuns,
      OrderJobQueued, Goto, Ends, Returns, SetState, SetStateTicket
<1> QED
  BY <1>1, <1>2, <1>3, <1>4, <1>5, <1>6, <1>7, <1>8 DEF CallStep

\* No other step of the engine gives a ticket or queues a send.
LEMMA NextSettles == Core /\ TicketSettles /\ [Next]_vars => TicketSettles' /\ TicketStays
<1> SUFFICES ASSUME Core, TicketSettles, [Next]_vars
             PROVE  TicketSettles' /\ TicketStays
  OBVIOUS
<1>1. ASSUME NEW c \in Calls, LookUp(c) \/ CallStep(c) \/ ExecuteSend(c)
      PROVE  TicketSettles' /\ TicketStays
  BY <1>1, CallSettles
<1>2. ASSUME NEW k \in Keys,
             CancelStep(k) \/ CancelExecute(k) \/ Trigger(k) \/ Expire(k) \/ Close(k)
      PROVE  TicketSettles' /\ TicketStays
  BY <1>2 DEF Core, TypeOK, TicketSettles, TicketStays, Settled, CancelStep, CancelSend,
      CancelTimeout, CancelReturns, CancelExecute, Trigger, Expire, Close, Becomes, SetState
<1>3. CASE UNCHANGED vars
  BY <1>3 DEF TicketSettles, TicketStays, Settled, vars
<1> QED
  BY <1>1, <1>2, <1>3 DEF Next, EngineNext, Worker, Market

\* Once a ticketed key has no resting order, it never has one again.
LEMMA NothingRestsAgain ==
  ASSUME Core, TicketSettles, [Next]_vars, NEW k \in Keys, ticketed[k], obj[k] # "resting"
  PROVE  obj'[k] # "resting"
<1>1. ASSUME NEW c \in Calls, ExecuteSend(c)
      PROVE  obj'[k] # "resting"
  BY <1>1 DEF Core, TypeOK, TicketSettles, Settled, ExecuteSend
<1>2. ASSUME NEW j \in Keys, CancelExecute(j) \/ Trigger(j) \/ Expire(j) \/ Close(j)
      PROVE  obj'[k] # "resting"
  BY <1>2 DEF Core, TypeOK, CancelExecute, Trigger, Expire, Close, Becomes
<1>3. ASSUME NEW c \in Calls, LookUp(c) \/ CallStep(c)
      PROVE  obj' = obj
  BY <1>3 DEF LookUp, CallStep, TryClaim, FuseCheck, Send, ReadAck, ReadPartial,
      ReadUnknown, RetryRefresh, RecomputeStops, RetryOnce, SwitchFilling, ReadRefusal,
      Refresh, VerifyFill, VerifyPlaced, ResolvePositions, ResolveOrders, ResolveDeals,
      QueryFails
<1>4. ASSUME NEW j \in Keys, CancelStep(j)
      PROVE  obj' = obj
  BY <1>4 DEF CancelStep, CancelSend, CancelTimeout, CancelReturns
<1>5. CASE UNCHANGED vars
  BY <1>5 DEF vars
<1> QED
  BY <1>1, <1>2, <1>3, <1>4, <1>5 DEF Next, EngineNext, Worker, Market
-----------------------------------------------------------------------------
(* The backstop *)

\* A detection that got its leg's entry of _oco_map and has not found the
\* sibling cancelled.
Claiming == {"check", "mark", "query", "remove", "wait", "done", "raised"}

OcoTypes == /\ det \in [Detections -> Claiming \cup {"idle", "nothing"}]
            /\ leg \in [Detections -> Legs]
            /\ removes \in [Keys -> Nat]

\* An entry is in the map only after both tickets were known.
Registered == /\ mapped \subseteq ocoReg /\ ocoReg \subseteq Legs
              /\ ocoReg # {} => BothTicketed

\* An entry that was popped does not come back, and one detection has it.
PoppedOnce == /\ \A d \in Detections : det[d] \in Claiming => leg[d] \in ocoReg \ mapped
              /\ \A d, e \in Detections :
                   det[d] \in Claiming /\ det[e] \in Claiming /\ leg[d] = leg[e] => d = e

\* A REMOVE was sent by a detection that is past sending it.
RemoveSent == \A k \in Keys :
                /\ removes[k] <= 1
                /\ removes[k] = 1 => \E d \in Detections :
                     det[d] \in {"wait", "done", "raised"} /\ Sibling(leg[d]) = k

OcoInv == OcoTypes /\ Registered /\ PoppedOnce /\ RemoveSent /\ BackstopFrees

\* Two legs with one sibling are one leg.
LEMMA SiblingsDiffer ==
  ASSUME NEW j \in Legs, NEW k \in Legs, Sibling(j) = Sibling(k)
  PROVE  j = k
  BY SiblingIsLeg

\* What was freed stays so: neither the engine nor the market brings the order
\* back, and a refusal is not forgotten.
LEMMA FreedStays ==
  ASSUME Core, TicketSettles, OcoInv, [Next]_vars, refused \subseteq refused',
         NEW d \in Detections, det[d] = "done"
  PROVE  obj'[Sibling(leg[d])] # "resting" \/ Sibling(leg[d]) \in refused'
<1> DEFINE s == Sibling(leg[d])
<1>1. leg[d] \in Legs /\ s \in Legs /\ s \in Keys /\ ocoReg # {}
  BY SiblingIsLeg DEF OcoInv, OcoTypes, PoppedOnce, Claiming, Legs
<1>2. ticketed[s]
  BY <1>1 DEF OcoInv, Registered, BothTicketed
<1>3. obj[s] # "resting" \/ s \in refused
  BY DEF OcoInv, BackstopFrees
<1> QED
  BY <1>1, <1>2, <1>3, NothingRestsAgain

\* The engine, the market and the EA leave the backstop's state alone.
LEMMA OthersKeepOco ==
  ASSUME Core, TicketSettles, OcoInv, [Next]_vars, refused \subseteq refused',
         UNCHANGED <<mapped, marked, det, leg, removes, oJobs, ocoReg>>
  PROVE  OcoInv'
<1>1. BothTicketed => BothTicketed'
  BY NextSettles DEF TicketStays, BothTicketed, Legs
<1>2. (OcoTypes /\ Registered /\ PoppedOnce /\ RemoveSent)'
  BY <1>1 DEF OcoInv, OcoTypes, Registered, PoppedOnce, RemoveSent
<1>3. BackstopFrees'
  BY FreedStays DEF OcoInv, BackstopFrees
<1> QED
  BY <1>2, <1>3 DEF OcoInv

LEMMA RegisterOco == ASSUME OcoInv, NEW k \in Keys, Register(k) PROVE OcoInv'
  BY DEF OcoInv, OcoTypes, Registered, PoppedOnce, RemoveSent, BackstopFrees,
     BothTicketed, Register, vars

LEMMA DetectOco ==
  ASSUME OcoInv, NEW d \in Detections, NEW k \in Keys, Detect(d, k)
  PROVE  OcoInv'
<1>1. k \in Legs /\ det[d] = "idle"
  BY DEF Detect
<1>2. (OcoTypes /\ Registered /\ PoppedOnce)'
  BY <1>1 DEF OcoInv, OcoTypes, Registered, PoppedOnce, BothTicketed, Claiming, Detect, vars
<1>3. \A e \in Detections : det[e] \in {"wait", "done", "raised"}
                               => det'[e] = det[e] /\ leg'[e] = leg[e]
  BY <1>1 DEF OcoInv, OcoTypes, Detect
<1>4. RemoveSent'
  BY <1>3 DEF OcoInv, RemoveSent, Detect
<1>5. BackstopFrees'
  BY <1>1 DEF OcoInv, OcoTypes, BackstopFrees, Detect, vars
<1> QED
  BY <1>2, <1>4, <1>5 DEF OcoInv

\* On its way a detection keeps its leg and looks at its sibling's order last.
LEMMA DetectionOco ==
  ASSUME OcoInv, NEW d \in Detections,
         Check(d) \/ Mark(d) \/ LooksUp(d) \/ DetectionFails(d)
  PROVE  OcoInv'
<1>1. (OcoTypes /\ Registered /\ PoppedOnce)'
  BY DEF OcoInv, OcoTypes, Registered, PoppedOnce, BothTicketed, Claiming,
     Check, Mark, LooksUp, DetectionFails, vars
<1>2. \A e \in Detections : det[e] \in {"wait", "done", "raised"}
                               => det'[e] \in {"wait", "done", "raised"}
  BY DEF OcoInv, OcoTypes, Check, Mark, LooksUp, DetectionFails
<1>3. leg' = leg /\ removes' = removes
  BY DEF Check, Mark, LooksUp, DetectionFails
<1>4. RemoveSent'
  BY <1>2, <1>3 DEF OcoInv, RemoveSent
<1>5. BackstopFrees'
  BY DEF OcoInv, OcoTypes, BackstopFrees, Check, Mark, LooksUp, DetectionFails, vars
<1> QED
  BY <1>1, <1>4, <1>5 DEF OcoInv

\* Whoever sent a REMOVE for the sibling before would have had the same leg.
LEMMA SendsRemoveOco ==
  ASSUME OcoInv, NEW d \in Detections, SendsRemove(d)
  PROVE  OcoInv'
<1> DEFINE s == Sibling(leg[d])
<1>1. /\ det[d] = "remove" /\ leg[d] \in Legs /\ s \in Keys
      /\ det' = [det EXCEPT ![d] = "wait"] /\ leg' = leg
      /\ removes' = [removes EXCEPT ![s] = @ + 1]
  BY SiblingIsLeg DEF OcoInv, OcoTypes, SendsRemove, Legs
<1>2. removes[s] = 0
  <2> SUFFICES ASSUME removes[s] # 0
               PROVE  FALSE
    OBVIOUS
  <2>1. removes[s] = 1
    BY <1>1 DEF OcoInv, OcoTypes, RemoveSent
  <2>2. PICK e \in Detections : det[e] \in {"wait", "done", "raised"} /\ Sibling(leg[e]) = s
    BY <1>1, <2>1 DEF OcoInv, RemoveSent
  <2>3. leg[e] = leg[d]
    BY <1>1, <2>2, SiblingsDiffer DEF OcoInv, OcoTypes
  <2> QED
    BY <1>1, <2>2, <2>3 DEF OcoInv, PoppedOnce, Claiming
<1>3. (OcoTypes /\ Registered /\ PoppedOnce)'
  BY <1>1 DEF OcoInv, OcoTypes, Registered, PoppedOnce, BothTicketed, Claiming,
     SendsRemove, vars
<1>4. RemoveSent'
  <2> SUFFICES ASSUME NEW k \in Keys
               PROVE  /\ removes'[k] <= 1
                      /\ removes'[k] = 1 => \E e \in Detections :
                           det'[e] \in {"wait", "done", "raised"} /\ Sibling(leg'[e]) = k
    BY DEF RemoveSent
  <2>1. CASE k = s
    BY <1>1, <1>2, <2>1 DEF OcoInv, OcoTypes
  <2>2. CASE k # s
    BY <1>1, <2>2 DEF OcoInv, OcoTypes, RemoveSent
  <2> QED
    BY <2>1, <2>2
<1>5. BackstopFrees'
  BY <1>1 DEF OcoInv, OcoTypes, BackstopFrees, SendsRemove, vars
<1> QED
  BY <1>3, <1>4, <1>5 DEF OcoInv

\* The REMOVE that ran is what its waiting detections learn of.
LEMMA ExecuteRemoveOco ==
  ASSUME Core, TicketSettles, OcoInv, NEW k \in Keys, ExecuteRemove(k)
  PROVE  OcoInv'
<1>1. [Next]_vars /\ refused \subseteq refused'
  BY DeletionExpires DEF ExecuteRemove, Deletes, Next, Market
<1>2. \A e \in Detections :
        /\ det'[e] \in Claiming <=> det[e] \in Claiming
        /\ det[e] \in {"wait", "done", "raised"} => det'[e] \in {"wait", "done", "raised"}
  BY DEF ExecuteRemove, Claiming
<1>3. OcoTypes'
  BY DEF OcoInv, OcoTypes, ExecuteRemove, Claiming
<1>4. BothTicketed => BothTicketed'
  BY <1>1, NextSettles DEF TicketStays, BothTicketed, Legs
<1>5. (Registered /\ PoppedOnce)'
  BY <1>2, <1>4 DEF OcoInv, Registered, PoppedOnce, ExecuteRemove
<1>6. RemoveSent'
  BY <1>2 DEF OcoInv, RemoveSent, ExecuteRemove
<1>7. BackstopFrees'
  <2> SUFFICES ASSUME NEW d \in Detections, det'[d] = "done"
               PROVE  obj'[Sibling(leg[d])] # "resting" \/ Sibling(leg[d]) \in refused'
    BY DEF BackstopFrees, ExecuteRemove
  <2>1. CASE det[d] = "done"
    BY <1>1, <2>1, FreedStays
  <2>2. CASE det[d] # "done"
    BY <2>2 DEF Core, TypeOK, ExecuteRemove, Deletes
  <2> QED
    BY <2>1, <2>2
<1> QED
  BY <1>3, <1>5, <1>6, <1>7 DEF OcoInv

\* Every step of the composition preserves what the backstop relies on.
LEMMA OcoNext ==
  ASSUME Core, TicketSettles, OcoInv, [StraddleNext]_svars
  PROVE  OcoInv'
<1>1. [Next]_vars
  BY StepIsEngine
<1>2. CASE EngineStep \/ EaLearns \/ UNCHANGED svars
  BY <1>1, <1>2, OthersKeepOco DEF EngineStep, EaLearns, ocoVars, svars
<1>3. ASSUME NEW k \in Keys, EaSeesFill(k)
      PROVE  OcoInv'
  BY <1>1, <1>3, OthersKeepOco DEF EaSeesFill, Deletes
<1>4. ASSUME NEW k \in Keys, Register(k) \/ ExecuteRemove(k)
      PROVE  OcoInv'
  BY <1>4, RegisterOco, ExecuteRemoveOco
<1>5. ASSUME NEW d \in Detections, DetectionStep(d) \/ \E k \in Keys : Detect(d, k)
      PROVE  OcoInv'
  BY <1>5, DetectOco, DetectionOco, SendsRemoveOco DEF DetectionStep
<1> QED
  BY <1>2, <1>3, <1>4, <1>5 DEF StraddleNext

\* Of a straddle that nobody placed nothing is registered, detected or removed.
LEMMA OcoInit == StraddleInit => TicketSettles /\ OcoInv
<1> SUFFICES ASSUME StraddleInit
             PROVE  TicketSettles /\ OcoInv
  OBVIOUS
<1>1. TicketSettles
  BY DEF StraddleInit, Init, TicketSettles
<1>2. OcoTypes
  BY DEF StraddleInit, OcoTypes
<1> QED
  BY <1>1, <1>2 DEF StraddleInit, OcoInv, Registered, PoppedOnce, RemoveSent,
     BackstopFrees, Claiming

\* The backstop's invariant, beside the engine's, holds in every reachable state.
THEOREM OcoInductive == StraddleSpec => [](Core /\ TicketSettles /\ OcoInv)
<1>1. IInv => Core
  BY DEF IInv
<1>2. Core /\ TicketSettles /\ [StraddleNext]_svars => TicketSettles'
  BY StepIsEngine, NextSettles
<1> QED
  BY <1>1, <1>2, StraddleIsEngine, Inductive, OcoInit, OcoNext, PTL DEF StraddleSpec

\* However often fills of either leg are reported, on_fill_detected sends at most
\* one REMOVE for a leg.
THEOREM OneRemove == StraddleSpec => []CancelsOnce
<1>1. OcoInv => CancelsOnce
  BY DEF OcoInv, RemoveSent, CancelsOnce
<1> QED
  BY <1>1, OcoInductive, PTL

\* A detection that went through leaves no resting sibling behind, now or later,
\* but for one the broker refused to delete.
THEOREM FreesTheSibling == StraddleSpec => []BackstopFrees
<1>1. OcoInv => BackstopFrees
  BY DEF OcoInv
<1> QED
  BY <1>1, OcoInductive, PTL
=============================================================================
