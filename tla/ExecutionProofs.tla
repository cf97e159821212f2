-------------------------- MODULE ExecutionProofs --------------------------
(***************************************************************************)
(* Theorems about ExecutionEngine for every set of keys and calls: its     *)
(* invariants, that it implements IntentProtocol, and how often a call may *)
(* send.                                                                   *)
(***************************************************************************)
EXTENDS ExecutionEngine, FiniteSetTheorems, TLAPS

Owns(c) == pc[c] \in OwningPCs

(* The inductive invariant, part by part *)

\* A reply is there only for a call that waits.
ReplyAwaited == \A c \in Calls : pc[c] # "wait" => reply[c] = "none"

\* The broker has an object for exactly the keys it executed, once each.
ExecutedOnce == \A k \in Keys : /\ exec[k] \in {0, 1}
                                /\ exec[k] = 0 <=> obj[k] = "none"

\* Nobody has touched a key without a row.
Unclaimed == \A k \in Keys : row[k] = "NONE"
                => /\ exec[k] = 0
                   /\ ~SendQueued(k)
                   /\ \A c \in Calls : KeyOf[c] = k => ~Owns(c)

OneOwner == \A c, d \in Calls : Owns(c) /\ Owns(d) /\ KeyOf[c] = KeyOf[d] => c = d

\* While a call owns its key, the row says how far it got.
OwnedRow == \A c \in Calls :
                /\ pc[c] \in SendingPCs => row[KeyOf[c]] = "ARMED"
                /\ pc[c] \in ResolvingPCs => row[KeyOf[c]] = "UNKNOWN_OUTCOME"

\* A queued send is the only one of its key, nothing of it has been executed,
\* and only the call that queued it may still own the key.
QueuedSend == \A c \in queue :
                /\ exec[KeyOf[c]] = 0
                /\ row[KeyOf[c]] \in {"ARMED", "UNKNOWN_OUTCOME"}
                /\ pc[c] \in {"wait", "positions", "raised"}
                /\ reply[c] = "none"
                /\ \A d \in queue : KeyOf[d] = KeyOf[c] => d = c
                /\ \A d \in Calls : Owns(d) /\ KeyOf[d] = KeyOf[c] => d = c

\* A call about to send knows that the key is unexecuted and not on its way.
BeforeSend == \A c \in Calls : pc[c] \in {"fuse", "send", "refresh"}
                => exec[KeyOf[c]] = 0 /\ ~SendQueued(KeyOf[c])

Answered == \A c \in Calls : pc[c] = "wait" /\ c \notin queue
                => /\ reply[c] \in Replies
                   /\ reply[c] \in Refusals => exec[KeyOf[c]] = 0
                   /\ ~SendQueued(KeyOf[c])

\* A query answered after the send's: the send is over.
SendIsOver == \A c \in Calls : pc[c] \in {"verify", "pverify", "orders", "deals"}
                => ~SendQueued(KeyOf[c])

NotResting == \A c \in Calls : pc[c] = "deals" => obj[KeyOf[c]] # "resting"

\* What a recorded placement and a cancel under way say of each other.
PlacedIsReal == \A k \in Keys : /\ row[k] = "PLACED" => exec[k] = 1
                                /\ canc[k] \in {"queued", "ok", "failed"} => row[k] = "PLACED"
                                /\ canc[k] = "ok" => obj[k] = "gone"

\* What holds of the engine whatever a restart made of the rows.
Core == /\ TypeOK
        /\ ReplyAwaited /\ ExecutedOnce /\ Unclaimed /\ OneOwner /\ OwnedRow
        /\ QueuedSend /\ BeforeSend /\ Answered /\ SendIsOver /\ NotResting
        /\ PlacedIsReal /\ FilledIsReal

IInv == Core /\ ReleasedIsDead

\* ReleasedIsDead of one key, and a step that no key it holds of escapes.
Dead(k) == row[k] \in {"REJECTED", "CANCELLED"} => obj[k] \notin Live /\ ~SendQueued(k)
StaysDead == \A k \in Keys : Dead(k) => Dead(k)'

USE EngineAssumption DEF PCs, OwningPCs, SendingPCs, ResolvingPCs, QueryPCs, EndPCs,
    RowStates, Objects, Replies, Acks, Refusals, Live, storeVars, callVars, brokerVars,
    Owns, SendQueued

\* Writing a row, with or without its ticket, keeps the store well typed.
LEMMA StoredType ==
  ASSUME TypeOK, NEW k \in Keys, NEW s \in RowStates,
         SetState(k, s) \/ SetStateTicket(k, s)
  PROVE  row' \in [Keys -> RowStates] /\ ticketed' \in [Keys -> BOOLEAN]
<1>1. row' = [row EXCEPT ![k] = s]
  BY DEF SetState, SetStateTicket
<1>2. row' \in [Keys -> RowStates]
  BY <1>1 DEF TypeOK
<1>3. ticketed' = ticketed \/ ticketed' = [ticketed EXCEPT ![k] = TRUE]
  BY DEF SetState, SetStateTicket
<1>4. ticketed' \in [Keys -> BOOLEAN]
  BY <1>3, Zenon DEF TypeOK
<1> QED
  BY <1>2, <1>4

\* A call that ends keeps its locals well typed.
LEMMA EndsType ==
  ASSUME TypeOK, NEW c \in Calls, NEW l \in EndPCs, Ends(c, l)
  PROVE  /\ pc' \in [Calls -> PCs]
         /\ attempt' \in [Calls -> Nat]
         /\ used' \in [Calls -> SUBSET {"stops", "extra", "filling"}]
  BY DEF TypeOK, Ends

\* A lookup writes nothing.
LEMMA LookUpInv ==
  ASSUME Core, NEW c \in Calls, LookUp(c)
  PROVE  Core' /\ StaysDead
<1>1. TypeOK'
  BY DEF Core, TypeOK, LookUp, Goto, Ends, Returns
<1>2. (ReplyAwaited /\ ExecutedOnce /\ Unclaimed /\ OneOwner /\ OwnedRow
       /\ QueuedSend /\ BeforeSend /\ Answered /\ SendIsOver /\ NotResting
       /\ PlacedIsReal /\ FilledIsReal)'
  BY DEF Core, TypeOK, ReplyAwaited, ExecutedOnce, Unclaimed, OneOwner,
      OwnedRow, QueuedSend, BeforeSend, Answered, SendIsOver, NotResting,
      PlacedIsReal, FilledIsReal, LookUp, Goto, Ends, Returns
<1>3. StaysDead
  BY DEF Core, TypeOK, QueuedSend, StaysDead, Dead, LookUp, Goto, Ends, Returns
<1> QED
  BY <1>1, <1>2, <1>3 DEF Core

\* A claim finds the key without a row, so unexecuted, unsent and unowned.
LEMMA TryClaimInv ==
  ASSUME Core, NEW c \in Calls, TryClaim(c)
  PROVE  Core' /\ StaysDead
<1>1. TypeOK'
  BY DEF Core, TypeOK, TryClaim, Goto, Ends, Returns, SetState
<1>2. OneOwner'
  BY DEF Core, TypeOK, OneOwner, OwnedRow, TryClaim, Goto, Ends, Returns,
      SetState
<1>3. BeforeSend'
  BY DEF Core, TypeOK, Unclaimed, BeforeSend, TryClaim, Goto, Ends, Returns,
      SetState
<1>4. (ReplyAwaited /\ ExecutedOnce /\ Unclaimed /\ OwnedRow /\ QueuedSend
       /\ Answered /\ SendIsOver /\ NotResting /\ PlacedIsReal /\ FilledIsReal)'
  BY DEF Core, TypeOK, ReplyAwaited, ExecutedOnce, Unclaimed, OwnedRow,
      QueuedSend, Answered, SendIsOver, NotResting, PlacedIsReal, FilledIsReal,
      TryClaim, Goto, Ends, Returns, SetState
<1>5. StaysDead
  BY DEF Core, TypeOK, QueuedSend, StaysDead, Dead, TryClaim, Goto, Ends,
      Returns, SetState
<1> QED
  BY <1>1, <1>2, <1>3, <1>4, <1>5 DEF Core

\* A call stopped by the fuse has sent nothing: its key may be released.
LEMMA FuseCheckInv ==
  ASSUME Core, NEW c \in Calls, FuseCheck(c)
  PROVE  Core' /\ StaysDead
<1>1. TypeOK'
  BY DEF Core, TypeOK, FuseCheck, Goto, Ends, Returns, Rejects, SetState
<1>2. OwnedRow'
  BY DEF Core, TypeOK, OneOwner, OwnedRow, FuseCheck, Goto, Ends, Returns,
      Rejects, SetState
<1>3. PlacedIsReal'
  BY DEF Core, TypeOK, OwnedRow, PlacedIsReal, FuseCheck, Goto, Ends, Returns,
      Rejects, SetState
<1>4. StaysDead
  BY DEF Core, TypeOK, ExecutedOnce, BeforeSend, StaysDead, Dead, FuseCheck,
      Goto, Ends, Returns, Rejects, SetState
<1>5. (ReplyAwaited /\ ExecutedOnce /\ Unclaimed /\ OneOwner /\ QueuedSend
       /\ BeforeSend /\ Answered /\ SendIsOver /\ NotResting /\ FilledIsReal)'
  BY DEF Core, TypeOK, ReplyAwaited, ExecutedOnce, Unclaimed, OneOwner,
      QueuedSend, BeforeSend, Answered, SendIsOver, NotResting, FilledIsReal,
      FuseCheck, Goto, Ends, Returns, Rejects, SetState
<1> QED
  BY <1>1, <1>2, <1>3, <1>4, <1>5 DEF Core

\* The owner of a key queues the only send of that key.
LEMMA SendInv ==
  ASSUME Core, NEW c \in Calls, Send(c)
  PROVE  Core' /\ StaysDead
<1>1. TypeOK'
  <2>1. attempt' \in [Calls -> Nat]
    <3>1. attempt[c] + 1 \in Nat
      BY DEF Core, TypeOK
    <3> QED
      BY <3>1 DEF Core, TypeOK, Send
  <2>2. pc' \in [Calls -> PCs] /\ queue' \subseteq Calls /\ blown' \in BOOLEAN
    BY DEF Core, TypeOK, Send
  <2> QED
    BY <2>1, <2>2 DEF Core, TypeOK, Send
<1>2. QueuedSend'
  BY DEF Core, TypeOK, ReplyAwaited, OneOwner, OwnedRow, QueuedSend, BeforeSend,
      Send
<1>3. BeforeSend'
  BY DEF Core, TypeOK, OneOwner, BeforeSend, Send
<1>4. Answered'
  BY DEF Core, TypeOK, OneOwner, Answered, Send
<1>5. SendIsOver'
  BY DEF Core, TypeOK, OneOwner, SendIsOver, Send
<1>6. StaysDead
  BY DEF Core, TypeOK, OwnedRow, StaysDead, Dead, Send
<1>7. (ReplyAwaited /\ ExecutedOnce /\ Unclaimed /\ OneOwner /\ OwnedRow
       /\ NotResting /\ PlacedIsReal /\ FilledIsReal)'
  BY DEF Core, TypeOK, ReplyAwaited, ExecutedOnce, Unclaimed, OneOwner,
      OwnedRow, NotResting, PlacedIsReal, FilledIsReal, Send
<1> QED
  BY <1>1, <1>2, <1>3, <1>4, <1>5, <1>6, <1>7 DEF Core

\* What the worker executes was unexecuted, whether or not its caller still
\* waits: the caller that timed out can only be at its first query.
LEMMA ExecuteSendInv ==
  ASSUME Core, NEW c \in Calls, ExecuteSend(c)
  PROVE  Core' /\ StaysDead
<1>1. TypeOK'
  BY DEF Core, TypeOK, ExecuteSend, MayAnswer
<1>2. ExecutedOnce'
  BY DEF Core, TypeOK, ExecutedOnce, QueuedSend, ExecuteSend, MayAnswer
<1>3. Answered'
  BY DEF Core, TypeOK, QueuedSend, Answered, ExecuteSend, MayAnswer
<1>4. NotResting'
  BY DEF Core, TypeOK, QueuedSend, NotResting, ExecuteSend, MayAnswer
<1>5. PlacedIsReal'
  BY DEF Core, TypeOK, QueuedSend, PlacedIsReal, ExecuteSend, MayAnswer
<1>6. FilledIsReal'
  BY DEF Core, TypeOK, QueuedSend, FilledIsReal, ExecuteSend, MayAnswer
<1>7. (ReplyAwaited /\ Unclaimed /\ OneOwner /\ OwnedRow /\ QueuedSend
       /\ BeforeSend /\ SendIsOver)'
  BY DEF Core, TypeOK, ReplyAwaited, Unclaimed, OneOwner, OwnedRow, QueuedSend,
      BeforeSend, SendIsOver, ExecuteSend, MayAnswer
<1>8. StaysDead
  BY DEF Core, TypeOK, QueuedSend, StaysDead, Dead, ExecuteSend, MayAnswer
<1> QED
  BY <1>1, <1>2, <1>3, <1>4, <1>5, <1>6, <1>7, <1>8 DEF Core

\* An answered send is no longer queued, so the query that follows comes after it.
LEMMA ReadAckInv ==
  ASSUME Core, NEW c \in Calls, ReadAck(c)
  PROVE  Core' /\ StaysDead
<1>1. TypeOK'
  BY DEF Core, TypeOK, ReadAck, Goto, Reads, IsMarket
<1>2. SendIsOver'
  BY DEF Core, TypeOK, QueuedSend, SendIsOver, ReadAck, Goto, Reads, IsMarket
<1>3. (ReplyAwaited /\ ExecutedOnce /\ Unclaimed /\ OneOwner /\ OwnedRow
       /\ QueuedSend /\ BeforeSend /\ Answered /\ NotResting /\ PlacedIsReal
       /\ FilledIsReal)'
  BY DEF Core, TypeOK, ReplyAwaited, ExecutedOnce, Unclaimed, OneOwner,
      OwnedRow, QueuedSend, BeforeSend, Answered, NotResting, PlacedIsReal,
      FilledIsReal, ReadAck, Goto, Reads, IsMarket
<1>4. StaysDead
  BY DEF Core, TypeOK, QueuedSend, StaysDead, Dead, ReadAck, Goto, Reads,
      IsMarket
<1> QED
  BY <1>1, <1>2, <1>3, <1>4 DEF Core

\* A partial fill is recorded as PARTIAL, never as FILLED.
LEMMA ReadPartialInv ==
  ASSUME Core, NEW c \in Calls, ReadPartial(c)
  PROVE  Core' /\ StaysDead
<1>1. TypeOK'
  BY DEF Core, TypeOK, ReadPartial, Ends, Returns, SetStateTicket, Reads,
      IsMarket
<1>2. OwnedRow'
  BY DEF Core, TypeOK, OneOwner, OwnedRow, ReadPartial, Ends, Returns,
      SetStateTicket, Reads, IsMarket
<1>3. PlacedIsReal'
  BY DEF Core, TypeOK, OwnedRow, PlacedIsReal, ReadPartial, Ends, Returns,
      SetStateTicket, Reads, IsMarket
<1>4. (ReplyAwaited /\ ExecutedOnce /\ Unclaimed /\ OneOwner /\ QueuedSend
       /\ BeforeSend /\ Answered /\ SendIsOver /\ NotResting /\ FilledIsReal)'
  BY DEF Core, TypeOK, ReplyAwaited, ExecutedOnce, Unclaimed, OneOwner,
      QueuedSend, BeforeSend, Answered, SendIsOver, NotResting, FilledIsReal,
      ReadPartial, Ends, Returns, SetStateTicket, Reads, IsMarket
<1>5. StaysDead
  BY DEF Core, TypeOK, QueuedSend, StaysDead, Dead, ReadPartial, Ends, Returns,
      SetStateTicket, Reads, IsMarket
<1> QED
  BY <1>1, <1>2, <1>3, <1>4, <1>5 DEF Core

\* A lost answer leaves the key in flight: its send may still be queued.
LEMMA ReadUnknownInv ==
  ASSUME Core, NEW c \in Calls, ReadUnknown(c)
  PROVE  Core' /\ StaysDead
<1>1. TypeOK'
  BY DEF Core, TypeOK, ReadUnknown, Goto, SetState, Reads
<1>2. ReplyAwaited'
  BY DEF Core, TypeOK, ReplyAwaited, QueuedSend, ReadUnknown, Goto, SetState,
      Reads
<1>3. OwnedRow'
  BY DEF Core, TypeOK, OneOwner, OwnedRow, ReadUnknown, Goto, SetState, Reads
<1>4. PlacedIsReal'
  BY DEF Core, TypeOK, OwnedRow, PlacedIsReal, ReadUnknown, Goto, SetState,
      Reads
<1>5. (ExecutedOnce /\ Unclaimed /\ OneOwner /\ QueuedSend /\ BeforeSend
       /\ Answered /\ SendIsOver /\ NotResting /\ FilledIsReal)'
  BY DEF Core, TypeOK, ExecutedOnce, Unclaimed, OneOwner, QueuedSend,
      BeforeSend, Answered, SendIsOver, NotResting, FilledIsReal, ReadUnknown,
      Goto, SetState, Reads
<1>6. StaysDead
  BY DEF Core, TypeOK, QueuedSend, StaysDead, Dead, ReadUnknown, Goto, SetState,
      Reads
<1> QED
  BY <1>1, <1>2, <1>3, <1>4, <1>5, <1>6 DEF Core

\* A refused request was not executed: it may be sent again.
LEMMA RetryRefreshInv ==
  ASSUME Core, NEW c \in Calls, RetryRefresh(c)
  PROVE  Core' /\ StaysDead
<1>1. TypeOK'
  BY DEF Core, TypeOK, RetryRefresh, Goto, Reads, IsMarket
<1>2. BeforeSend'
  BY DEF Core, TypeOK, QueuedSend, BeforeSend, Answered, RetryRefresh, Goto,
      Reads, IsMarket
<1>3. (ReplyAwaited /\ ExecutedOnce /\ Unclaimed /\ OneOwner /\ OwnedRow
       /\ QueuedSend /\ Answered /\ SendIsOver /\ NotResting /\ PlacedIsReal
       /\ FilledIsReal)'
  BY DEF Core, TypeOK, ReplyAwaited, ExecutedOnce, Unclaimed, OneOwner,
      OwnedRow, QueuedSend, Answered, SendIsOver, NotResting, PlacedIsReal,
      FilledIsReal, RetryRefresh, Goto, Reads, IsMarket
<1>4. StaysDead
  BY DEF Core, TypeOK, QueuedSend, StaysDead, Dead, RetryRefresh, Goto, Reads,
      IsMarket
<1> QED
  BY <1>1, <1>2, <1>3, <1>4 DEF Core

\* As RetryRefresh, or the key is released with nothing at the broker.
LEMMA RecomputeStopsInv ==
  ASSUME Core, NEW c \in Calls, RecomputeStops(c)
  PROVE  Core' /\ StaysDead
<1>1. TypeOK'
  BY DEF Core, TypeOK, RecomputeStops, Ends, Returns, Rejects, SetState, Reads,
      Spends, IsMarket
<1>2. OwnedRow'
  BY DEF Core, TypeOK, OneOwner, OwnedRow, RecomputeStops, Ends, Returns,
      Rejects, SetState, Reads, Spends, IsMarket
<1>3. BeforeSend'
  BY DEF Core, TypeOK, QueuedSend, BeforeSend, Answered, RecomputeStops, Ends,
      Returns, Rejects, SetState, Reads, Spends, IsMarket
<1>4. PlacedIsReal'
  BY DEF Core, TypeOK, OwnedRow, PlacedIsReal, RecomputeStops, Ends, Returns,
      Rejects, SetState, Reads, Spends, IsMarket
<1>5. StaysDead
  BY DEF Core, TypeOK, ExecutedOnce, QueuedSend, Answered, StaysDead, Dead,
      RecomputeStops, Ends, Returns, Rejects, SetState, Reads, Spends, IsMarket
<1>6. (ReplyAwaited /\ ExecutedOnce /\ Unclaimed /\ OneOwner /\ QueuedSend
       /\ Answered /\ SendIsOver /\ NotResting /\ FilledIsReal)'
  BY DEF Core, TypeOK, ReplyAwaited, ExecutedOnce, Unclaimed, OneOwner,
      QueuedSend, Answered, SendIsOver, NotResting, FilledIsReal,
      RecomputeStops, Ends, Returns, Rejects, SetState, Reads, Spends, IsMarket
<1> QED
  BY <1>1, <1>2, <1>3, <1>4, <1>5, <1>6 DEF Core

\* As RetryRefresh.
LEMMA RetryOnceInv ==
  ASSUME Core, NEW c \in Calls, RetryOnce(c)
  PROVE  Core' /\ StaysDead
<1>1. TypeOK'
  BY DEF Core, TypeOK, RetryOnce, Reads, Spends, IsMarket
<1>2. BeforeSend'
  BY DEF Core, TypeOK, QueuedSend, BeforeSend, Answered, RetryOnce, Reads,
      Spends, IsMarket
<1>3. (ReplyAwaited /\ ExecutedOnce /\ Unclaimed /\ OneOwner /\ OwnedRow
       /\ QueuedSend /\ Answered /\ SendIsOver /\ NotResting /\ PlacedIsReal
       /\ FilledIsReal)'
  BY DEF Core, TypeOK, ReplyAwaited, ExecutedOnce, Unclaimed, OneOwner,
      OwnedRow, QueuedSend, Answered, SendIsOver, NotResting, PlacedIsReal,
      FilledIsReal, RetryOnce, Reads, Spends, IsMarket
<1>4. StaysDead
  BY DEF Core, TypeOK, QueuedSend, StaysDead, Dead, RetryOnce, Reads, Spends,
      IsMarket
<1> QED
  BY <1>1, <1>2, <1>3, <1>4 DEF Core

\* As RecomputeStops.
LEMMA SwitchFillingInv ==
  ASSUME Core, NEW c \in Calls, SwitchFilling(c)
  PROVE  Core' /\ StaysDead
<1>1. TypeOK'
  <2>1. CASE Spends(c, "filling", "send") /\ UNCHANGED storeVars
    BY <2>1 DEF Core, TypeOK, SwitchFilling, Reads, Spends
  <2>2. CASE Rejects(c)
    BY <2>2 DEF Core, TypeOK, SwitchFilling, Reads, Ends, Returns, Rejects, SetState
  <2> QED
    BY <2>1, <2>2 DEF SwitchFilling
<1>2. OwnedRow'
  BY DEF Core, TypeOK, OneOwner, OwnedRow, SwitchFilling, Ends, Returns,
      Rejects, SetState, Reads, Spends, IsMarket
<1>3. BeforeSend'
  BY DEF Core, TypeOK, QueuedSend, BeforeSend, Answered, SwitchFilling, Ends,
      Returns, Rejects, SetState, Reads, Spends, IsMarket
<1>4. PlacedIsReal'
  BY DEF Core, TypeOK, OwnedRow, PlacedIsReal, SwitchFilling, Ends, Returns,
      Rejects, SetState, Reads, Spends, IsMarket
<1>5. StaysDead
  BY DEF Core, TypeOK, ExecutedOnce, QueuedSend, Answered, StaysDead, Dead,
      SwitchFilling, Ends, Returns, Rejects, SetState, Reads, Spends, IsMarket
<1>6. (ReplyAwaited /\ ExecutedOnce /\ Unclaimed /\ OneOwner /\ QueuedSend
       /\ Answered /\ SendIsOver /\ NotResting /\ FilledIsReal)'
  BY DEF Core, TypeOK, ReplyAwaited, ExecutedOnce, Unclaimed, OneOwner,
      QueuedSend, Answered, SendIsOver, NotResting, FilledIsReal, SwitchFilling,
      Ends, Returns, Rejects, SetState, Reads, Spends, IsMarket
<1> QED
  BY <1>1, <1>2, <1>3, <1>4, <1>5, <1>6 DEF Core

\* A key whose last request was refused has nothing at the broker.
LEMMA ReadRefusalInv ==
  ASSUME Core, NEW c \in Calls, ReadRefusal(c)
  PROVE  Core' /\ StaysDead
<1>1. TypeOK'
  BY DEF Core, TypeOK, ReadRefusal, Ends, Returns, Rejects, SetState, Reads,
      Retryable, IsMarket
<1>2. OwnedRow'
  BY DEF Core, TypeOK, OneOwner, OwnedRow, ReadRefusal, Ends, Returns, Rejects,
      SetState, Reads, Retryable, IsMarket
<1>3. PlacedIsReal'
  BY DEF Core, TypeOK, OwnedRow, PlacedIsReal, ReadRefusal, Ends, Returns,
      Rejects, SetState, Reads, Retryable, IsMarket
<1>4. StaysDead
  BY DEF Core, TypeOK, ExecutedOnce, QueuedSend, Answered, StaysDead, Dead,
      ReadRefusal, Ends, Returns, Rejects, SetState, Reads, Retryable, IsMarket
<1>5. (ReplyAwaited /\ ExecutedOnce /\ Unclaimed /\ OneOwner /\ QueuedSend
       /\ BeforeSend /\ Answered /\ SendIsOver /\ NotResting /\ FilledIsReal)'
  BY DEF Core, TypeOK, ReplyAwaited, ExecutedOnce, Unclaimed, OneOwner,
      QueuedSend, BeforeSend, Answered, SendIsOver, NotResting, FilledIsReal,
      ReadRefusal, Ends, Returns, Rejects, SetState, Reads, Retryable, IsMarket
<1> QED
  BY <1>1, <1>2, <1>3, <1>4, <1>5 DEF Core

\* A call without a fresh tick gives up with nothing at the broker.
LEMMA RefreshInv ==
  ASSUME Core, NEW c \in Calls, Refresh(c)
  PROVE  Core' /\ StaysDead
<1>1. TypeOK'
  BY DEF Core, TypeOK, Refresh, Goto, Ends, Returns, Rejects, SetState,
      QueryRuns, OrderJobQueued
<1>2. OwnedRow'
  BY DEF Core, TypeOK, OneOwner, OwnedRow, Refresh, Goto, Ends, Returns,
      Rejects, SetState, QueryRuns, OrderJobQueued
<1>3. PlacedIsReal'
  BY DEF Core, TypeOK, OwnedRow, PlacedIsReal, Refresh, Goto, Ends, Returns,
      Rejects, SetState, QueryRuns, OrderJobQueued
<1>4. StaysDead
  BY DEF Core, TypeOK, ExecutedOnce, BeforeSend, StaysDead, Dead, Refresh, Goto,
      Ends, Returns, Rejects, SetState, QueryRuns, OrderJobQueued
<1>5. (ReplyAwaited /\ ExecutedOnce /\ Unclaimed /\ OneOwner /\ QueuedSend
       /\ BeforeSend /\ Answered /\ SendIsOver /\ NotResting /\ FilledIsReal)'
  BY DEF Core, TypeOK, ReplyAwaited, ExecutedOnce, Unclaimed, OneOwner,
      QueuedSend, BeforeSend, Answered, SendIsOver, NotResting, FilledIsReal,
      Refresh, Goto, Ends, Returns, Rejects, SetState, QueryRuns, OrderJobQueued
<1> QED
  BY <1>1, <1>2, <1>3, <1>4, <1>5 DEF Core

\* FILLED is written only when the position was seen.
LEMMA VerifyFillInv ==
  ASSUME Core, NEW c \in Calls, VerifyFill(c)
  PROVE  Core' /\ StaysDead
<1>1. TypeOK'
  <2>1. CASE obj[KeyOf[c]] = "open"
    BY <2>1, StoredType, EndsType DEF Core, TypeOK, VerifyFill, Returns
  <2>2. CASE ~(obj[KeyOf[c]] = "open")
    BY <2>2 DEF Core, TypeOK, VerifyFill, Goto, Ends, Returns, SetState, SetStateTicket
  <2> QED
    BY <2>1, <2>2
<1>2. OwnedRow'
  BY DEF Core, TypeOK, OneOwner, OwnedRow, VerifyFill, Goto, Ends, Returns,
      SetState, SetStateTicket, QueryRuns, OrderJobQueued
<1>3. PlacedIsReal'
  BY DEF Core, TypeOK, OwnedRow, PlacedIsReal, VerifyFill, Goto, Ends, Returns,
      SetState, SetStateTicket, QueryRuns, OrderJobQueued
<1>4. (ReplyAwaited /\ ExecutedOnce /\ Unclaimed /\ OneOwner /\ QueuedSend
       /\ BeforeSend /\ Answered /\ SendIsOver /\ NotResting /\ FilledIsReal)'
  BY DEF Core, TypeOK, ReplyAwaited, ExecutedOnce, Unclaimed, OneOwner,
      QueuedSend, BeforeSend, Answered, SendIsOver, NotResting, FilledIsReal,
      VerifyFill, Goto, Ends, Returns, SetState, SetStateTicket, QueryRuns,
      OrderJobQueued
<1>5. StaysDead
  BY DEF Core, TypeOK, QueuedSend, StaysDead, Dead, VerifyFill, Goto, Ends,
      Returns, SetState, SetStateTicket, QueryRuns, OrderJobQueued
<1> QED
  BY <1>1, <1>2, <1>3, <1>4, <1>5 DEF Core

\* PLACED is written only when the resting order was seen.
LEMMA VerifyPlacedInv ==
  ASSUME Core, NEW c \in Calls, VerifyPlaced(c)
  PROVE  Core' /\ StaysDead
<1>1. TypeOK'
  BY DEF Core, TypeOK, VerifyPlaced, Ends, Returns, SetStateTicket, QueryRuns,
      OrderJobQueued
<1>2. OwnedRow'
  BY DEF Core, TypeOK, OneOwner, OwnedRow, VerifyPlaced, Ends, Returns,
      SetStateTicket, QueryRuns, OrderJobQueued
<1>3. PlacedIsReal'
  BY DEF Core, TypeOK, ExecutedOnce, OwnedRow, PlacedIsReal, VerifyPlaced, Ends,
      Returns, SetStateTicket, QueryRuns, OrderJobQueued
<1>4. (ReplyAwaited /\ ExecutedOnce /\ Unclaimed /\ OneOwner /\ QueuedSend
       /\ BeforeSend /\ Answered /\ SendIsOver /\ NotResting /\ FilledIsReal)'
  BY DEF Core, TypeOK, ReplyAwaited, ExecutedOnce, Unclaimed, OneOwner,
      QueuedSend, BeforeSend, Answered, SendIsOver, NotResting, FilledIsReal,
      VerifyPlaced, Ends, Returns, SetStateTicket, QueryRuns, OrderJobQueued
<1>5. StaysDead
  BY DEF Core, TypeOK, QueuedSend, StaysDead, Dead, VerifyPlaced, Ends, Returns,
      SetStateTicket, QueryRuns, OrderJobQueued
<1> QED
  BY <1>1, <1>2, <1>3, <1>4, <1>5 DEF Core

\* The query runs on the worker after every queued send: when it answers, no
\* send of the key is left to execute.
LEMMA ResolvePositionsInv ==
  ASSUME Core, NEW c \in Calls, ResolvePositions(c)
  PROVE  Core' /\ StaysDead
<1>1. TypeOK'
  <2>1. CASE obj[KeyOf[c]] = "open"
    BY <2>1, StoredType, EndsType DEF Core, TypeOK, ResolvePositions, Returns
  <2>2. CASE ~(obj[KeyOf[c]] = "open")
    BY <2>2 DEF Core, TypeOK, ResolvePositions, Goto, Ends, Returns, SetStateTicket
  <2> QED
    BY <2>1, <2>2
<1>2. OwnedRow'
  BY DEF Core, TypeOK, OneOwner, OwnedRow, ResolvePositions, Goto, Ends,
      Returns, SetStateTicket, QueryRuns, OrderJobQueued
<1>3. PlacedIsReal'
  BY DEF Core, TypeOK, OwnedRow, PlacedIsReal, ResolvePositions, Goto, Ends,
      Returns, SetStateTicket, QueryRuns, OrderJobQueued
<1>4. (ReplyAwaited /\ ExecutedOnce /\ Unclaimed /\ OneOwner /\ QueuedSend
       /\ BeforeSend /\ Answered /\ SendIsOver /\ NotResting /\ FilledIsReal)'
  BY DEF Core, TypeOK, ReplyAwaited, ExecutedOnce, Unclaimed, OneOwner,
      QueuedSend, BeforeSend, Answered, SendIsOver, NotResting, FilledIsReal,
      ResolvePositions, Goto, Ends, Returns, SetStateTicket, QueryRuns,
      OrderJobQueued
<1>5. StaysDead
  BY DEF Core, TypeOK, QueuedSend, StaysDead, Dead, ResolvePositions, Goto,
      Ends, Returns, SetStateTicket, QueryRuns, OrderJobQueued
<1> QED
  BY <1>1, <1>2, <1>3, <1>4, <1>5 DEF Core

\* When no order rests and no send is left, none will rest later.
LEMMA ResolveOrdersInv ==
  ASSUME Core, NEW c \in Calls, ResolveOrders(c)
  PROVE  Core' /\ StaysDead
<1>1. TypeOK'
  <2>1. CASE obj[KeyOf[c]] = "resting"
    BY <2>1, StoredType, EndsType DEF Core, TypeOK, ResolveOrders, Returns
  <2>2. CASE ~(obj[KeyOf[c]] = "resting")
    BY <2>2 DEF Core, TypeOK, ResolveOrders, Goto, Ends, Returns, SetStateTicket
  <2> QED
    BY <2>1, <2>2
<1>2. OwnedRow'
  BY DEF Core, TypeOK, OneOwner, OwnedRow, ResolveOrders, Goto, Ends, Returns,
      SetStateTicket, QueryRuns, OrderJobQueued
<1>3. PlacedIsReal'
  BY DEF Core, TypeOK, ExecutedOnce, PlacedIsReal, ResolveOrders, Goto, Ends,
      Returns, SetStateTicket, QueryRuns, OrderJobQueued
<1>4. (ReplyAwaited /\ ExecutedOnce /\ Unclaimed /\ OneOwner /\ QueuedSend
       /\ BeforeSend /\ Answered /\ SendIsOver /\ NotResting /\ FilledIsReal)'
  BY DEF Core, TypeOK, ReplyAwaited, ExecutedOnce, Unclaimed, OneOwner,
      QueuedSend, BeforeSend, Answered, SendIsOver, NotResting, FilledIsReal,
      ResolveOrders, Goto, Ends, Returns, SetStateTicket, QueryRuns,
      OrderJobQueued
<1>5. StaysDead
  BY DEF Core, TypeOK, QueuedSend, StaysDead, Dead, ResolveOrders, Goto, Ends,
      Returns, SetStateTicket, QueryRuns, OrderJobQueued
<1> QED
  BY <1>1, <1>2, <1>3, <1>4, <1>5 DEF Core

\* The key is released only when it has no position, order or deal.
LEMMA ResolveDealsInv ==
  ASSUME Core, NEW c \in Calls, ResolveDeals(c)
  PROVE  Core' /\ StaysDead
<1>1. TypeOK'
  <2>1. CASE obj[KeyOf[c]] \in {"open", "closed"}
    BY <2>1, StoredType, EndsType DEF Core, TypeOK, ResolveDeals, Returns
  <2>2. CASE ~(obj[KeyOf[c]] \in {"open", "closed"})
    BY <2>2 DEF Core, TypeOK, ResolveDeals, Ends, Returns, SetState, SetStateTicket
  <2> QED
    BY <2>1, <2>2
<1>2. OwnedRow'
  BY DEF Core, TypeOK, OneOwner, OwnedRow, ResolveDeals, Ends, Returns,
      SetState, SetStateTicket, QueryRuns, OrderJobQueued
<1>3. PlacedIsReal'
  BY DEF Core, TypeOK, OwnedRow, PlacedIsReal, ResolveDeals, Ends, Returns,
      SetState, SetStateTicket, QueryRuns, OrderJobQueued
<1>4. StaysDead
  BY DEF Core, TypeOK, NotResting, StaysDead, Dead, ResolveDeals, Ends, Returns,
      SetState, SetStateTicket, QueryRuns, OrderJobQueued
<1>5. (ReplyAwaited /\ ExecutedOnce /\ Unclaimed /\ OneOwner /\ QueuedSend
       /\ BeforeSend /\ Answered /\ SendIsOver /\ NotResting /\ FilledIsReal)'
  BY DEF Core, TypeOK, ReplyAwaited, ExecutedOnce, Unclaimed, OneOwner,
      QueuedSend, BeforeSend, Answered, SendIsOver, NotResting, FilledIsReal,
      ResolveDeals, Ends, Returns, SetState, SetStateTicket, QueryRuns,
      OrderJobQueued
<1> QED
  BY <1>1, <1>2, <1>3, <1>4, <1>5 DEF Core

\* A call that raises leaves its key in flight.
LEMMA QueryFailsInv ==
  ASSUME Core, NEW c \in Calls, QueryFails(c)
  PROVE  Core' /\ StaysDead
<1>1. TypeOK'
  BY DEF Core, TypeOK, QueryFails, Ends
<1>2. (ReplyAwaited /\ ExecutedOnce /\ Unclaimed /\ OneOwner /\ OwnedRow
       /\ QueuedSend /\ BeforeSend /\ Answered /\ SendIsOver /\ NotResting
       /\ PlacedIsReal /\ FilledIsReal)'
  BY DEF Core, TypeOK, ReplyAwaited, ExecutedOnce, Unclaimed, OneOwner,
      OwnedRow, QueuedSend, BeforeSend, Answered, SendIsOver, NotResting,
      PlacedIsReal, FilledIsReal, QueryFails, Ends
<1>3. StaysDead
  BY DEF Core, TypeOK, QueuedSend, StaysDead, Dead, QueryFails, Ends
<1> QED
  BY <1>1, <1>2, <1>3 DEF Core

\* A cancel is sent for a placed key only.
LEMMA CancelSendInv ==
  ASSUME Core, NEW k \in Keys, CancelSend(k)
  PROVE  Core' /\ StaysDead
<1>1. TypeOK'
  BY DEF Core, TypeOK, CancelSend
<1>2. (ReplyAwaited /\ ExecutedOnce /\ Unclaimed /\ OneOwner /\ OwnedRow
       /\ QueuedSend /\ BeforeSend /\ Answered /\ SendIsOver /\ NotResting
       /\ PlacedIsReal /\ FilledIsReal)'
  BY DEF Core, TypeOK, ReplyAwaited, ExecutedOnce, Unclaimed, OneOwner,
      OwnedRow, QueuedSend, BeforeSend, Answered, SendIsOver, NotResting,
      PlacedIsReal, FilledIsReal, CancelSend
<1>3. StaysDead
  BY DEF Core, TypeOK, QueuedSend, StaysDead, Dead, CancelSend
<1> QED
  BY <1>1, <1>2, <1>3 DEF Core

\* A removed order is gone; nothing else removes one for a cancel.
LEMMA CancelExecuteInv ==
  ASSUME Core, NEW k \in Keys, CancelExecute(k)
  PROVE  Core' /\ StaysDead
<1>1. TypeOK'
  BY DEF Core, TypeOK, CancelExecute
<1>2. (ReplyAwaited /\ ExecutedOnce /\ Unclaimed /\ OneOwner /\ OwnedRow
       /\ QueuedSend /\ BeforeSend /\ Answered /\ SendIsOver /\ NotResting
       /\ PlacedIsReal /\ FilledIsReal)'
  BY DEF Core, TypeOK, ReplyAwaited, ExecutedOnce, Unclaimed, OneOwner,
      OwnedRow, QueuedSend, BeforeSend, Answered, SendIsOver, NotResting,
      PlacedIsReal, FilledIsReal, CancelExecute
<1>3. StaysDead
  BY DEF Core, TypeOK, QueuedSend, StaysDead, Dead, CancelExecute
<1> QED
  BY <1>1, <1>2, <1>3 DEF Core

\* A cancel that timed out leaves the row alone.
LEMMA CancelTimeoutInv ==
  ASSUME Core, NEW k \in Keys, CancelTimeout(k)
  PROVE  Core' /\ StaysDead
<1>1. TypeOK'
  BY DEF Core, TypeOK, CancelTimeout
<1>2. (ReplyAwaited /\ ExecutedOnce /\ Unclaimed /\ OneOwner /\ OwnedRow
       /\ QueuedSend /\ BeforeSend /\ Answered /\ SendIsOver /\ NotResting
       /\ PlacedIsReal /\ FilledIsReal)'
  BY DEF Core, TypeOK, ReplyAwaited, ExecutedOnce, Unclaimed, OneOwner,
      OwnedRow, QueuedSend, BeforeSend, Answered, SendIsOver, NotResting,
      PlacedIsReal, FilledIsReal, CancelTimeout
<1>3. StaysDead
  BY DEF Core, TypeOK, QueuedSend, StaysDead, Dead, CancelTimeout
<1> QED
  BY <1>1, <1>2, <1>3 DEF Core

\* CANCELLED is written only after the broker removed the order.
LEMMA CancelReturnsInv ==
  ASSUME Core, NEW k \in Keys, CancelReturns(k)
  PROVE  Core' /\ StaysDead
<1>1. TypeOK'
  BY DEF Core, TypeOK, CancelReturns, SetState
<1>2. OwnedRow'
  BY DEF Core, TypeOK, OwnedRow, PlacedIsReal, CancelReturns, SetState
<1>3. QueuedSend'
  BY DEF Core, TypeOK, QueuedSend, PlacedIsReal, CancelReturns, SetState
<1>4. StaysDead
  BY DEF Core, TypeOK, QueuedSend, PlacedIsReal, StaysDead, Dead, CancelReturns,
      SetState
<1>5. (ReplyAwaited /\ ExecutedOnce /\ Unclaimed /\ OneOwner /\ BeforeSend
       /\ Answered /\ SendIsOver /\ NotResting /\ PlacedIsReal /\ FilledIsReal)'
  BY DEF Core, TypeOK, ReplyAwaited, ExecutedOnce, Unclaimed, OneOwner,
      BeforeSend, Answered, SendIsOver, NotResting, PlacedIsReal, FilledIsReal,
      CancelReturns, SetState
<1> QED
  BY <1>1, <1>2, <1>3, <1>4, <1>5 DEF Core

\* A triggered order becomes a position of its key.
LEMMA TriggerInv ==
  ASSUME Core, NEW k \in Keys, Trigger(k)
  PROVE  Core' /\ StaysDead
<1>1. TypeOK'
  BY DEF Core, TypeOK, Trigger, Becomes
<1>2. (ReplyAwaited /\ ExecutedOnce /\ Unclaimed /\ OneOwner /\ OwnedRow
       /\ QueuedSend /\ BeforeSend /\ Answered /\ SendIsOver /\ NotResting
       /\ PlacedIsReal /\ FilledIsReal)'
  BY DEF Core, TypeOK, ReplyAwaited, ExecutedOnce, Unclaimed, OneOwner,
      OwnedRow, QueuedSend, BeforeSend, Answered, SendIsOver, NotResting,
      PlacedIsReal, FilledIsReal, Trigger, Becomes
<1>3. StaysDead
  BY DEF Core, TypeOK, QueuedSend, StaysDead, Dead, Trigger, Becomes
<1> QED
  BY <1>1, <1>2, <1>3 DEF Core

\* An expired order is gone.
LEMMA ExpireInv ==
  ASSUME Core, NEW k \in Keys, Expire(k)
  PROVE  Core' /\ StaysDead
<1>1. TypeOK'
  BY DEF Core, TypeOK, Expire, Becomes
<1>2. (ReplyAwaited /\ ExecutedOnce /\ Unclaimed /\ OneOwner /\ OwnedRow
       /\ QueuedSend /\ BeforeSend /\ Answered /\ SendIsOver /\ NotResting
       /\ PlacedIsReal /\ FilledIsReal)'
  BY DEF Core, TypeOK, ReplyAwaited, ExecutedOnce, Unclaimed, OneOwner,
      OwnedRow, QueuedSend, BeforeSend, Answered, SendIsOver, NotResting,
      PlacedIsReal, FilledIsReal, Expire, Becomes
<1>3. StaysDead
  BY DEF Core, TypeOK, QueuedSend, StaysDead, Dead, Expire, Becomes
<1> QED
  BY <1>1, <1>2, <1>3 DEF Core

\* A closed position leaves its deals behind.
LEMMA CloseInv ==
  ASSUME Core, NEW k \in Keys, Close(k)
  PROVE  Core' /\ StaysDead
<1>1. TypeOK'
  BY DEF Core, TypeOK, Close, Becomes
<1>2. (ReplyAwaited /\ ExecutedOnce /\ Unclaimed /\ OneOwner /\ OwnedRow
       /\ QueuedSend /\ BeforeSend /\ Answered /\ SendIsOver /\ NotResting
       /\ PlacedIsReal /\ FilledIsReal)'
  BY DEF Core, TypeOK, ReplyAwaited, ExecutedOnce, Unclaimed, OneOwner,
      OwnedRow, QueuedSend, BeforeSend, Answered, SendIsOver, NotResting,
      PlacedIsReal, FilledIsReal, Close, Becomes
<1>3. StaysDead
  BY DEF Core, TypeOK, QueuedSend, StaysDead, Dead, Close, Becomes
<1> QED
  BY <1>1, <1>2, <1>3 DEF Core

\* Nothing is claimed, sent or executed at the start.
LEMMA InitInv == Init => Core /\ ReleasedIsDead
<1> SUFFICES ASSUME Init
             PROVE  Core /\ ReleasedIsDead
  OBVIOUS
<1>1. TypeOK
  BY DEF Init, TypeOK
<1>2. ReplyAwaited /\ ExecutedOnce /\ Unclaimed /\ OneOwner /\ OwnedRow
  BY DEF Init, ReplyAwaited, ExecutedOnce, Unclaimed, OneOwner, OwnedRow
<1>3. QueuedSend /\ BeforeSend /\ Answered /\ SendIsOver /\ NotResting
  BY DEF Init, QueuedSend, BeforeSend, Answered, SendIsOver, NotResting
<1>4. PlacedIsReal /\ FilledIsReal /\ ReleasedIsDead
  BY DEF Init, PlacedIsReal, FilledIsReal, ReleasedIsDead
<1> QED
  BY <1>1, <1>2, <1>3, <1>4 DEF Core

\* The invariant speaks of the variables only.
LEMMA StutterInv == Core /\ UNCHANGED vars => Core' /\ StaysDead
  BY DEF vars, Core, TypeOK, ReplyAwaited, ExecutedOnce, Unclaimed, OneOwner,
      OwnedRow, QueuedSend, BeforeSend, Answered, SendIsOver, NotResting,
      PlacedIsReal, FilledIsReal, StaysDead, Dead

\* Every step of a call preserves the invariant, whoever else takes steps.
LEMMA CallInv ==
  ASSUME Core, NEW c \in Calls, LookUp(c) \/ CallStep(c) \/ ExecuteSend(c)
  PROVE  Core' /\ StaysDead
BY LookUpInv, TryClaimInv, FuseCheckInv, SendInv, ExecuteSendInv,
   ReadAckInv, ReadPartialInv, ReadUnknownInv, RetryRefreshInv,
   RecomputeStopsInv, RetryOnceInv, SwitchFillingInv, ReadRefusalInv,
   RefreshInv, VerifyFillInv, VerifyPlacedInv, ResolvePositionsInv,
   ResolveOrdersInv, ResolveDealsInv, QueryFailsInv
   DEF CallStep

\* So does every step of a cancel and of the market.
LEMMA KeyInv ==
  ASSUME Core, NEW k \in Keys,
         CancelStep(k) \/ CancelExecute(k) \/ Trigger(k) \/ Expire(k) \/ Close(k)
  PROVE  Core' /\ StaysDead
BY CancelSendInv, CancelExecuteInv, CancelTimeoutInv, CancelReturnsInv,
   TriggerInv, ExpireInv, CloseInv
   DEF CancelStep

\* Every step preserves the invariant.
LEMMA CoreNext == Core /\ [Next]_vars => Core' /\ StaysDead
<1> SUFFICES ASSUME Core, [Next]_vars
             PROVE  Core' /\ StaysDead
  OBVIOUS
<1>1. ASSUME NEW c \in Calls, LookUp(c) \/ CallStep(c) \/ ExecuteSend(c)
      PROVE  Core' /\ StaysDead
  BY <1>1, CallInv
<1>2. ASSUME NEW k \in Keys,
             CancelStep(k) \/ CancelExecute(k) \/ Trigger(k) \/ Expire(k) \/ Close(k)
      PROVE  Core' /\ StaysDead
  BY <1>2, KeyInv
<1>3. CASE UNCHANGED vars
  BY <1>3, StutterInv
<1> QED
  BY <1>1, <1>2, <1>3 DEF Next, EngineNext, Worker, Market

\* Every step preserves IInv.
LEMMA NextInv == IInv /\ [Next]_vars => IInv'
<1>1. ReleasedIsDead /\ StaysDead => ReleasedIsDead'
  BY DEF ReleasedIsDead, StaysDead, Dead
<1> QED
  BY <1>1, CoreNext DEF IInv

\* The inductive invariant holds in every reachable state.
THEOREM Inductive == Spec => []IInv
<1>1. Init => IInv
  BY InitInv DEF IInv
<1> QED
  BY <1>1, NextInv, PTL DEF Spec

\* The variables keep their types.
THEOREM Typed == Spec => []TypeOK
<1>1. IInv => TypeOK
  BY DEF IInv, Core
<1> QED
  BY <1>1, Inductive, PTL

\* However retries, timeouts and late executions of engine.py and gateway.py
\* interleave, the broker executes a key at most once.
THEOREM NoDuplicates == Spec => []NoDuplicateExecution
<1>1. IInv => NoDuplicateExecution
  BY DEF IInv, Core, ExecutedOnce, NoDuplicateExecution
<1> QED
  BY <1>1, Inductive, PTL

\* Whatever the replies claimed, a row is FILLED only if its position exists or
\* existed (_verify_fill and _resolve_unknown look before they write).
THEOREM FillsAreReal == Spec => []FilledIsReal
<1>1. IInv => FilledIsReal
  BY DEF IInv, Core
<1> QED
  BY <1>1, Inductive, PTL

\* A key released as REJECTED or CANCELLED has nothing live at the broker and no
\* send left in the gateway.
THEOREM ReleasedAreDead == Spec => []ReleasedIsDead
<1>1. IInv => ReleasedIsDead
  BY DEF IInv, Core
<1> QED
  BY <1>1, Inductive, PTL

\* Only Send raises the count of a call's sends.
LEMMA OnlySendCounts ==
  ASSUME TypeOK, [Next]_vars, NEW c \in Calls, attempt'[c] > attempt[c]
  PROVE  Send(c)
<1>1. ASSUME NEW d \in Calls,
             \/ LookUp(d) \/ TryClaim(d) \/ FuseCheck(d) \/ ExecuteSend(d) \/ ReadAck(d)
             \/ ReadPartial(d) \/ ReadUnknown(d) \/ RetryRefresh(d) \/ RetryOnce(d)
      PROVE  FALSE
  BY <1>1 DEF TypeOK, LookUp, TryClaim, FuseCheck, ExecuteSend, ReadAck, ReadPartial,
      ReadUnknown, RetryRefresh, RetryOnce, Goto, Ends, Returns, Rejects, Spends
<1>2. ASSUME NEW d \in Calls,
             \/ RecomputeStops(d) \/ SwitchFilling(d) \/ ReadRefusal(d) \/ Refresh(d)
      PROVE  FALSE
  BY <1>2 DEF TypeOK, RecomputeStops, SwitchFilling, ReadRefusal, Refresh,
      Goto, Ends, Returns, Rejects, Spends
<1>3. ASSUME NEW d \in Calls,
             \/ VerifyFill(d) \/ VerifyPlaced(d) \/ ResolvePositions(d)
             \/ ResolveOrders(d) \/ ResolveDeals(d) \/ QueryFails(d)
      PROVE  FALSE
  BY <1>3 DEF TypeOK, VerifyFill, VerifyPlaced, ResolvePositions, ResolveOrders,
      ResolveDeals, QueryFails, Goto, Ends, Returns
<1>4. ASSUME NEW k \in Keys,
             CancelStep(k) \/ CancelExecute(k) \/ Trigger(k) \/ Expire(k) \/ Close(k)
      PROVE  FALSE
  BY <1>4 DEF TypeOK, CancelStep, CancelSend, CancelTimeout, CancelReturns,
      CancelExecute, Trigger, Expire, Close, Becomes
<1>5. ASSUME NEW d \in Calls, Send(d)
      PROVE  d = c
  BY <1>5 DEF TypeOK, Send
<1>6. CASE UNCHANGED vars
  BY <1>6 DEF TypeOK, vars
<1> QED
  BY <1>1, <1>2, <1>3, <1>4, <1>5, <1>6 DEF Next, EngineNext, CallStep, Worker, Market

\* Every order_send of engine.py, the first or a retry, goes out only while the
\* key is unexecuted and no earlier send of it is queued.
THEOREM Resends == Spec => ResendOnlyIfAbsent
<1>1. ASSUME IInv, [Next]_vars
      PROVE  [\A c \in Calls : attempt'[c] > attempt[c]
                => exec[KeyOf[c]] = 0 /\ ~SendQueued(KeyOf[c])]_vars
  <2> SUFFICES ASSUME NEW c \in Calls, attempt'[c] > attempt[c]
               PROVE  exec[KeyOf[c]] = 0 /\ ~SendQueued(KeyOf[c])
    OBVIOUS
  <2>1. Send(c)
    BY <1>1, OnlySendCounts DEF IInv, Core
  <2> QED
    BY <2>1, <1>1 DEF IInv, Core, BeforeSend, Send
<1> QED
  BY <1>1, Inductive, PTL DEF Spec, ResendOnlyIfAbsent

-----------------------------------------------------------------------------
(* The refinement *)

\* The rule that a claim obeys holds of every pair of holders ever after,
\* whoever claimed first.
LEMMA ExclusionStep ==
  ASSUME Protocol!Exclusive, [Protocol!Next]_(Protocol!vars)
  PROVE  Protocol!Exclusive'
<1>1. ASSUME NEW k \in Keys, Protocol!Claim(k)
      PROVE  Protocol!Exclusive'
  BY <1>1 DEF Protocol!Exclusive, Protocol!Claim, Protocol!Compatible
<1>2. ASSUME NEW k \in Keys, Protocol!Execute(k) \/ Protocol!Release(k)
      PROVE  Protocol!Exclusive'
  BY <1>2 DEF Protocol!Exclusive, Protocol!Execute, Protocol!Release, Protocol!Compatible
<1>3. CASE UNCHANGED Protocol!vars
  BY <1>3 DEF Protocol!Exclusive, Protocol!vars, Protocol!Compatible
<1> QED
  BY <1>1, <1>2, <1>3 DEF Protocol!Next

\* Of the protocol itself: two keys held together never share a symbol unless
\* they are one straddle.
THEOREM Exclusion == Protocol!Spec => []Protocol!Exclusive
<1>1. Protocol!Init => Protocol!Exclusive
  BY DEF Protocol!Init, Protocol!Exclusive
<1> QED
  BY <1>1, ExclusionStep, PTL DEF Protocol!Spec

\* A step that leaves the rows and the broker's executions alone, and one that
\* moves the row of a key in flight: what every step of the engine is except a
\* claim and an execution.
Quiet == row' = row /\ exec' = exec

Moves(k, s) == /\ InFlight(k)
               /\ row' = [row EXCEPT ![k] = s]
               /\ exec' = exec

USE DEF InFlight, InFlightStates

\* A quiet step is invisible to the protocol.
LEMMA QuietStutters == Quiet => UNCHANGED Protocol!vars
  BY DEF Quiet, Protocol!vars

\* A row that moves on is a release of its key, or invisible.
LEMMA MoveImplements ==
  ASSUME TypeOK, NEW k \in Keys, NEW s \in RowStates \ {"NONE"}, Moves(k, s)
  PROVE  [Protocol!Next]_(Protocol!vars)
<1>1. row \in [Keys -> RowStates] /\ row[k] \in InFlightStates
  BY DEF TypeOK, Moves
<1>2. CASE s \in InFlightStates
  <2>1. \A j \in Keys : /\ row[j] # "NONE" <=> row'[j] # "NONE"
                        /\ row[j] \in InFlightStates <=> row'[j] \in InFlightStates
    BY <1>1, <1>2 DEF Moves
  <2> QED
    BY <2>1 DEF Moves, Protocol!vars
<1>3. CASE s \notin InFlightStates
  <2>1. \A j \in Keys : /\ row[j] # "NONE" <=> row'[j] # "NONE"
                        /\ row'[j] \in InFlightStates
                             <=> row[j] \in InFlightStates /\ j # k
    BY <1>1, <1>3 DEF Moves
  <2>2. Protocol!Release(k)
    BY <1>1, <2>1 DEF Moves, Protocol!Release
  <2> QED
    BY <2>2 DEF Protocol!Next
<1> QED
  BY <1>2, <1>3

\* try_claim is a claim of the protocol: its lookup and its insert are one
\* step, so no other holder comes between them.
LEMMA ClaimImplements ==
  ASSUME TypeOK, NEW c \in Calls, TryClaim(c)
  PROVE  [Protocol!Next]_(Protocol!vars)
<1> DEFINE k == KeyOf[c]
<1>1. CASE row' = row
  BY <1>1, QuietStutters DEF Quiet, TryClaim
<1>2. CASE row' # row
  <2>1. /\ k \in Keys /\ row[k] = "NONE" /\ ~Blocked(k)
        /\ row' = [row EXCEPT ![k] = "ARMED"] /\ exec' = exec
    BY <1>2 DEF TryClaim, SetState
  <2>2. \A j \in Keys : /\ row'[j] # "NONE" <=> row[j] # "NONE" \/ j = k
                        /\ row'[j] \in InFlightStates
                             <=> row[j] \in InFlightStates \/ j = k
    BY <2>1 DEF TypeOK
  <2>3. \A j \in Keys : row[j] \in InFlightStates => Protocol!Compatible(j, k)
    BY <2>1 DEF Blocked, SameStraddle, Protocol!Compatible
  <2>4. Protocol!Claim(k)
    BY <2>1, <2>2, <2>3 DEF Protocol!Claim
  <2> QED
    BY <2>1, <2>4 DEF Protocol!Next
<1> QED
  BY <1>1, <1>2

\* What the worker executes is the first execution of a key that is in flight,
\* even when the call that sent it has timed out.
LEMMA ExecutionImplements ==
  ASSUME Core, NEW c \in Calls, ExecuteSend(c)
  PROVE  [Protocol!Next]_(Protocol!vars)
<1> DEFINE k == KeyOf[c]
<1>1. k \in Keys /\ exec[k] = 0 /\ row[k] \in InFlightStates /\ row' = row
  BY DEF Core, TypeOK, QueuedSend, ExecuteSend
<1>2. CASE exec' = exec
  BY <1>1, <1>2, QuietStutters DEF Quiet
<1>3. CASE exec' = [exec EXCEPT ![k] = @ + 1]
  <2>1. \A j \in Keys : exec'[j] > 0 <=> exec[j] > 0 \/ j = k
    BY <1>1, <1>3 DEF Core, TypeOK
  <2>2. Protocol!Execute(k)
    BY <1>1, <2>1 DEF Protocol!Execute
  <2> QED
    BY <1>1, <2>2 DEF Protocol!Next
<1> QED
  BY <1>2, <1>3 DEF ExecuteSend

\* Every other step of a call is quiet or moves the row the call owns.
LEMMA CallMoves ==
  ASSUME Core, NEW c \in Calls, LookUp(c) \/ CallStep(c), ~TryClaim(c)
  PROVE  Quiet \/ \E s \in RowStates \ {"NONE"} : Moves(KeyOf[c], s)
<1>1. CASE LookUp(c) \/ Send(c) \/ ReadAck(c) \/ RetryRefresh(c) \/ RetryOnce(c)
           \/ QueryFails(c)
  BY <1>1 DEF Quiet, LookUp, Send, ReadAck, RetryRefresh, RetryOnce, QueryFails
<1>2. CASE FuseCheck(c) \/ ReadPartial(c) \/ ReadUnknown(c) \/ RecomputeStops(c)
           \/ SwitchFilling(c) \/ ReadRefusal(c) \/ Refresh(c)
  BY <1>2 DEF Core, OwnedRow, QueuedSend, Quiet, Moves, FuseCheck, ReadPartial,
      ReadUnknown, RecomputeStops, SwitchFilling, ReadRefusal, Refresh, Rejects,
      Reads, QueryRuns, SetState, SetStateTicket
<1>3. CASE VerifyFill(c) \/ VerifyPlaced(c) \/ ResolvePositions(c)
           \/ ResolveOrders(c) \/ ResolveDeals(c)
  BY <1>3 DEF Core, OwnedRow, Quiet, Moves, VerifyFill, VerifyPlaced,
      ResolvePositions, ResolveOrders, ResolveDeals, QueryRuns, SetState,
      SetStateTicket
<1> QED
  BY <1>1, <1>2, <1>3 DEF CallStep

\* So is every step of a cancel, and the market is quiet.
LEMMA OtherMoves ==
  ASSUME Core, NEW k \in Keys,
         CancelStep(k) \/ CancelExecute(k) \/ Trigger(k) \/ Expire(k) \/ Close(k)
  PROVE  Quiet \/ Moves(k, "CANCELLED")
<1>1. CASE CancelReturns(k)
  BY <1>1 DEF Core, PlacedIsReal, Quiet, Moves, CancelReturns, SetState
<1>2. CASE ~CancelReturns(k)
  BY <1>2 DEF Quiet, CancelStep, CancelSend, CancelTimeout, CancelExecute,
      Trigger, Expire, Close, Becomes
<1> QED
  BY <1>1, <1>2

\* Every step of the engine is a step of the protocol or invisible to it.
LEMMA StepImplements == Core /\ [Next]_vars => [Protocol!Next]_(Protocol!vars)
<1> SUFFICES ASSUME Core, [Next]_vars
             PROVE  [Protocol!Next]_(Protocol!vars)
  OBVIOUS
<1> TypeOK
  BY DEF Core
<1>1. ASSUME NEW c \in Calls, LookUp(c) \/ CallStep(c)
      PROVE  [Protocol!Next]_(Protocol!vars)
  <2>1. CASE TryClaim(c)
    BY <2>1, ClaimImplements
  <2>2. CASE Quiet
    BY <2>2, QuietStutters
  <2>3. ASSUME NEW s \in RowStates \ {"NONE"}, Moves(KeyOf[c], s)
        PROVE  [Protocol!Next]_(Protocol!vars)
    BY <2>3, MoveImplements, KeyOf[c] \in Keys
  <2> QED
    BY <1>1, <2>1, <2>2, <2>3, CallMoves
<1>2. ASSUME NEW c \in Calls, ExecuteSend(c)
      PROVE  [Protocol!Next]_(Protocol!vars)
  BY <1>2, ExecutionImplements
<1>3. ASSUME NEW k \in Keys,
             CancelStep(k) \/ CancelExecute(k) \/ Trigger(k) \/ Expire(k) \/ Close(k)
      PROVE  [Protocol!Next]_(Protocol!vars)
  <2>1. CASE Quiet
    BY <2>1, QuietStutters
  <2>2. CASE Moves(k, "CANCELLED")
    BY <2>2, MoveImplements
  <2> QED
    BY <1>3, <2>1, <2>2, OtherMoves
<1>4. CASE UNCHANGED vars
  BY <1>4, QuietStutters DEF vars, Quiet
<1> QED
  BY <1>1, <1>2, <1>3, <1>4 DEF Next, EngineNext, Worker, Market

\* engine.py, idempotency.py, gateway.py and the broker implement the intent
\* protocol: at most one claim and one execution of a key, an execution only
\* while the key is held, and no claim against another holder of the symbol.
THEOREM Refines == Spec => ImplementsProtocol
<1>1. Init => Protocol!Init
  BY DEF Init, Protocol!Init
<1>2. IInv => Core
  BY DEF IInv
<1> QED
  BY <1>1, <1>2, StepImplements, Inductive, PTL DEF Spec, ImplementsProtocol, Protocol!Spec

\* The store's one-live-order-per-symbol rule, which try_claim checks on the
\* claiming key only, holds of every two rows at all times.
THEOREM OneInFlight == Spec => []OneInFlightPerSymbol
<1>1. ImplementsProtocol => []Protocol!Exclusive
  BY Exclusion DEF ImplementsProtocol
<1>2. Protocol!Exclusive => OneInFlightPerSymbol
  BY DEF Protocol!Exclusive, Protocol!Compatible, OneInFlightPerSymbol, SameStraddle
<1> QED
  BY <1>1, <1>2, Refines, PTL

-----------------------------------------------------------------------------
(* How often one call may send: the argument counts the one-shot retries it *)
(* has spent.                                                               *)

Spent(c) == Cardinality(used[c])

\* A call that is about to send has one send of its budget left.
Budget == \A c \in Calls :
            /\ attempt[c] <= 1 + MAX_TOTAL_RETRIES + Spent(c)
            /\ pc[c] \in {"idle", "claim", "fuse", "send", "refresh"}
                 => attempt[c] <= MAX_TOTAL_RETRIES + Spent(c)

USE DEF MAX_TOTAL_RETRIES

\* There are finitely many one-shot retries.
LEMMA RetriesFinite == IsFiniteSet({"stops", "extra", "filling"})
<1>1. IsFiniteSet({"stops"})
  BY FS_Singleton
<1>2. IsFiniteSet({"stops"} \cup {"extra"})
  BY <1>1, FS_AddElement
<1>3. IsFiniteSet(({"stops"} \cup {"extra"}) \cup {"filling"})
  BY <1>2, FS_AddElement
<1>4. {"stops", "extra", "filling"} = ({"stops"} \cup {"extra"}) \cup {"filling"}
  OBVIOUS
<1> QED
  BY <1>3, <1>4

\* Spending a one-shot retry that is still there counts one more.
LEMMA SpendCounts ==
  ASSUME TypeOK, NEW c \in Calls, NEW r, NEW l \in PCs, r \notin used[c], Spends(c, r, l)
  PROVE  Spent(c)' = Spent(c) + 1
<1>1. used[c] \in SUBSET {"stops", "extra", "filling"}
  BY DEF TypeOK
<1>3. IsFiniteSet(used[c])
  BY <1>1, RetriesFinite, FS_Subset
<1>4. used'[c] = used[c] \cup {r}
  BY DEF Spends, TypeOK
<1>5. Cardinality(used[c] \cup {r}) = Cardinality(used[c]) + 1
  BY <1>3, FS_AddElement
<1> QED
  BY <1>4, <1>5 DEF Spent

\* The empty set of spent retries counts nothing.
LEMMA NothingSpent == Cardinality({}) = 0
  BY FS_EmptySet

\* The count is a number.
LEMMA SpentType == ASSUME TypeOK, NEW c \in Calls PROVE Spent(c) \in Nat
<1>2. IsFiniteSet(used[c])
  BY RetriesFinite, FS_Subset DEF TypeOK
<1> QED
  BY <1>2, FS_CardinalityType DEF Spent

\* Where a step leaves a call's sends and retries: as they were and not newly
\* about to send, reset, or one of the counted moves.
LEMMA CallBudget ==
  ASSUME TypeOK, Budget, NEW c \in Calls, LookUp(c) \/ CallStep(c) \/ ExecuteSend(c)
  PROVE  Budget'
<1> SUFFICES /\ attempt'[c] <= 1 + MAX_TOTAL_RETRIES + Spent(c)'
             /\ pc'[c] \in {"idle", "claim", "fuse", "send", "refresh"}
                  => attempt'[c] <= MAX_TOTAL_RETRIES + Spent(c)'
  <2>1. \A d \in Calls \ {c} : /\ attempt'[d] = attempt[d] /\ used'[d] = used[d]
                               /\ pc'[d] = pc[d]
    <3>1. CASE LookUp(c) \/ TryClaim(c) \/ FuseCheck(c)
      BY <3>1 DEF TypeOK, LookUp, TryClaim, FuseCheck, Goto, Ends, Returns, Rejects
    <3>2. CASE Send(c) \/ ExecuteSend(c)
      BY <3>2 DEF TypeOK, Send, ExecuteSend, Goto
    <3>3. CASE ReadAck(c) \/ ReadPartial(c) \/ ReadUnknown(c) \/ QueryFails(c)
      BY <3>3 DEF TypeOK, ReadAck, ReadPartial, ReadUnknown, QueryFails, Goto, Ends,
          Returns, Rejects
    <3>4. CASE RetryRefresh(c) \/ RecomputeStops(c) \/ RetryOnce(c) \/ SwitchFilling(c)
               \/ ReadRefusal(c) \/ Refresh(c)
      BY <3>4 DEF TypeOK, RetryRefresh, RecomputeStops, RetryOnce, SwitchFilling,
          ReadRefusal, Refresh, Goto, Ends, Returns, Rejects, Spends
    <3>5. CASE VerifyFill(c) \/ VerifyPlaced(c) \/ ResolvePositions(c)
               \/ ResolveOrders(c) \/ ResolveDeals(c)
      BY <3>5 DEF TypeOK, VerifyFill, VerifyPlaced, ResolvePositions, ResolveOrders,
          ResolveDeals, Goto, Ends, Returns
    <3> QED
      BY <3>1, <3>2, <3>3, <3>4, <3>5 DEF CallStep
  <2> QED
    BY <2>1 DEF Budget, Spent
<1>0. /\ attempt[c] \in Nat /\ Spent(c) \in Nat
      /\ attempt[c] <= 1 + MAX_TOTAL_RETRIES + Spent(c)
      /\ pc[c] \in {"idle", "claim", "fuse", "send", "refresh"}
           => attempt[c] <= MAX_TOTAL_RETRIES + Spent(c)
  BY SpentType DEF Budget, TypeOK
<1>1. ASSUME NEW l \in EndPCs, Ends(c, l)
      PROVE  attempt'[c] = 0 /\ Spent(c)' = 0 /\ pc'[c] \in EndPCs
  BY <1>1, NothingSpent DEF TypeOK, Ends, Spent
<1>2. ASSUME NEW l \in PCs, Goto(c, l)
      PROVE  attempt'[c] = attempt[c] /\ Spent(c)' = Spent(c) /\ pc'[c] = l
  BY <1>2 DEF TypeOK, Goto, Spent
<1>3. ASSUME NEW l \in {"send", "refresh"}, NEW r, r \notin used[c], Spends(c, r, l)
      PROVE  attempt'[c] = attempt[c] /\ Spent(c)' = Spent(c) + 1
  BY <1>3, SpendCounts DEF Spends
<1>4. CASE Send(c)
  <2>1. attempt'[c] = attempt[c] + 1 /\ Spent(c)' = Spent(c) /\ pc'[c] = "wait"
    BY <1>4 DEF TypeOK, Send, Spent
  <2> QED
    BY <2>1, <1>0, <1>4 DEF Send
<1>5. CASE ExecuteSend(c)
  BY <1>0, <1>5 DEF ExecuteSend, Spent
<1>6. CASE LookUp(c) \/ TryClaim(c) \/ FuseCheck(c) \/ Refresh(c)
  BY <1>0, <1>1, <1>2, <1>6 DEF LookUp, TryClaim, FuseCheck, Refresh, Returns, Rejects,
      QueryRuns
<1>7. CASE ReadAck(c) \/ ReadPartial(c) \/ ReadUnknown(c) \/ RetryRefresh(c)
           \/ ReadRefusal(c) \/ QueryFails(c)
  BY <1>0, <1>1, <1>2, <1>7 DEF ReadAck, ReadPartial, ReadUnknown, RetryRefresh,
      ReadRefusal, QueryFails, Returns, Rejects
<1>8. CASE RecomputeStops(c) \/ RetryOnce(c) \/ SwitchFilling(c)
  BY <1>0, <1>1, <1>3, <1>8 DEF RecomputeStops, RetryOnce, SwitchFilling, Returns, Rejects
<1>9. CASE VerifyFill(c) \/ VerifyPlaced(c) \/ ResolvePositions(c)
           \/ ResolveOrders(c) \/ ResolveDeals(c)
  BY <1>0, <1>1, <1>2, <1>9 DEF VerifyFill, VerifyPlaced, ResolvePositions,
      ResolveOrders, ResolveDeals, Returns
<1> QED
  BY <1>4, <1>5, <1>6, <1>7, <1>8, <1>9 DEF CallStep

\* No other step touches a call.
LEMMA NextBudget == TypeOK /\ Budget /\ [Next]_vars => Budget'
<1> SUFFICES ASSUME TypeOK, Budget, [Next]_vars
             PROVE  Budget'
  OBVIOUS
<1>1. ASSUME NEW c \in Calls, LookUp(c) \/ CallStep(c) \/ ExecuteSend(c)
      PROVE  Budget'
  BY <1>1, CallBudget
<1>2. ASSUME NEW k \in Keys,
             CancelStep(k) \/ CancelExecute(k) \/ Trigger(k) \/ Expire(k) \/ Close(k)
      PROVE  Budget'
  BY <1>2 DEF Budget, Spent, CancelStep, CancelSend, CancelTimeout, CancelReturns,
      CancelExecute, Trigger, Expire, Close, Becomes
<1>3. CASE UNCHANGED vars
  BY <1>3 DEF Budget, Spent, vars
<1> QED
  BY <1>1, <1>2, <1>3 DEF Next, EngineNext, Worker, Market

\* The retry loop of execute_market is bounded: a call sends at most once, plus
\* MAX_TOTAL_RETRIES, plus once for each one-shot retry it spent.
THEOREM Budgeted == Spec => []SendsAreBudgeted
<1>1. Init => Budget
  BY NothingSpent DEF Init, Budget, Spent
<1>2. Budget => SendsAreBudgeted
  BY DEF Budget, SendsAreBudgeted, Spent
<1> QED
  BY <1>1, <1>2, NextBudget, Typed, PTL DEF Spec
=============================================================================
