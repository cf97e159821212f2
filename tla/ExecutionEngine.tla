-------------------------- MODULE ExecutionEngine --------------------------
(***************************************************************************)
(* The order path of the desk: execution/engine.py with the intent store   *)
(* it claims from (execution/idempotency.py), the single gateway worker    *)
(* that runs its order_send jobs (mt5/gateway.py) and the broker behind it *)
(* (as mt5/sim.py plays it).                                               *)
(*                                                                         *)
(* An element of Calls is one invocation of execute_market or, when its    *)
(* key is in PendingKeys, of place_pending, on a thread of its own.  Two   *)
(* calls may carry the same key: the same trigger seen twice.              *)
(*                                                                         *)
(* What the model leaves out: prices, volumes and ledger rows; the halt    *)
(* callback; the count behind the storm fuse (record_send may blow it at   *)
(* any send, as the sends of intents outside this instance are counted     *)
(* too).  A query on the gateway and the use its caller makes of the       *)
(* answer are one step: the broker does not read the store, and the store  *)
(* is not read by the other calls to learn what the broker did.            *)
(***************************************************************************)
EXTENDS Naturals, FiniteSets

CONSTANTS Keys,        \* idempotency keys
          Calls,       \* invocations of the engine
          KeyOf,       \* the key a call carries
          SymbolOf,    \* the symbol of a key's signal
          GroupOf,     \* its oco_group ...
          NoGroup,     \* ... where this stands for the empty string
          PendingKeys, \* the keys whose request is a pending order
          LyingAcks    \* success replies the broker may give without executing

Acks == {"VERIFY_FILL", "ACCEPT_PARTIAL"}

ASSUME EngineAssumption == /\ KeyOf \in [Calls -> Keys]
                           /\ PendingKeys \subseteq Keys
                           /\ LyingAcks \subseteq Acks

MAX_TOTAL_RETRIES == 2

\* retcodes.py: what the policy table makes of a reply.  The five ways to a
\* final reject differ in logging and halting only and are one value here.
Refusals == {"RETRY_REFRESH", "RECOMPUTE_STOPS_ONCE", "RETRY_ONCE",
             "SWITCH_FILLING_ONCE", "REJECT_FINAL"}
Replies  == Acks \cup Refusals \cup {"UNKNOWN_OUTCOME"}

VARIABLES
    row,       \* intents table: state of the key's row, "NONE" without a row
    ticketed,  \* the row has a non-zero ticket
    pc,        \* where a call is
    attempt,   \* its sends so far
    used,      \* the one-shot retries it has spent
    queue,     \* calls whose order_send job the worker has not executed
    reply,     \* the reply a waiting call has not read yet
    exec,      \* times the broker executed the key's request
    obj,       \* what became of it at the broker
    canc,      \* the cancel_pending call on the key
    blown      \* the storm fuse is latched

storeVars  == <<row, ticketed>>
callVars   == <<attempt, used>>
brokerVars == <<exec, obj>>
vars == <<row, ticketed, pc, attempt, used, queue, reply, exec, obj, canc, blown>>

RowStates   == {"NONE", "ARMED", "PLACED", "UNKNOWN_OUTCOME", "FILLED", "PARTIAL",
                "REJECTED", "CANCELLED"}
\* CHECKED and SUBMITTED are in the code's set too; nothing writes them.
InFlightStates == {"ARMED", "PLACED", "UNKNOWN_OUTCOME"}

SendingPCs   == {"fuse", "send", "wait", "refresh", "verify", "pverify"}
ResolvingPCs == {"positions", "orders", "deals"}
QueryPCs     == {"refresh", "verify", "pverify"} \cup ResolvingPCs
OwningPCs    == SendingPCs \cup ResolvingPCs
EndPCs       == {"returned", "raised"}
PCs          == {"idle", "claim"} \cup OwningPCs \cup EndPCs

Objects == {"none", "resting", "open", "closed", "gone"}
Live    == {"resting", "open"}

TypeOK ==
    /\ row \in [Keys -> RowStates]
    /\ ticketed \in [Keys -> BOOLEAN]
    /\ pc \in [Calls -> PCs]
    /\ attempt \in [Calls -> Nat]
    /\ used \in [Calls -> SUBSET {"stops", "extra", "filling"}]
    /\ queue \subseteq Calls
    /\ reply \in [Calls -> Replies \cup {"none"}]
    /\ exec \in [Keys -> Nat]
    /\ obj \in [Keys -> Objects]
    /\ canc \in [Keys -> {"idle", "queued", "abandoned", "ok", "failed"}]
    /\ blown \in BOOLEAN

Init ==
    /\ row = [k \in Keys |-> "NONE"]
    /\ ticketed = [k \in Keys |-> FALSE]
    /\ pc = [c \in Calls |-> "idle"]
    /\ attempt = [c \in Calls |-> 0]
    /\ used = [c \in Calls |-> {}]
    /\ queue = {}
    /\ reply = [c \in Calls |-> "none"]
    /\ exec = [k \in Keys |-> 0]
    /\ obj = [k \in Keys |-> "none"]
    /\ canc = [k \in Keys |-> "idle"]
    /\ blown = FALSE
-----------------------------------------------------------------------------
(* Helpers *)

\* A call moves on; when it ends, its locals are gone.
Goto(c, l) == /\ pc' = [pc EXCEPT ![c] = l]
              /\ UNCHANGED callVars

Ends(c, l) == /\ pc' = [pc EXCEPT ![c] = l]
              /\ attempt' = [attempt EXCEPT ![c] = 0]
              /\ used' = [used EXCEPT ![c] = {}]

\* IntentStore.set_state without a ticket leaves the ticket column alone.
SetState(k, s) == /\ row' = [row EXCEPT ![k] = s]
                  /\ UNCHANGED ticketed

SetStateTicket(k, s) == /\ row' = [row EXCEPT ![k] = s]
                        /\ ticketed' = [ticketed EXCEPT ![k] = TRUE]

InFlight(k) == row[k] \in InFlightStates

\* The two legs of an OCO straddle count as one intent.
SameStraddle(j, k) == GroupOf[k] # NoGroup /\ GroupOf[j] = GroupOf[k]

MutantOrderJobQueued == FALSE

\* The gateway's heap hands out a P2 or P3 job only when no P1 job is queued.
OrderJobQueued == queue # {} \/ \E k \in Keys : canc[k] \in {"queued", "abandoned"}
QueryRuns(c, l) == /\ pc[c] = l
                   /\ ~OrderJobQueued

Returns(c) == Ends(c, "returned")

Rejects(c) == /\ SetState(KeyOf[c], "REJECTED")
              /\ Returns(c)
-----------------------------------------------------------------------------
(* _claim *)

\* intents.get: a key that has a row is a duplicate.
LookUp(c) ==
    /\ pc[c] = "idle"
    /\ IF row[KeyOf[c]] = "NONE" THEN Goto(c, "claim") ELSE Returns(c)
    /\ UNCHANGED <<storeVars, queue, reply, brokerVars, canc, blown>>

MutantBlocked(k) == \E j \in Keys : /\ SymbolOf[j] = SymbolOf[k]
                                    /\ row[j] \in {"ARMED", "PLACED"}
                                    /\ ~SameStraddle(j, k)

Blocked(k) == \E j \in Keys : /\ SymbolOf[j] = SymbolOf[k]
                              /\ InFlight(j)
                              /\ ~SameStraddle(j, k)

MutantTryClaim(c) ==
    LET k == KeyOf[c] IN
    /\ pc[c] = "claim"
    /\ IF Blocked(k)
         THEN Returns(c) /\ UNCHANGED storeVars
         ELSE SetState(k, "ARMED") /\ Goto(c, "fuse")
    /\ UNCHANGED <<queue, reply, brokerVars, canc, blown>>

\* try_claim under the store's lock: blocked by the symbol, or the key taken
\* since LookUp (IntegrityError), is a rejection that leaves the store alone.
TryClaim(c) ==
    LET k == KeyOf[c] IN
    /\ pc[c] = "claim"
    /\ IF Blocked(k) \/ row[k] # "NONE"
         THEN Returns(c) /\ UNCHANGED storeVars
         ELSE SetState(k, "ARMED") /\ Goto(c, "fuse")
    /\ UNCHANGED <<queue, reply, brokerVars, canc, blown>>
-----------------------------------------------------------------------------
(* Sending *)

FuseCheck(c) ==
    /\ pc[c] = "fuse"
    /\ IF blown THEN Rejects(c)
                ELSE Goto(c, "send") /\ UNCHANGED storeVars
    /\ UNCHANGED <<queue, reply, brokerVars, canc, blown>>

\* record_send and the push of the P1 job; the loop does not check the fuse again.
Send(c) ==
    /\ pc[c] = "send"
    /\ attempt' = [attempt EXCEPT ![c] = @ + 1]
    /\ blown' \in {blown, TRUE}
    /\ queue' = queue \cup {c}
    /\ pc' = [pc EXCEPT ![c] = "wait"]
    /\ UNCHANGED <<storeVars, used, reply, brokerVars, canc>>

\* A refusal is never given for a request that was executed, an unknown outcome
\* may be either, and a success reply may lie if it is in LyingAcks.
MayAnswer(k, r, executed) ==
    /\ IF executed THEN r \in Acks \cup {"UNKNOWN_OUTCOME"}
                   ELSE r \in Refusals \cup LyingAcks \cup {"UNKNOWN_OUTCOME"}
    /\ k \in PendingKeys => r # "ACCEPT_PARTIAL"

\* The worker runs the job: the broker acts and the reply goes to the caller,
\* if it still waits for it (a timed-out job stays in the heap and is executed).
ExecuteSend(c) ==
    LET k == KeyOf[c] IN
    /\ c \in queue
    /\ queue' = queue \ {c}
    /\ \E r \in Replies, executed \in BOOLEAN :
         /\ MayAnswer(k, r, executed)
         /\ reply' = IF pc[c] = "wait" THEN [reply EXCEPT ![c] = r] ELSE reply
         /\ IF executed
              THEN /\ exec' = [exec EXCEPT ![k] = @ + 1]
                   /\ obj' = [obj EXCEPT ![k] = IF k \in PendingKeys THEN "resting"
                                                                     ELSE "open"]
              ELSE UNCHANGED brokerVars
    /\ UNCHANGED <<storeVars, pc, callVars, canc, blown>>
-----------------------------------------------------------------------------
(* What the caller makes of the reply *)

Reads(c, r) == /\ pc[c] = "wait"
               /\ reply[c] = r
               /\ reply' = [reply EXCEPT ![c] = "none"]

IsMarket(c) == KeyOf[c] \notin PendingKeys

ReadAck(c) ==
    /\ Reads(c, "VERIFY_FILL")
    /\ Goto(c, IF IsMarket(c) THEN "verify" ELSE "pverify")
    /\ UNCHANGED <<storeVars, queue, brokerVars, canc, blown>>

\* DONE_PARTIAL is recorded as verified without a query.
ReadPartial(c) ==
    /\ IsMarket(c)
    /\ Reads(c, "ACCEPT_PARTIAL")
    /\ SetStateTicket(KeyOf[c], "PARTIAL")
    /\ Returns(c)
    /\ UNCHANGED <<queue, brokerVars, canc, blown>>

MutantReadUnknown(c) ==
    /\ Reads(c, "UNKNOWN_OUTCOME")
    /\ Goto(c, "send")
    /\ UNCHANGED <<storeVars, queue, brokerVars, canc, blown>>
MutantNoTimeout(c) ==
    /\ Reads(c, "UNKNOWN_OUTCOME")
    /\ SetState(KeyOf[c], "UNKNOWN_OUTCOME")
    /\ Goto(c, "positions")
    /\ UNCHANGED <<queue, brokerVars, canc, blown>>

\* No result, or none within call_timeout_s: the job is then still queued.
ReadUnknown(c) ==
    /\ \/ Reads(c, "UNKNOWN_OUTCOME")
       \/ pc[c] = "wait" /\ c \in queue /\ UNCHANGED reply
    /\ SetState(KeyOf[c], "UNKNOWN_OUTCOME")
    /\ Goto(c, "positions")
    /\ UNCHANGED <<queue, brokerVars, canc, blown>>

RetryRefresh(c) ==
    /\ IsMarket(c)
    /\ attempt[c] <= MAX_TOTAL_RETRIES
    /\ Reads(c, "RETRY_REFRESH")
    /\ Goto(c, "refresh")
    /\ UNCHANGED <<storeVars, queue, brokerVars, canc, blown>>

MutantSpends(c, r, l) == Goto(c, l)

\* The one-shot retry r is spent on the way to l.
Spends(c, r, l) == /\ pc' = [pc EXCEPT ![c] = l]
                   /\ used' = [used EXCEPT ![c] = @ \cup {r}]
                   /\ UNCHANGED attempt

RecomputeStops(c) ==
    /\ IsMarket(c)
    /\ Reads(c, "RECOMPUTE_STOPS_ONCE")
    /\ "stops" \notin used[c]
    /\ \/ Spends(c, "stops", "send") /\ UNCHANGED storeVars
       \/ Rejects(c)
    /\ UNCHANGED <<queue, brokerVars, canc, blown>>

RetryOnce(c) ==
    /\ IsMarket(c)
    /\ Reads(c, "RETRY_ONCE")
    /\ "extra" \notin used[c]
    /\ Spends(c, "extra", "refresh")
    /\ UNCHANGED <<storeVars, queue, brokerVars, canc, blown>>

SwitchFilling(c) ==
    /\ IsMarket(c)
    /\ Reads(c, "SWITCH_FILLING_ONCE")
    /\ "filling" \notin used[c]
    /\ \/ Spends(c, "filling", "send") /\ UNCHANGED storeVars
       \/ Rejects(c)
    /\ UNCHANGED <<queue, brokerVars, canc, blown>>

\* A market call may retry this refusal; place_pending retries none.
Retryable(c, r) ==
    /\ IsMarket(c)
    /\ \/ r = "RETRY_REFRESH" /\ attempt[c] <= MAX_TOTAL_RETRIES
       \/ r = "RECOMPUTE_STOPS_ONCE" /\ "stops" \notin used[c]
       \/ r = "RETRY_ONCE" /\ "extra" \notin used[c]
       \/ r = "SWITCH_FILLING_ONCE" /\ "filling" \notin used[c]

ReadRefusal(c) ==
    /\ \E r \in Refusals : Reads(c, r) /\ ~Retryable(c, r)
    /\ Rejects(c)
    /\ UNCHANGED <<queue, brokerVars, canc, blown>>

\* _refresh: a tick, or nothing fresh.
Refresh(c) ==
    /\ QueryRuns(c, "refresh")
    /\ \/ Goto(c, "send") /\ UNCHANGED storeVars
       \/ Rejects(c)
    /\ UNCHANGED <<queue, reply, brokerVars, canc, blown>>
-----------------------------------------------------------------------------
(* Verification and the unknown-outcome protocol *)

MutantVerifyFill(c) ==
    /\ QueryRuns(c, "verify")
    /\ SetStateTicket(KeyOf[c], "FILLED")
    /\ Returns(c)
    /\ UNCHANGED <<queue, reply, brokerVars, canc, blown>>

MutantVerifyFillState(c) ==
    LET k == KeyOf[c] IN
    /\ QueryRuns(c, "verify")
    /\ IF obj[k] = "open"
         THEN SetStateTicket(k, "VERIFIED") /\ Returns(c)
         ELSE SetState(k, "UNKNOWN_OUTCOME") /\ Goto(c, "positions")
    /\ UNCHANGED <<queue, reply, brokerVars, canc, blown>>

VerifyFill(c) ==
    LET k == KeyOf[c] IN
    /\ QueryRuns(c, "verify")
    /\ IF obj[k] = "open"
         THEN SetStateTicket(k, "FILLED") /\ Returns(c)
         ELSE SetState(k, "UNKNOWN_OUTCOME") /\ Goto(c, "positions")
    /\ UNCHANGED <<queue, reply, brokerVars, canc, blown>>

\* An acknowledged pending order that orders_get does not show is left
\* UNKNOWN_OUTCOME: place_pending does not resolve it.
VerifyPlaced(c) ==
    LET k == KeyOf[c] IN
    /\ QueryRuns(c, "pverify")
    /\ SetStateTicket(k, IF obj[k] = "resting" THEN "PLACED" ELSE "UNKNOWN_OUTCOME")
    /\ Returns(c)
    /\ UNCHANGED <<queue, reply, brokerVars, canc, blown>>

ResolvePositions(c) ==
    LET k == KeyOf[c] IN
    /\ QueryRuns(c, "positions")
    /\ IF obj[k] = "open"
         THEN SetStateTicket(k, "FILLED") /\ Returns(c)
         ELSE Goto(c, "orders") /\ UNCHANGED storeVars
    /\ UNCHANGED <<queue, reply, brokerVars, canc, blown>>

ResolveOrders(c) ==
    LET k == KeyOf[c] IN
    /\ QueryRuns(c, "orders")
    /\ IF obj[k] = "resting"
         THEN SetStateTicket(k, "PLACED") /\ Returns(c)
         ELSE Goto(c, "deals") /\ UNCHANGED storeVars
    /\ UNCHANGED <<queue, reply, brokerVars, canc, blown>>

\* Every position, open or closed, has an entry deal of the last 24 hours.
ResolveDeals(c) ==
    LET k == KeyOf[c] IN
    /\ QueryRuns(c, "deals")
    /\ IF obj[k] \in {"open", "closed"}
         THEN SetStateTicket(k, "FILLED")
         ELSE SetState(k, "CANCELLED")
    /\ Returns(c)
    /\ UNCHANGED <<queue, reply, brokerVars, canc, blown>>

\* GatewayTimeout and GatewayClosed of a query are not caught: they leave the
\* engine with the row as it is.
QueryFails(c) ==
    /\ pc[c] \in QueryPCs
    /\ Ends(c, "raised")
    /\ UNCHANGED <<storeVars, queue, reply, brokerVars, canc, blown>>
-----------------------------------------------------------------------------
(* cancel_pending, one at a time per key *)

CancelSend(k) ==
    /\ row[k] = "PLACED" /\ ticketed[k] /\ canc[k] = "idle"
    /\ canc' = [canc EXCEPT ![k] = "queued"]
    /\ UNCHANGED <<storeVars, pc, callVars, queue, reply, brokerVars, blown>>

\* REMOVE deletes a resting order or is refused; the answer of a deletion may be lost.
CancelExecute(k) ==
    /\ canc[k] \in {"queued", "abandoned"}
    /\ \E answer \in {"ok", "failed"} :
          /\ canc' = [canc EXCEPT ![k] = IF @ = "queued" THEN answer ELSE "idle"]
          /\ \/ obj[k] = "resting" /\ obj' = [obj EXCEPT ![k] = "gone"]
             \/ answer = "failed" /\ UNCHANGED obj
    /\ UNCHANGED <<storeVars, pc, callVars, queue, reply, exec, blown>>

CancelTimeout(k) ==
    /\ canc[k] = "queued"
    /\ canc' = [canc EXCEPT ![k] = "abandoned"]
    /\ UNCHANGED <<storeVars, pc, callVars, queue, reply, brokerVars, blown>>

MutantCancelReturns(k) ==
    /\ canc[k] \in {"ok", "failed"}
    /\ SetState(k, "CANCELLED")
    /\ canc' = [canc EXCEPT ![k] = "idle"]
    /\ UNCHANGED <<pc, callVars, queue, reply, brokerVars, blown>>

CancelReturns(k) ==
    /\ canc[k] \in {"ok", "failed"}
    /\ IF canc[k] = "ok" THEN SetState(k, "CANCELLED") ELSE UNCHANGED storeVars
    /\ canc' = [canc EXCEPT ![k] = "idle"]
    /\ UNCHANGED <<pc, callVars, queue, reply, brokerVars, blown>>
-----------------------------------------------------------------------------
(* The market: a pending order triggers or expires, a position closes *)

Becomes(k, from, to) ==
    /\ obj[k] = from
    /\ obj' = [obj EXCEPT ![k] = to]
    /\ UNCHANGED <<storeVars, pc, callVars, queue, reply, exec, canc, blown>>

Trigger(k) == Becomes(k, "resting", "open")
Expire(k)  == Becomes(k, "resting", "gone")
Close(k)   == Becomes(k, "open", "closed")
-----------------------------------------------------------------------------
CallStep(c) ==
    \/ TryClaim(c) \/ FuseCheck(c) \/ Send(c)
    \/ ReadAck(c) \/ ReadPartial(c) \/ ReadUnknown(c)
    \/ RetryRefresh(c) \/ RecomputeStops(c) \/ RetryOnce(c) \/ SwitchFilling(c)
    \/ ReadRefusal(c) \/ Refresh(c)
    \/ VerifyFill(c) \/ VerifyPlaced(c)
    \/ ResolvePositions(c) \/ ResolveOrders(c) \/ ResolveDeals(c)
    \/ QueryFails(c)

CancelStep(k) == CancelSend(k) \/ CancelTimeout(k) \/ CancelReturns(k)

Worker == (\E c \in Calls : ExecuteSend(c)) \/ (\E k \in Keys : CancelExecute(k))

Market == \E k \in Keys : Trigger(k) \/ Expire(k) \/ Close(k)

EngineNext == \/ \E c \in Calls : LookUp(c) \/ CallStep(c)
              \/ \E k \in Keys : CancelStep(k)
              \/ Worker

Next == EngineNext \/ Market

Spec == Init /\ [][Next]_vars

\* A thread that has entered the engine keeps running, and every gateway call
\* it makes ends by its timeout: nothing is asked of the worker or the broker.
Fairness == \A c \in Calls : WF_vars(CallStep(c))
FairSpec == Spec /\ Fairness
-----------------------------------------------------------------------------
(* Safety *)

\* No interleaving of retries, timeouts and late executions makes the broker
\* execute one key twice ("duplicates are impossible by construction").
NoDuplicateExecution == \A k \in Keys : exec[k] <= 1

\* Two in-flight rows of one symbol are the two legs of one straddle.
OneInFlightPerSymbol ==
    \A j, k \in Keys : j # k /\ InFlight(j) /\ InFlight(k) /\ SymbolOf[j] = SymbolOf[k]
                          => SameStraddle(j, k)

\* A key recorded FILLED has, or had, its position, even if acks lie: an ack
\* is believed only once positions_get or the deals show it.
FilledIsReal == \A k \in Keys : row[k] = "FILLED" => obj[k] \in {"open", "closed"}

SendQueued(k) == \E c \in queue : KeyOf[c] = k

\* A key that no longer holds its symbol because it was rejected or found
\* absent has nothing live at the broker, and nothing on its way there.
ReleasedIsDead ==
    \A k \in Keys : row[k] \in {"REJECTED", "CANCELLED"}
                       => obj[k] \notin Live /\ ~SendQueued(k)

\* What one call may send: the first attempt, the two refreshed retries, and
\* one more for each one-shot retry it spent.
SendsAreBudgeted ==
    \A c \in Calls : attempt[c] <= 1 + MAX_TOTAL_RETRIES + Cardinality(used[c])

\* "MAX_TOTAL_RETRIES = 2  # on top of the first attempt".
RetriesAreTwo == \A c \in Calls : attempt[c] <= 1 + MAX_TOTAL_RETRIES

\* "reconcile before ANY resend": a request goes out only while the broker has
\* not executed the key and no earlier request for it is still queued.
ResendOnlyIfAbsent ==
    [][\A c \in Calls : attempt'[c] > attempt[c]
         => exec[KeyOf[c]] = 0 /\ ~SendQueued(KeyOf[c])]_vars

(* Liveness *)

\* Whatever the broker and the worker do, every call that entered the engine
\* returns or raises.
CallsReturn == \A c \in Calls : (pc[c] # "idle") ~> (pc[c] \in EndPCs)

(* Refinement *)

Protocol == INSTANCE IntentProtocol WITH
                claimed  <- {k \in Keys : row[k] # "NONE"},
                held     <- {k \in Keys : InFlight(k)},
                executed <- {k \in Keys : exec[k] > 0}

\* The engine implements the abstract intent protocol.
ImplementsProtocol == Protocol!Spec
=============================================================================
