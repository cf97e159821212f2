------------------------------ MODULE Recovery ------------------------------
(***************************************************************************)
(* Crash and restart of the desk: ExecutionEngine, a process that may die  *)
(* at any step, and startup_reconcile (execution/reconcile.py), which runs *)
(* alone before any call.  Calls die with the process, the store and the   *)
(* broker do not, and the market moves at any time, between the queries of *)
(* a reconcile too.                                                        *)
(*                                                                         *)
(* startup_reconcile takes three snapshots of the broker (positions,       *)
(* pendings, deals) and then writes rows one at a time, from four loops;   *)
(* each row is its own commit.  An exception in it ends the process like   *)
(* any other crash.  Adopting an orphan and enforcing a stop write ledger  *)
(* rows and a stop level only, and neither is in the model.                *)
(***************************************************************************)
EXTENDS ExecutionEngine

CONSTANT MaxCrashes \* bound on the crashes of a behaviour

ASSUME RecoveryAssumption == MaxCrashes \in Nat

VARIABLES
    phase,     \* "running", "down", or where the reconcile is
    todo,      \* the rows the current loop has still to visit
    positions, \* keys positions_get listed
    pendings,  \* keys orders_get listed
    traded,    \* keys with a deal of the last 48 hours
    exited,    \* keys with an OUT deal of ours among those
    aged,      \* keys whose last deal is older than that
    byHand,    \* keys a human closed or removed from the terminal
    flagged,   \* keys reported as manual overrides
    crashes    \* crashes so far

snapVars     == <<positions, pendings, traded, exited>>
humanVars    == <<aged, byHand>>
recoveryVars == <<phase, todo, snapVars, humanVars, flagged, crashes>>
allVars      == <<vars, recoveryVars>>

Loops  == {"resolve", "matchPositions", "matchPendings", "override"}
Phases == {"running", "down", "positions", "orders", "deals"} \cup Loops

RecoveryTypeOK ==
    /\ TypeOK
    /\ phase \in Phases
    /\ \A S \in {todo, positions, pendings, traded, exited, aged, byHand, flagged} :
         S \subseteq Keys
    /\ crashes \in 0 .. MaxCrashes

RecoveryInit ==
    /\ Init
    /\ phase = "running" /\ todo = {}
    /\ positions = {} /\ pendings = {} /\ traded = {} /\ exited = {}
    /\ aged = {} /\ byHand = {} /\ flagged = {} /\ crashes = 0
-----------------------------------------------------------------------------
Running == /\ phase = "running"
           /\ EngineNext
           /\ UNCHANGED recoveryVars

MarketMoves == Market /\ UNCHANGED recoveryVars

\* A human closes a position or deletes a pending order.
HumanActs(k) ==
    /\ Close(k) \/ Expire(k)
    /\ byHand' = byHand \cup {k}
    /\ UNCHANGED <<phase, todo, snapVars, aged, flagged, crashes>>

\* The locals of startup_reconcile are gone.
SnapshotsGone == positions' = {} /\ pendings' = {} /\ traded' = {} /\ exited' = {}

\* Calls that had ended, or not begun, when the process died.
Unaffected(c) == pc[c] \in {"idle"} \cup EndPCs

\* The process dies: its calls, the gateway's heap and the fuse with it.
Crash ==
    /\ phase # "down" /\ crashes < MaxCrashes
    /\ crashes' = crashes + 1
    /\ phase' = "down" /\ todo' = {}
    /\ pc' = [c \in Calls |-> IF Unaffected(c) THEN pc[c] ELSE "raised"]
    /\ attempt' = [c \in Calls |-> 0]
    /\ used' = [c \in Calls |-> {}]
    /\ queue' = {}
    /\ reply' = [c \in Calls |-> "none"]
    /\ canc' = [k \in Keys |-> "idle"]
    /\ blown' = FALSE
    /\ SnapshotsGone
    /\ UNCHANGED <<storeVars, brokerVars, humanVars, flagged>>

\* The downtime may have aged the deals of what was closed.
Restart ==
    /\ phase = "down"
    /\ phase' = "positions"
    /\ \E S \in SUBSET {k \in Keys : obj[k] = "closed"} : aged' = aged \cup S
    /\ UNCHANGED <<vars, todo, snapVars, byHand, flagged, crashes>>
-----------------------------------------------------------------------------
(* The snapshots *)

Having(S) == {k \in Keys : obj[k] \in S}

PositionsGet ==
    /\ phase = "positions"
    /\ positions' = Having({"open"})
    /\ phase' = "orders"
    /\ UNCHANGED <<vars, todo, pendings, traded, exited, humanVars, flagged, crashes>>

OrdersGet ==
    /\ phase = "orders"
    /\ pendings' = Having({"resting"})
    /\ phase' = "deals"
    /\ UNCHANGED <<vars, todo, positions, traded, exited, humanVars, flagged, crashes>>

RowsIn(S) == {k \in Keys : row[k] \in S}

\* A close by hand leaves an OUT deal without our magic.
DealsGet ==
    /\ phase = "deals"
    /\ traded' = Having({"open", "closed"}) \ aged
    /\ exited' = Having({"closed"}) \ (aged \cup byHand)
    /\ phase' = "resolve"
    /\ todo' = RowsIn({"UNKNOWN_OUTCOME"})
    /\ UNCHANGED <<vars, positions, pendings, humanVars, flagged, crashes>>
-----------------------------------------------------------------------------
(* The loops *)

engineVars == <<pc, callVars, queue, reply, brokerVars, canc, blown>>

\* One round of the loop l, for a row that is still to do.
Round(l, k) == /\ phase = l
               /\ k \in todo
               /\ todo' = todo \ {k}
               /\ UNCHANGED <<phase, engineVars, snapVars, humanVars, crashes>>

\* The loop l is over; the next one runs over the rows in next.
LoopEnds(l, l2, next) == /\ phase = l
                         /\ todo = {}
                         /\ phase' = l2
                         /\ todo' = next
                         /\ UNCHANGED <<vars, snapVars, humanVars, flagged, crashes>>

MutantResolveAbsent(k) ==
    /\ Round("resolve", k)
    /\ SetState(k, IF k \in positions \cup traded THEN "FILLED"
                   ELSE IF k \in pendings THEN "PLACED" ELSE "ABSENT")
    /\ UNCHANGED flagged

MutantResolveRow(k) ==
    /\ Round("resolve", k)
    /\ SetState(k, IF k \in positions THEN "FILLED"
                   ELSE IF k \in pendings THEN "PLACED" ELSE "CANCELLED")
    /\ UNCHANGED flagged

ResolveRow(k) ==
    /\ Round("resolve", k)
    /\ SetState(k, IF k \in positions \cup traded THEN "FILLED"
                   ELSE IF k \in pendings THEN "PLACED" ELSE "CANCELLED")
    /\ UNCHANGED flagged

MatchPosition(k) ==
    /\ Round("matchPositions", k)
    /\ SetStateTicket(k, "FILLED")
    /\ UNCHANGED flagged

MutantMatchPending(k) ==
    /\ Round("matchPendings", k)
    /\ UNCHANGED <<storeVars, flagged>>

MatchPending(k) ==
    /\ Round("matchPendings", k)
    /\ SetStateTicket(k, "PLACED")
    /\ UNCHANGED flagged

Unlisted(k) == ticketed[k] /\ k \notin positions \cup pendings

MutantOverrideRow(k) ==
    /\ Round("override", k)
    /\ IF Unlisted(k) THEN SetState(k, "FILLED") ELSE UNCHANGED storeVars
    /\ UNCHANGED flagged

\* A row believed live that neither snapshot lists: closed by us, or by someone.
OverrideRow(k) ==
    /\ Round("override", k)
    /\ IF ~Unlisted(k)       THEN UNCHANGED <<storeVars, flagged>>
       ELSE IF k \in exited  THEN SetState(k, "FILLED") /\ UNCHANGED flagged
       ELSE SetState(k, "CANCELLED") /\ flagged' = flagged \cup {k}

ReconcileReturns ==
    /\ phase = "override" /\ todo = {}
    /\ phase' = "running"
    /\ SnapshotsGone
    /\ UNCHANGED <<vars, todo, humanVars, flagged, crashes>>

Reconcile ==
    \/ PositionsGet \/ OrdersGet \/ DealsGet
    \/ \E k \in Keys : ResolveRow(k) \/ MatchPosition(k) \/ MatchPending(k) \/ OverrideRow(k)
    \/ LoopEnds("resolve", "matchPositions", positions)
    \/ LoopEnds("matchPositions", "matchPendings", pendings)
    \/ LoopEnds("matchPendings", "override", RowsIn({"FILLED", "PLACED"}))
    \/ ReconcileReturns

RecoveryNext == \/ Running
                \/ MarketMoves
                \/ \E k \in Keys : HumanActs(k)
                \/ Crash \/ Restart
                \/ Reconcile

RecoverySpec == RecoveryInit /\ [][RecoveryNext]_allVars
-----------------------------------------------------------------------------
(* Properties *)

\* No key that was released is live, across crashes and however the market
\* moves during a reconcile: only a flagged override may be wrong.
ReleaseSurvivesRestart ==
    \A k \in Keys : row[k] \in {"REJECTED", "CANCELLED"} /\ k \notin flagged
                       => obj[k] \notin Live /\ ~SendQueued(k)

\* When a reconcile completes, no outcome is unknown, and the rows say what its
\* snapshots said: a listed position is FILLED, a listed order PLACED, and no
\* other row with a ticket is PLACED.  (A crash between the resolve and the match
\* of one key leaves it PLACED without its ticket; if the order is gone by the
\* next reconcile, no loop looks at the row again.)
SettledByBroker ==
    [][phase = "override" /\ phase' = "running"
         => \A k \in Keys : /\ row[k] # "UNKNOWN_OUTCOME"
                            /\ k \in positions => row[k] = "FILLED"
                            /\ k \in pendings => row[k] = "PLACED"
                            /\ row[k] = "PLACED" /\ ticketed[k] => k \in pendings]_allVars

\* "MT5 is the source of truth": when a reconcile completes, with no call on its
\* way, every row that still holds its symbol has something at the broker.
InFlightIsListed ==
    [][phase = "override" /\ phase' = "running"
         => \A k \in Keys : InFlight(k) => k \in positions \cup pendings]_allVars

\* "adopt, never abandon a live position": the reconcile releases no key whose
\* position is open.
NeverAbandonsLive ==
    [][\A k \in Keys : phase = "override" /\ row[k] # "CANCELLED" /\ row'[k] = "CANCELLED"
         => obj[k] # "open"]_allVars
=============================================================================
