------------------------------ MODULE Straddle ------------------------------
(***************************************************************************)
(* The two legs of an OCO straddle on the order path: register_oco and     *)
(* on_fill_detected (execution/engine.py), the Python backstop, and the    *)
(* EA's OCO table (AegisFastGuard.mq5), which is meant to act first.  A    *)
(* detection is one call of on_fill_detected, on a thread of its own; two  *)
(* may report the same fill, and both legs may fill.                       *)
(***************************************************************************)
EXTENDS ExecutionEngine

CONSTANT Detections \* calls of on_fill_detected

VARIABLES
    mapped,  \* keys of _oco_map
    marked,  \* _oco_cancelled
    det,     \* where a detection is
    leg,     \* the key whose fill it reports
    removes, \* REMOVE requests the backstop sent for a key
    oJobs,   \* keys whose REMOVE job the worker has not executed
    refused, \* keys of which the broker refused a deletion
    ocoReg,  \* keys that were put in the map
    eaPair,  \* the pair in the EA's table
    eaSaw    \* fills the EA got a transaction for

ocoVars == <<mapped, marked, det, leg, removes, oJobs, refused, ocoReg>>
eaVars  == <<eaPair, eaSaw>>
svars   == <<vars, ocoVars, eaVars>>

Legs == {k \in Keys : GroupOf[k] # NoGroup}
Sibling(k) == CHOOSE j \in Legs : j # k /\ SameStraddle(j, k)
Filled(k) == obj[k] \in {"open", "closed"}
BothTicketed == \A k \in Legs : ticketed[k]

\* register_oco is called with the two tickets of a straddle: no leg has two
\* siblings, and none has none.
ASSUME StraddleAssumption ==
    /\ Legs # {}
    /\ \A k \in Legs : \E j \in Legs \ {k} :
          /\ SameStraddle(j, k)
          /\ \A i \in Legs \ {k} : SameStraddle(i, k) => i = j

StraddleInit ==
    /\ Init
    /\ mapped = {} /\ marked = {} /\ ocoReg = {}
    /\ det = [d \in Detections |-> "idle"]
    /\ leg = [d \in Detections |-> CHOOSE k \in Legs : TRUE]
    /\ removes = [k \in Keys |-> 0]
    /\ oJobs = {} /\ refused = {}
    /\ eaPair = "unknown" /\ eaSaw = {}

-----------------------------------------------------------------------------
(* The Python backstop *)

\* register_oco: one assignment per leg, no lock.
Register(k) ==
    /\ BothTicketed /\ k \in Legs \ ocoReg
    /\ mapped' = mapped \cup {k} /\ ocoReg' = ocoReg \cup {k}
    /\ UNCHANGED <<vars, marked, det, leg, removes, oJobs, refused, eaVars>>

MutantDetect(d, k) ==
    /\ det[d] = "idle" /\ k \in Legs /\ Filled(k)
    /\ leg' = [leg EXCEPT ![d] = k]
    /\ det' = [det EXCEPT ![d] = IF k \in mapped THEN "check" ELSE "nothing"]
    /\ UNCHANGED <<vars, mapped, marked, removes, oJobs, refused, ocoReg, eaVars>>

\* dict.pop is atomic: of two detections of one fill, one gets the entry.
Detect(d, k) ==
    /\ det[d] = "idle" /\ k \in Legs /\ Filled(k)
    /\ leg' = [leg EXCEPT ![d] = k]
    /\ det' = [det EXCEPT ![d] = IF k \in mapped THEN "check" ELSE "nothing"]
    /\ mapped' = mapped \ {k}
    /\ UNCHANGED <<vars, marked, removes, oJobs, refused, ocoReg, eaVars>>

Check(d) ==
    /\ det[d] = "check"
    /\ det' = [det EXCEPT ![d] = IF Sibling(leg[d]) \in marked THEN "nothing" ELSE "mark"]
    /\ UNCHANGED <<vars, mapped, marked, leg, removes, oJobs, refused, ocoReg, eaVars>>

\* The sibling counts as cancelled before anything is asked of the broker.
Mark(d) ==
    LET s == Sibling(leg[d]) IN
    /\ det[d] = "mark"
    /\ mapped' = mapped \ {s} /\ marked' = marked \cup {s}
    /\ det' = [det EXCEPT ![d] = "query"]
    /\ UNCHANGED <<vars, leg, removes, oJobs, refused, ocoReg, eaVars>>

MutantLooksUp(d) ==
    /\ det[d] = "query" /\ ~OrderJobQueued /\ oJobs = {}
    /\ det' = [det EXCEPT ![d] =
                 IF ~InFlight(Sibling(leg[d])) THEN "remove" ELSE "done"]
    /\ UNCHANGED <<vars, mapped, marked, leg, removes, oJobs, refused, ocoReg, eaVars>>

\* orders_get, a P2 job.
LooksUp(d) ==
    /\ det[d] = "query" /\ ~OrderJobQueued /\ oJobs = {}
    /\ det' = [det EXCEPT ![d] =
                 IF obj[Sibling(leg[d])] = "resting" THEN "remove" ELSE "done"]
    /\ UNCHANGED <<vars, mapped, marked, leg, removes, oJobs, refused, ocoReg, eaVars>>

SendsRemove(d) ==
    LET s == Sibling(leg[d]) IN
    /\ det[d] = "remove"
    /\ det' = [det EXCEPT ![d] = "wait"]
    /\ removes' = [removes EXCEPT ![s] = @ + 1]
    /\ oJobs' = oJobs \cup {s}
    /\ UNCHANGED <<vars, mapped, marked, leg, refused, ocoReg, eaVars>>

\* Of a resting order the broker deletes or refuses to.
Deletes(s) ==
    /\ \/ obj[s] = "resting" /\ obj' = [obj EXCEPT ![s] = "gone"] /\ UNCHANGED refused
       \/ obj[s] = "resting" /\ refused' = refused \cup {s} /\ UNCHANGED obj
       \/ obj[s] # "resting" /\ UNCHANGED <<obj, refused>>
    /\ UNCHANGED <<row, ticketed, pc, attempt, used, queue, reply, exec, canc, blown>>

\* The worker runs the REMOVE; its result is not looked at, and the sibling's
\* row is left as it is.
ExecuteRemove(s) ==
    /\ s \in oJobs
    /\ oJobs' = oJobs \ {s}
    /\ Deletes(s)
    /\ det' = [d \in Detections |->
                 IF det[d] = "wait" /\ Sibling(leg[d]) = s THEN "done" ELSE det[d]]
    /\ UNCHANGED <<mapped, marked, leg, removes, ocoReg, eaVars>>

\* A query or a REMOVE times out: the exception leaves on_fill_detected.
DetectionFails(d) ==
    /\ det[d] \in {"query", "wait"}
    /\ det' = [det EXCEPT ![d] = "raised"]
    /\ UNCHANGED <<vars, mapped, marked, leg, removes, oJobs, refused, ocoReg, eaVars>>
-----------------------------------------------------------------------------
(* The EA *)

\* An OCO_PAIR line arrives, at any time after both tickets are known, or never.
EaLearns ==
    /\ BothTicketed /\ eaPair = "unknown"
    /\ eaPair' = "known"
    /\ UNCHANGED <<vars, ocoVars, eaSaw>>

\* OnTradeTransaction: the pair is dropped whatever the deletion gave, and a
\* fill that comes before the pair is not kept.
EaSeesFill(k) ==
    /\ k \in Legs \ eaSaw /\ Filled(k)
    /\ eaSaw' = eaSaw \cup {k}
    /\ IF eaPair = "known" THEN Deletes(Sibling(k)) /\ eaPair' = "dropped"
                           ELSE UNCHANGED <<vars, refused, eaPair>>
    /\ UNCHANGED <<mapped, marked, det, leg, removes, oJobs, ocoReg>>
-----------------------------------------------------------------------------
\* The engine's own queries, too, wait for the queued REMOVE.
EngineStep ==
    /\ \/ \E c \in Calls : LookUp(c) \/ CallStep(c)
       \/ \E k \in Keys : CancelStep(k)
       \/ Worker \/ Market
    /\ \A c \in Calls : oJobs # {} /\ pc[c] \in QueryPCs => pc'[c] \in {pc[c], "raised"}
    /\ UNCHANGED <<ocoVars, eaVars>>

DetectionStep(d) == Check(d) \/ Mark(d) \/ LooksUp(d) \/ SendsRemove(d) \/ DetectionFails(d)

StraddleNext ==
    \/ EngineStep
    \/ \E k \in Keys : Register(k) \/ ExecuteRemove(k) \/ EaSeesFill(k)
    \/ \E d \in Detections : DetectionStep(d) \/ \E k \in Keys : Detect(d, k)
    \/ EaLearns

StraddleSpec == StraddleInit /\ [][StraddleNext]_svars
-----------------------------------------------------------------------------
\* However often a fill is reported, and though both legs may fill at once, the
\* backstop sends at most one REMOVE for a leg ("Race-safe: cancels once").
CancelsOnce == \A k \in Keys : removes[k] <= 1

\* A detection that got the pair and returned leaves the other leg not resting,
\* whether it, the EA, cancel_pending or an expiry ended it, unless the broker
\* refused a deletion; its row is not looked at, and may say PLACED for ever.
BackstopFrees ==
    \A d \in Detections :
        det[d] = "done" => obj[Sibling(leg[d])] # "resting" \/ Sibling(leg[d]) \in refused
=============================================================================
