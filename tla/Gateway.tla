------------------------------ MODULE Gateway -------------------------------
(***************************************************************************)
(* mt5/gateway.py: callers push jobs on one priority heap, one worker runs *)
(* them one at a time on the client.  A caller that times out leaves its   *)
(* job behind; a backoff makes the worker put a job back; stop() fails     *)
(* what is still queued.  A job is named by its sequence number, which     *)
(* call() draws before it takes the heap's lock.                           *)
(*                                                                         *)
(* What a job does on the client is left out (it returns or raises), and   *)
(* so are the metrics.  The tick pump is one more caller, of P3 jobs.      *)
(***************************************************************************)
EXTENDS Naturals, FiniteSets

CONSTANTS Callers,    \* threads that use the gateway
          Priorities, \* priorities of the jobs, 0 being P0_EMERGENCY
          MaxJobs,    \* bound on the jobs of a behaviour
          MaxBackoffs \* bound on the calls of apply_backoff

ASSUME GatewayAssumption == /\ Priorities \subseteq Nat
                            /\ MaxJobs \in Nat /\ MaxBackoffs \in Nat

Jobs == 1 .. MaxJobs
NoJob == 0
P0_EMERGENCY == 0

VARIABLES
    seq,      \* last sequence number drawn
    prio,     \* priority of a job
    status,   \* where a job is, and how it ended
    call,     \* the job a caller is in, or NoJob
    worker,   \* where the worker is
    held,     \* the job it popped, or NoJob
    stopped,  \* the stop event
    backoff,  \* now < _backoff_until
    backoffs, \* times apply_backoff was called
    runs,     \* times a job was run on the client
    ahead     \* history: the jobs pushed and not settled when a job was pushed

callerVars == <<seq, prio, call>>
gatewayVars == <<stopped, backoff, backoffs>>
vars == <<callerVars, status, worker, held, gatewayVars, runs, ahead>>

\* "answered" with a result or an exception of the client, "closed" by the drain.
Settled == {"answered", "closed"}

TypeOK ==
    /\ seq \in 0 .. MaxJobs
    /\ prio \in [Jobs -> Nat]
    /\ status \in [Jobs -> {"new", "queued", "held"} \cup Settled]
    /\ call \in [Callers -> Jobs \cup {NoJob}]
    /\ worker \in {"idle", "popped", "sleeping", "running", "draining", "exited"}
    /\ held \in Jobs \cup {NoJob}
    /\ stopped \in BOOLEAN /\ backoff \in BOOLEAN /\ backoffs \in 0 .. MaxBackoffs
    /\ runs \in [Jobs -> Nat]
    /\ ahead \in [Jobs -> SUBSET Jobs]

Init ==
    /\ seq = 0
    /\ prio = [j \in Jobs |-> 0]
    /\ status = [j \in Jobs |-> "new"]
    /\ call = [c \in Callers |-> NoJob]
    /\ worker = "idle" /\ held = NoJob
    /\ stopped = FALSE /\ backoff = FALSE /\ backoffs = 0
    /\ runs = [j \in Jobs |-> 0]
    /\ ahead = [j \in Jobs |-> {}]

Heap == {j \in Jobs : status[j] = "queued"}
Unsettled == {j \in Jobs : status[j] \in {"queued", "held"}}
-----------------------------------------------------------------------------
(* Callers *)

\* The stop event is read before the job exists; a stopped gateway raises
\* GatewayClosed and leaves no trace.
Call(c) ==
    /\ call[c] = NoJob /\ seq < MaxJobs
    /\ ~stopped
    /\ seq' = seq + 1
    /\ \E p \in Priorities : prio' = [prio EXCEPT ![seq + 1] = p]
    /\ call' = [call EXCEPT ![c] = seq + 1]
    /\ UNCHANGED <<status, worker, held, gatewayVars, runs, ahead>>

Push(c) ==
    /\ call[c] # NoJob /\ status[call[c]] = "new"
    /\ status' = [status EXCEPT ![call[c]] = "queued"]
    /\ ahead' = [ahead EXCEPT ![call[c]] = Unsettled]
    /\ UNCHANGED <<callerVars, worker, held, gatewayVars, runs>>

Leaves(c) == /\ call' = [call EXCEPT ![c] = NoJob]
             /\ UNCHANGED <<seq, prio, status, worker, held, gatewayVars, runs, ahead>>

Return(c) == /\ call[c] # NoJob /\ status[call[c]] \in Settled
             /\ Leaves(c)

\* The job stays where it is.
Timeout(c) == /\ call[c] # NoJob /\ status[call[c]] \in {"queued", "held"}
              /\ Leaves(c)
-----------------------------------------------------------------------------
(* The worker *)

MutantBefore(i, j) == i < j

\* The order of the heap.
Before(i, j) == prio[i] < prio[j] \/ (prio[i] = prio[j] /\ i < j)

Pop ==
    /\ worker = "idle" /\ ~stopped
    /\ \E j \in Heap : /\ \A i \in Heap \ {j} : Before(j, i)
                       /\ held' = j
                       /\ status' = [status EXCEPT ![j] = "held"]
    /\ worker' = "popped"
    /\ UNCHANGED <<callerVars, gatewayVars, runs, ahead>>

\* All but a P0 job wait for the backoff to end.
Start ==
    /\ worker = "popped"
    /\ worker' = IF prio[held] > P0_EMERGENCY /\ backoff THEN "sleeping" ELSE "running"
    /\ UNCHANGED <<callerVars, status, held, gatewayVars, runs, ahead>>

MutantPutBack ==
    /\ worker = "sleeping"
    /\ held' = NoJob /\ worker' = "idle"
    /\ UNCHANGED <<callerVars, status, gatewayVars, runs, ahead>>

PutBack ==
    /\ worker = "sleeping"
    /\ status' = [status EXCEPT ![held] = "queued"]
    /\ held' = NoJob /\ worker' = "idle"
    /\ UNCHANGED <<callerVars, gatewayVars, runs, ahead>>

MutantRun ==
    /\ worker = "running"
    /\ runs' = [runs EXCEPT ![held] = @ + 1]
    /\ status' = [status EXCEPT ![held] = "done"]
    /\ held' = NoJob /\ worker' = "idle"
    /\ UNCHANGED <<callerVars, gatewayVars, ahead>>

MutantRunAgain ==
    /\ worker = "running"
    /\ runs' = [runs EXCEPT ![held] = @ + 1]
    /\ \E end \in {"answered", "queued"} : status' = [status EXCEPT ![held] = end]
    /\ held' = NoJob /\ worker' = "idle"
    /\ UNCHANGED <<callerVars, gatewayVars, ahead>>

\* The client acts, and the result or the exception goes to the job.
Run ==
    /\ worker = "running"
    /\ runs' = [runs EXCEPT ![held] = @ + 1]
    /\ status' = [status EXCEPT ![held] = "answered"]
    /\ held' = NoJob /\ worker' = "idle"
    /\ UNCHANGED <<callerVars, gatewayVars, ahead>>

SeesStop ==
    /\ worker = "idle" /\ stopped
    /\ worker' = "draining"
    /\ UNCHANGED <<callerVars, status, held, gatewayVars, runs, ahead>>

Drain ==
    /\ worker = "draining"
    /\ status' = [j \in Jobs |-> IF j \in Heap THEN "closed" ELSE status[j]]
    /\ worker' = "exited"
    /\ UNCHANGED <<callerVars, held, gatewayVars, runs, ahead>>
-----------------------------------------------------------------------------
Stop == /\ ~stopped /\ stopped' = TRUE
        /\ UNCHANGED <<callerVars, status, worker, held, backoff, backoffs, runs, ahead>>

ApplyBackoff == /\ backoffs < MaxBackoffs
                /\ backoff' = TRUE /\ backoffs' = backoffs + 1
                /\ UNCHANGED <<callerVars, status, worker, held, stopped, runs, ahead>>

BackoffEnds == /\ backoff /\ backoff' = FALSE
               /\ UNCHANGED <<callerVars, status, worker, held, stopped, backoffs, runs, ahead>>

InCall(c) == Push(c) \/ Return(c) \/ Timeout(c)

Worker == Pop \/ Start \/ PutBack \/ Run \/ SeesStop \/ Drain

Next == \/ \E c \in Callers : Call(c) \/ InCall(c)
        \/ Worker
        \/ Stop \/ ApplyBackoff \/ BackoffEnds

\* The worker is scheduled, a client call comes back, and a backoff runs out;
\* nothing is asked of the callers.
Fairness == WF_vars(Worker) /\ WF_vars(BackoffEnds)

Spec == Init /\ [][Next]_vars /\ Fairness
-----------------------------------------------------------------------------
\* A job runs only after every more urgent job pushed before it has run, even if
\* that one's caller has timed out or a backoff holds it back: a P2 query sees
\* the effect of every earlier P1 send.
NoOvertaking ==
    \A j \in Jobs : runs[j] > 0
        => \A i \in ahead[j] : prio[i] < prio[j] => status[i] = "answered"

\* A job runs at most once, and not at all if its caller was told it is closed:
\* only a timeout leaves a caller in doubt.
AnswersAreTrue ==
    \A j \in Jobs : runs[j] = IF status[j] = "answered" THEN 1 ELSE 0

\* A pushed job is run sooner or later, backoffs and more urgent jobs or not,
\* unless the gateway stops.
JobsSettle == \A j \in Jobs : (status[j] = "queued") ~> (status[j] \in Settled \/ stopped)
=============================================================================
