--------------------------- MODULE GatewayProofs ----------------------------
(***************************************************************************)
(* What the callers of the gateway rely on, for any number of callers,     *)
(* jobs and priorities.                                                    *)
(***************************************************************************)
EXTENDS Gateway, TLAPS

\* The job the worker holds, and no other, is marked so.
Holding == /\ held = NoJob <=> worker \in {"idle", "draining", "exited"}
           /\ \A j \in Jobs : status[j] = "held" <=> j = held

\* A job that nobody pushed has a number that is not drawn or just drawn.
Fresh == /\ \A j \in Jobs : j > seq => status[j] = "new"
         /\ \A c \in Callers : call[c] <= seq
         /\ \A j \in Jobs : status[j] = "new" => ahead[j] = {}
         /\ \A j \in Jobs : \A i \in ahead[j] : status[i] # "new"

\* Only the drain closes a job, and nothing runs after it.
ClosedAtEnd == \A j \in Jobs : status[j] = "closed" => worker = "exited"

\* A job leaves the heap only after the more urgent ones pushed before it.
InOrder == \A j \in Jobs : status[j] \in {"held", "answered"}
             => \A i \in ahead[j] : prio[i] < prio[j] => status[i] = "answered"

IInv == TypeOK /\ Holding /\ Fresh /\ ClosedAtEnd /\ InOrder /\ AnswersAreTrue

USE GatewayAssumption DEF Jobs, NoJob, P0_EMERGENCY, Settled, callerVars, gatewayVars,
    Heap, Unsettled

\* A call draws a number that no job has had.
LEMMA CallInv == ASSUME IInv, NEW c \in Callers, Call(c) PROVE IInv'
<1>1. TypeOK'
  BY DEF IInv, TypeOK, Call
<1>2. (Holding /\ ClosedAtEnd /\ AnswersAreTrue)'
  BY DEF IInv, TypeOK, Holding, Fresh, ClosedAtEnd, AnswersAreTrue, Call
<1>3. Fresh'
  BY DEF IInv, TypeOK, Holding, Fresh, Call
<1>4. InOrder'
  <2>1. status' = status /\ ahead' = ahead
    BY DEF Call
  <2>2. \A j \in Jobs : status[j] # "new" => prio'[j] = prio[j]
    BY DEF IInv, TypeOK, Fresh, Call
  <2>3. \A j \in Jobs : \A i \in ahead[j] : i \in Jobs /\ status[i] # "new"
    BY DEF IInv, TypeOK, Fresh
  <2> QED
    BY <2>1, <2>2, <2>3 DEF IInv, InOrder
<1> QED
  BY <1>1, <1>2, <1>3, <1>4 DEF IInv

\* A pushed job sees what is unsettled; nothing that has run is pushed.
LEMMA PushInv == ASSUME IInv, NEW c \in Callers, Push(c) PROVE IInv'
<1>1. TypeOK'
  BY DEF IInv, TypeOK, Push
<1>2. (Holding /\ ClosedAtEnd /\ AnswersAreTrue)'
  BY DEF IInv, TypeOK, Holding, Fresh, ClosedAtEnd, AnswersAreTrue, Push
<1>3. Fresh'
  <2> DEFINE p == call[c]
  <2>1. p \in Jobs /\ p <= seq /\ status[p] = "new"
    BY DEF IInv, TypeOK, Fresh, Push
  <2>2. \A j \in Jobs : /\ status'[j] = IF j = p THEN "queued" ELSE status[j]
                        /\ ahead'[j] = IF j = p THEN Unsettled ELSE ahead[j]
    BY <2>1 DEF IInv, TypeOK, Push
  <2>3. seq' = seq /\ call' = call
    BY DEF Push
  <2> HIDE DEF p
  <2>4. \A j \in Jobs : j > seq' => status'[j] = "new"
    <3> SUFFICES ASSUME NEW j \in Jobs, j > seq
                 PROVE  status'[j] = "new"
      BY <2>3
    <3>1. seq \in Nat
      BY DEF IInv, TypeOK
    <3>2. j # p
      BY <2>1, <3>1
    <3> QED
      BY <2>2, <3>2 DEF IInv, Fresh
  <2>5. \A j \in Jobs : status'[j] = "new" => ahead'[j] = {}
    BY <2>2 DEF IInv, Fresh
  <2>6. \A j \in Jobs : \A i \in ahead'[j] : status'[i] # "new"
    <3> SUFFICES ASSUME NEW j \in Jobs, NEW i \in ahead'[j]
                 PROVE  status'[i] # "new"
      OBVIOUS
    <3>1. i \in Jobs /\ status[i] # "new"
      BY <2>2 DEF IInv, TypeOK, Fresh
    <3> QED
      BY <3>1, <2>2
  <2> QED
    BY <2>3, <2>4, <2>5, <2>6 DEF IInv, Fresh
<1>4. InOrder'
  BY DEF IInv, TypeOK, Holding, Fresh, ClosedAtEnd, InOrder, Push
<1> QED
  BY <1>1, <1>2, <1>3, <1>4 DEF IInv

\* A caller that leaves, answered or not, changes no job.
LEMMA LeavesInv == ASSUME IInv, NEW c \in Callers, Return(c) \/ Timeout(c)
                   PROVE  IInv'
<1>1. TypeOK'
  BY DEF IInv, TypeOK, Return, Timeout, Leaves
<1>2. (Holding /\ ClosedAtEnd /\ AnswersAreTrue)'
  <2>1. status' = status /\ held' = held /\ worker' = worker /\ runs' = runs
    BY DEF Return, Timeout, Leaves
  <2> QED
    BY <2>1 DEF IInv, Holding, ClosedAtEnd, AnswersAreTrue
<1>3. Fresh'
  <2>1. \A d \in Callers : call'[d] <= seq
    <3>1. \A d \in Callers : call'[d] = call[d] \/ call'[d] = 0
      BY DEF IInv, TypeOK, Return, Timeout, Leaves
    <3>2. 0 <= seq
      BY DEF IInv, TypeOK
    <3> QED
      BY <3>1, <3>2 DEF IInv, Fresh
  <2>2. seq' = seq /\ status' = status /\ ahead' = ahead
    BY DEF Return, Timeout, Leaves
  <2> QED
    BY <2>1, <2>2 DEF IInv, Fresh
<1>4. InOrder'
  BY DEF IInv, TypeOK, Holding, Fresh, ClosedAtEnd, InOrder, Return, Timeout, Leaves
<1> QED
  BY <1>1, <1>2, <1>3, <1>4 DEF IInv

\* The popped job is the most urgent one, so those ahead of it have been answered.
LEMMA PopInv == ASSUME IInv, Pop PROVE IInv'
<1>1. TypeOK'
  BY DEF IInv, TypeOK, Pop, Before
<1>2. (Holding /\ ClosedAtEnd /\ AnswersAreTrue)'
  BY DEF IInv, TypeOK, Holding, Fresh, ClosedAtEnd, AnswersAreTrue, Pop, Before
<1>3. Fresh'
  BY DEF IInv, TypeOK, Holding, Fresh, Pop, Before
<1>4. InOrder'
  <2> DEFINE p == held'
  <2>1. /\ p \in Jobs /\ status[p] = "queued"
        /\ \A i \in Heap \ {p} : Before(p, i)
    BY DEF Pop
  <2>2. \A j \in Jobs : status'[j] = IF j = p THEN "held" ELSE status[j]
    BY DEF IInv, TypeOK, Pop
  <2> HIDE DEF p
  <2>3. ASSUME NEW i \in ahead[p], prio[i] < prio[p]
        PROVE  status[i] = "answered" /\ i # p
    <3>1. i \in Jobs /\ prio[i] \in Nat /\ prio[p] \in Nat
      BY <2>1 DEF IInv, TypeOK
    <3>2. status[i] # "queued" /\ i # p
      BY <2>1, <2>3, <3>1 DEF Before
    <3>3. status[i] \notin {"new", "held", "closed"}
      BY <2>1, <3>1 DEF IInv, Holding, Fresh, ClosedAtEnd, Pop, TypeOK
    <3> QED
      BY <3>1, <3>2, <3>3 DEF IInv, TypeOK
  <2>4. prio' = prio /\ ahead' = ahead
    BY DEF Pop
  <2>5. \A j \in Jobs : ahead[j] \subseteq Jobs
    BY DEF IInv, TypeOK
  <2>6. ASSUME NEW j \in Jobs, status'[j] \in {"held", "answered"},
               NEW i \in ahead[j], prio[i] < prio[j]
        PROVE  status'[i] = "answered"
    <3>1. i \in Jobs
      BY <2>5
    <3>2. status[i] = "answered" /\ i # p
      <4>1. CASE j = p
        BY <4>1, <2>3, <2>6
      <4>2. CASE j # p
        <5>1. status[j] \in {"held", "answered"}
          BY <2>2, <2>6, <4>2
        <5> QED
          BY <5>1, <2>1, <2>6 DEF IInv, InOrder
      <4> QED
        BY <4>1, <4>2
    <3> QED
      BY <2>2, <3>1, <3>2
  <2> QED
    BY <2>4, <2>6 DEF InOrder
<1> QED
  BY <1>1, <1>2, <1>3, <1>4 DEF IInv

\* Deciding to run or to sleep changes no job.
LEMMA StartInv == ASSUME IInv, Start PROVE IInv'
  BY DEF IInv, TypeOK, Holding, Fresh, ClosedAtEnd, InOrder, AnswersAreTrue, Start

\* A job that is put back has not run.
LEMMA PutBackInv == ASSUME IInv, PutBack PROVE IInv'
<1>1. TypeOK'
  BY DEF IInv, TypeOK, PutBack
<1>2. (Holding /\ ClosedAtEnd /\ AnswersAreTrue)'
  BY DEF IInv, TypeOK, Holding, Fresh, ClosedAtEnd, AnswersAreTrue, PutBack
<1>3. Fresh'
  BY DEF IInv, TypeOK, Holding, Fresh, PutBack
<1>4. InOrder'
  BY DEF IInv, TypeOK, Holding, Fresh, ClosedAtEnd, InOrder, PutBack
<1> QED
  BY <1>1, <1>2, <1>3, <1>4 DEF IInv

\* The held job runs for the first time.
LEMMA RunInv == ASSUME IInv, Run PROVE IInv'
<1>1. TypeOK'
  <2>1. held \in Jobs /\ runs[held] + 1 \in Nat
    BY DEF IInv, TypeOK, Holding, Run
  <2>2. runs' \in [Jobs -> Nat]
    BY <2>1 DEF IInv, TypeOK, Run
  <2> QED
    BY <2>1, <2>2 DEF IInv, TypeOK, Run
<1>2. (Holding /\ ClosedAtEnd /\ AnswersAreTrue)'
  BY DEF IInv, TypeOK, Holding, Fresh, ClosedAtEnd, AnswersAreTrue, Run
<1>3. Fresh'
  BY DEF IInv, TypeOK, Holding, Fresh, Run
<1>4. InOrder'
  BY DEF IInv, TypeOK, Holding, Fresh, ClosedAtEnd, InOrder, Run
<1> QED
  BY <1>1, <1>2, <1>3, <1>4 DEF IInv

\* A worker that sees the stop event changes no job.
LEMMA SeesStopInv == ASSUME IInv, SeesStop PROVE IInv'
  BY DEF IInv, TypeOK, Holding, Fresh, ClosedAtEnd, InOrder, AnswersAreTrue, SeesStop

\* The drain closes jobs that have not run, and the worker is gone after it.
LEMMA DrainInv == ASSUME IInv, Drain PROVE IInv'
<1>1. \A j \in Jobs : status'[j] = IF status[j] = "queued" THEN "closed" ELSE status[j]
  BY DEF Drain
<1>2. /\ worker = "draining" /\ worker' = "exited" /\ held' = held /\ runs' = runs
      /\ ahead' = ahead /\ seq' = seq /\ prio' = prio /\ call' = call
  BY DEF Drain
<1>3. TypeOK'
  BY DEF IInv, TypeOK, Drain
<1>4. (Holding /\ ClosedAtEnd)'
  BY <1>1, <1>2 DEF IInv, Holding, ClosedAtEnd
<1>5. AnswersAreTrue'
  BY <1>1, <1>2 DEF IInv, AnswersAreTrue
<1>6. Fresh'
  <2>1. \A i \in Jobs : status'[i] = "new" <=> status[i] = "new"
    BY <1>1
  <2>2. \A j \in Jobs : ahead[j] \subseteq Jobs
    BY DEF IInv, TypeOK
  <2> QED
    BY <1>2, <2>1, <2>2 DEF IInv, Fresh
<1>7. InOrder'
  <2>1. \A i \in Jobs : /\ status'[i] = "held" <=> status[i] = "held"
                        /\ status'[i] = "answered" <=> status[i] = "answered"
    BY <1>1
  <2>2. \A j \in Jobs : ahead[j] \subseteq Jobs
    BY DEF IInv, TypeOK
  <2> QED
    BY <1>2, <2>1, <2>2 DEF IInv, InOrder
<1> QED
  BY <1>3, <1>4, <1>5, <1>6, <1>7 DEF IInv

\* The stop event and the backoff are flags.
LEMMA FlagInv ==
  ASSUME IInv, Stop \/ ApplyBackoff \/ BackoffEnds \/ UNCHANGED vars
  PROVE  IInv'
<1>1. TypeOK'
  <2>1. CASE Stop
    BY <2>1 DEF IInv, TypeOK, Stop
  <2>2. CASE ApplyBackoff
    <3>1. backoffs' \in 0 .. MaxBackoffs
      BY <2>2 DEF IInv, TypeOK, ApplyBackoff
    <3> QED
      BY <2>2, <3>1 DEF IInv, TypeOK, ApplyBackoff
  <2>3. CASE BackoffEnds
    BY <2>3 DEF IInv, TypeOK, BackoffEnds
  <2>4. CASE UNCHANGED vars
    BY <2>4 DEF IInv, TypeOK, vars
  <2> QED
    BY <2>1, <2>2, <2>3, <2>4
<1>2. (Holding /\ ClosedAtEnd /\ AnswersAreTrue)'
  BY DEF IInv, TypeOK, Holding, Fresh, ClosedAtEnd, AnswersAreTrue, Stop, ApplyBackoff, BackoffEnds, vars
<1>3. Fresh'
  BY DEF IInv, TypeOK, Holding, Fresh, Stop, ApplyBackoff, BackoffEnds, vars
<1>4. InOrder'
  BY DEF IInv, TypeOK, Holding, Fresh, ClosedAtEnd, InOrder, Stop, ApplyBackoff, BackoffEnds, vars
<1> QED
  BY <1>1, <1>2, <1>3, <1>4 DEF IInv

\* Nothing is pushed at the start.
LEMMA InitInv == Init => IInv
<1> SUFFICES ASSUME Init PROVE IInv
  OBVIOUS
<1>1. TypeOK
  <2>1. seq \in 0 .. MaxJobs /\ backoffs \in 0 .. MaxBackoffs
    BY DEF Init
  <2>2. prio \in [Jobs -> Nat] /\ runs \in [Jobs -> Nat] /\ ahead \in [Jobs -> SUBSET Jobs]
    BY DEF Init
  <2> QED
    BY <2>1, <2>2 DEF Init, TypeOK
<1>2. Holding /\ ClosedAtEnd /\ InOrder /\ AnswersAreTrue
  BY DEF Init, Holding, ClosedAtEnd, InOrder, AnswersAreTrue
<1>3. Fresh
  BY DEF Init, Fresh
<1> QED
  BY <1>1, <1>2, <1>3 DEF IInv

\* The inductive invariant holds in every reachable state.
THEOREM Inductive == Spec => []IInv
<1>1. IInv /\ [Next]_vars => IInv'
  BY CallInv, PushInv, LeavesInv, PopInv, StartInv, PutBackInv, RunInv,
     SeesStopInv, DrainInv, FlagInv DEF Next, InCall, Worker
<1> QED
  BY <1>1, InitInv, PTL DEF Spec

\* However timeouts and backoffs interleave, a job runs after every more urgent
\* job that was pushed before it: ExecutionEngine's queries rest on this.
THEOREM Ordered == Spec => []NoOvertaking
<1>1. IInv => NoOvertaking
  BY DEF IInv, TypeOK, InOrder, AnswersAreTrue, NoOvertaking
<1> QED
  BY <1>1, Inductive, PTL

\* A job runs at most once, and never when its caller was told the gateway closed.
THEOREM Truthful == Spec => []AnswersAreTrue
<1>1. IInv => AnswersAreTrue
  BY DEF IInv
<1> QED
  BY <1>1, Inductive, PTL

\* Every reachable state is well typed.
THEOREM Typed == Spec => []TypeOK
<1>1. IInv => TypeOK
  BY DEF IInv
<1> QED
  BY <1>1, Inductive, PTL
=============================================================================
