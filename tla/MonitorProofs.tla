---------------------------- MODULE MonitorProofs ----------------------------
(***************************************************************************)
(* Mutual exclusion of the monitor of libsp.c, and that its signals are    *)
(* taken, for any number of processes and conditions.                      *)
(***************************************************************************)
EXTENDS Monitor, FiniteSetTheorems, TLAPS

Activity == {a \in Activations : WellFormed(a)}

\* What a process does next when its semop(-1) is done: it is inside again.
LEMMA ResumedInside ==
    ASSUME NEW a \in Activity
    PROVE  Resumed(a) \in Activity /\ Resumed(a).at \in ActiveSteps
<1>1. CASE a.todo > 1
  <2>1. Resumed(a) = Activation("post", a.fn, a.cond, a.todo - 1)
    BY <1>1 DEF Resumed
  <2>2. Resumed(a) \in Activations
    BY <1>1, <2>1 DEF Activity, Activation, Activations, ActiveSteps
  <2>3. WellFormed(Resumed(a))
    BY <1>1, <2>1 DEF Activity, Activation, Activations, WellFormed
  <2> QED
    BY <2>1, <2>2, <2>3 DEF Activity, Activation, ActiveSteps
<1>2. CASE ~ (a.todo > 1)
  <2>1. Resumed(a) = Idle("in")
    BY <1>2 DEF Resumed
  <2>2. Idle("in") \in Activations
    BY DEF Idle, Activation, Activations, ActiveSteps, Functions
  <2>3. WellFormed(Idle("in"))
    BY CondsAssumption DEF Idle, Activation, WellFormed, Sems
  <2> QED
    BY <2>1, <2>2, <2>3 DEF Activity, ActiveSteps, Idle, Activation
<1> QED
  BY <1>1, <1>2

\* The semaphore a process waits for exists.
LEMMA SemOfType ==
    ASSUME TypeOK, NEW p \in Procs
    PROVE  SemOf(p) \in Sems
BY DEF TypeOK, WellFormed, SemOf, Sems

\* A semop(+1) of an active process keeps the types if the process goes on well.
LEMMA SignalType ==
    ASSUME TypeOK, NEW p \in Active, NEW s \in Sems, NEW a \in Activity,
           signal_sem(s, p, a)
    PROVE  TypeOK'
<1> USE DEF TypeOK
<1>1. call \in [Procs -> Activity] /\ p \in Procs
  BY DEF Activity, Active
<1>2. SUFFICES val' \in [Sems -> Nat] /\ call' \in [Procs -> Activity]
  BY DEF Activity, WellFormed
<1>3. CASE Queue(s) = {} /\ val' = [val EXCEPT ![s] = @ + 1] /\ call' = [call EXCEPT ![p] = a]
  BY <1>1, <1>3
<1>4. ASSUME NEW q \in Queue(s),
             call' = [call EXCEPT ![p] = a, ![q] = Resumed(@)], UNCHANGED val
      PROVE  val' \in [Sems -> Nat] /\ call' \in [Procs -> Activity]
  <2>1. q \in Procs /\ q # p
    BY DEF Queue, Active, ActiveSteps
  <2> QED
    BY <1>1, <1>4, <2>1, ResumedInside
<1> QED
  BY <1>3, <1>4 DEF signal_sem

\* A semop(-1) keeps the types.
LEMMA WaitType ==
    ASSUME TypeOK, NEW p \in Procs, wait_sem(p)
    PROVE  TypeOK'
<1> USE DEF TypeOK
<1>1. call \in [Procs -> Activity] /\ SemOf(p) \in Sems
  BY SemOfType DEF Activity
<1>2. SUFFICES val' \in [Sems -> Nat] /\ call' \in [Procs -> Activity]
  BY DEF Activity, WellFormed
<1>3. CASE /\ val[SemOf(p)] > 0
           /\ val' = [val EXCEPT ![SemOf(p)] = @ - 1]
           /\ call' = [call EXCEPT ![p] = Resumed(@)]
  BY <1>1, <1>3, ResumedInside
<1>4. CASE call' = [call EXCEPT ![p].at = "blocked"] /\ UNCHANGED val
  <2>1. [call[p] EXCEPT !.at = "blocked"] \in Activations
    BY <1>1 DEF Activity, Activations
  <2>2. WellFormed([call[p] EXCEPT !.at = "blocked"])
    BY <1>1 DEF Activity, Activations, WellFormed
  <2> QED
    BY <1>1, <1>4, <2>1, <2>2 DEF Activity
<1> QED
  BY <1>3, <1>4 DEF wait_sem

\* The activations that the actions assign are proper ones.
LEMMA ActivationType ==
    ASSUME NEW at \in ActiveSteps \cup {"out", "semop", "blocked"}
    PROVE  /\ at \notin {"count", "post"} => Idle(at) \in Activity
           /\ \A fn \in {"enter", "leave"} :
                at \notin {"count", "post"} => Activation(at, fn, NoCond, 0) \in Activity
           /\ \A c \in Conds : at \notin {"count", "post"} =>
                Activation(at, "wait", c, 0) \in Activity
           /\ \A c \in Conds, n \in Nat, fn \in {"signal", "broadcast"} :
                Activation(at, fn, c, n) \in Activity
BY CondsAssumption DEF Idle, Activation, Activity, Activations, WellFormed, Functions, Sems

LEMMA QueueFinite == ASSUME NEW s PROVE GETNCNT(s) \in Nat
<1>1. IsFiniteSet(Queue(s))
  BY ProcsAssumption, FS_Subset DEF Queue
<1> QED
  BY <1>1, FS_CardinalityType DEF GETNCNT

\* Every step of the monitor keeps the types of its semaphores and calls.
LEMMA TypeStep == TypeOK /\ [Next]_vars => TypeOK'
<1> SUFFICES ASSUME TypeOK, [Next]_vars PROVE TypeOK'
  OBVIOUS
<1> DEFINE Good == val' \in [Sems -> Nat] /\ call' \in [Procs -> Activity]
<1>1. call \in [Procs -> Activity] /\ val \in [Sems -> Nat]
  BY DEF TypeOK, Activity
<1>2. SUFFICES TypeOK' \/ Good
  BY DEF TypeOK, Activity, WellFormed
<1>3. CASE UNCHANGED vars
  BY <1>1, <1>3 DEF vars
<1>4. ASSUME NEW p \in Procs, wait_sem(p) PROVE TypeOK'
  BY <1>4, WaitType
<1>5. ASSUME NEW p \in Procs, Release(p) PROVE TypeOK'
  <2> DEFINE a == IF call[p].fn = "leave" THEN Idle("out") ELSE [call[p] EXCEPT !.at = "semop"]
  <2>1. p \in Active
    BY <1>5 DEF Release, Active, ActiveSteps
  <2>2. Idle("out") \in Activity
    BY ActivationType
  <2>3. [call[p] EXCEPT !.at = "semop"] \in Activations
    BY <1>1 DEF Activity, Activations
  <2>4. WellFormed([call[p] EXCEPT !.at = "semop"])
    BY <1>1 DEF Activity, Activations, WellFormed
  <2>5. a \in Activity
    BY <2>2, <2>3, <2>4 DEF Activity
  <2> QED
    BY <1>5, <2>1, <2>5, SignalType DEF Release, Sems
<1>6. ASSUME NEW p \in Procs, CountQueue(p) PROVE Good
  <2>1. call[p].at = "count" /\ call[p] \in Activity
    BY <1>1, <1>6 DEF CountQueue
  <2>2. call[p].fn \in {"signal", "broadcast"} /\ call[p].cond \in Conds
    BY <2>1 DEF Activity, WellFormed
  <2>3. /\ Idle("in") \in Activity
        /\ Activation("post", call[p].fn, call[p].cond, GETNCNT(call[p].cond)) \in Activity
    BY <2>2, ActivationType, QueueFinite DEF ActiveSteps
  <2> QED
    BY <1>1, <1>6, <2>3 DEF CountQueue
<1>7. ASSUME NEW p \in Procs, Post(p) PROVE TypeOK'
  <2>1. call[p].at = "post" /\ call[p] \in Activity
    BY <1>1, <1>7 DEF Post
  <2>2. p \in Active /\ call[p].cond \in Conds
    BY <2>1 DEF Activity, WellFormed, Active, ActiveSteps
  <2>3. [call[p] EXCEPT !.at = "semop"] \in Activations
    BY <1>1 DEF Activity, Activations
  <2>4. WellFormed([call[p] EXCEPT !.at = "semop"])
    BY <1>1 DEF Activity, Activations, WellFormed
  <2> QED
    BY <1>7, <2>2, <2>3, <2>4, SignalType DEF Post, Sems, Activity
<1>8. ASSUME NEW p \in Procs, Interrupted(p) PROVE Good
  <2>1. [call[p] EXCEPT !.at = "semop"] \in Activations
    BY <1>1 DEF Activity, Activations
  <2>2. WellFormed([call[p] EXCEPT !.at = "semop"])
    BY <1>1 DEF Activity, Activations, WellFormed
  <2> QED
    BY <1>1, <1>8, <2>1, <2>2 DEF Interrupted, Activity
<1>9. ASSUME NEW p \in Procs, enter_monitor(p) PROVE Good
  BY <1>1, <1>9, ActivationType DEF enter_monitor
<1>10. ASSUME NEW p \in Procs, leave_monitor(p) PROVE Good
  BY <1>1, <1>10, ActivationType DEF leave_monitor, Released, ActiveSteps
<1>11. ASSUME NEW p \in Procs, NEW c \in Conds, wait_cond(p, c) PROVE Good
  BY <1>1, <1>11, ActivationType DEF wait_cond, Released, ActiveSteps
<1>12. ASSUME NEW p \in Procs, NEW c \in Conds, signal_cond(p, c) PROVE Good
  BY <1>1, <1>12, ActivationType DEF signal_cond, ActiveSteps
<1>13. ASSUME NEW p \in Procs, NEW c \in Conds, broadcast_cond(p, c) PROVE Good
  BY <1>1, <1>13, ActivationType DEF broadcast_cond, ActiveSteps
<1> QED
  BY <1>3, <1>4, <1>5, <1>6, <1>7, <1>8, <1>9, <1>10, <1>11, <1>12, <1>13
     DEF Next, Step, Continue, Wait, Signal, Broadcast

\* The semaphores and the calls of the monitor keep their types.
THEOREM TypeCorrect == Spec => []TypeOK
<1>1. Init => TypeOK
  <2> SUFFICES ASSUME Init PROVE TypeOK
    OBVIOUS
  <2>1. Idle("out") \in Activity
    BY ActivationType
  <2> QED
    BY <2>1 DEF Init, TypeOK, Activity
<1> QED
  BY <1>1, TypeStep, PTL DEF Spec
-----------------------------------------------------------------------------
(***************************************************************************)
(* The token.  OneToken is inductive relative to TypeOK: a step inside the *)
(* monitor keeps the token, a semop(+1) of the process that holds it gives *)
(* it to the semaphore or to a queued process, and a semop(-1) takes it.   *)
(***************************************************************************)

\* The process that executes inside gives the token away.
LEMMA SignalPassesToken ==
    ASSUME TypeOK, OneToken, NEW p \in Active, NEW s \in Sems, NEW a \in Activity,
           a.at \notin ActiveSteps, signal_sem(s, p, a)
    PROVE  OneToken'
<1>1. /\ call \in [Procs -> Activity] /\ val \in [Sems -> Nat] /\ p \in Procs
      /\ Procs \cap Sems = {}
  BY ProcsAssumption DEF TypeOK, Activity, Active
<1>2. Holders = {p}
  BY DEF OneToken, Holders
<1>3. (\A t \in Sems : val[t] = 0) /\ Active = {p}
  BY <1>1, <1>2 DEF Holders, Active
<1>4. CASE Queue(s) = {} /\ val' = [val EXCEPT ![s] = @ + 1] /\ call' = [call EXCEPT ![p] = a]
  <2>1. Active' = {}
    BY <1>1, <1>3, <1>4 DEF Active
  <2>2. {t \in Sems : val'[t] > 0} = {s} /\ \A t \in Sems : val'[t] <= 1
    BY <1>1, <1>3, <1>4
  <2> QED
    BY <2>1, <2>2 DEF OneToken, Holders
<1>5. ASSUME NEW q \in Queue(s),
             call' = [call EXCEPT ![p] = a, ![q] = Resumed(@)], UNCHANGED val
      PROVE  OneToken'
  <2>1. q \in Procs /\ q # p
    BY DEF Queue, Active, ActiveSteps
  <2>2. Active' = {q}
    BY <1>1, <1>3, <1>5, <2>1, ResumedInside DEF Active
  <2>3. {t \in Sems : val'[t] > 0} = {} /\ \A t \in Sems : val'[t] <= 1
    BY <1>1, <1>3, <1>5
  <2> QED
    BY <2>1, <2>2, <2>3 DEF OneToken, Holders
<1> QED
  BY <1>4, <1>5 DEF signal_sem

\* The process that gets a semaphore takes the token from it.
LEMMA WaitTakesToken ==
    ASSUME TypeOK, OneToken, NEW p \in Procs, wait_sem(p)
    PROVE  OneToken'
<1> DEFINE s == SemOf(p)
<1>1. /\ call \in [Procs -> Activity] /\ val \in [Sems -> Nat] /\ s \in Sems
      /\ Procs \cap Sems = {} /\ call[p].at = "semop"
  BY ProcsAssumption, SemOfType DEF TypeOK, Activity, wait_sem
<1> HIDE DEF s
<1>2. CASE /\ val[s] > 0
           /\ val' = [val EXCEPT ![s] = @ - 1]
           /\ call' = [call EXCEPT ![p] = Resumed(@)]
  <2>1. Holders = {s} /\ val[s] = 1
    BY <1>1, <1>2 DEF OneToken, Holders
  <2>2. Active = {} /\ \A t \in Sems : t # s => val[t] = 0
    BY <1>1, <2>1 DEF Holders, Active
  <2>3. Active' = {p}
    BY <1>1, <1>2, <2>2, ResumedInside DEF Active
  <2>4. \A t \in Sems : val'[t] = 0
    BY <1>1, <1>2, <2>1, <2>2
  <2> QED
    BY <2>3, <2>4 DEF OneToken, Holders
<1>3. CASE call' = [call EXCEPT ![p].at = "blocked"] /\ UNCHANGED val
  <2>1. \A q \in Procs : call'[q].at = IF q = p THEN "blocked" ELSE call[q].at
    BY <1>1, <1>3 DEF Activity, Activations
  <2>2. Active' = Active
    BY <1>1, <2>1 DEF Active, ActiveSteps
  <2> QED
    BY <1>3, <2>2 DEF OneToken, Holders
<1> QED
  BY <1>2, <1>3 DEF wait_sem, s

\* A step that moves no process in or out keeps the token where it is.
LEMMA SameHolders ==
    ASSUME OneToken, UNCHANGED val, Active' = Active
    PROVE  OneToken'
BY DEF OneToken, Holders

LEMMA TokenStep == TypeOK /\ OneToken /\ [Next]_vars => OneToken'
<1> SUFFICES ASSUME TypeOK, OneToken, [Next]_vars PROVE OneToken'
  OBVIOUS
<1>1. call \in [Procs -> Activity]
  BY DEF TypeOK, Activity
<1>2. CASE UNCHANGED vars
  BY <1>2 DEF vars, OneToken, Holders, Active
<1>3. ASSUME NEW p \in Procs, wait_sem(p) PROVE OneToken'
  BY <1>3, WaitTakesToken
<1>4. ASSUME NEW p \in Procs, Release(p) PROVE OneToken'
  <2> DEFINE a == IF call[p].fn = "leave" THEN Idle("out") ELSE [call[p] EXCEPT !.at = "semop"]
  <2>1. p \in Active
    BY <1>4 DEF Release, Active, ActiveSteps
  <2>2. Idle("out") \in Activity /\ Idle("out").at = "out"
    BY ActivationType DEF Idle, Activation
  <2>3. /\ [call[p] EXCEPT !.at = "semop"] \in Activations
        /\ [call[p] EXCEPT !.at = "semop"].at = "semop"
    BY <1>1 DEF Activity, Activations
  <2>4. WellFormed([call[p] EXCEPT !.at = "semop"])
    BY <1>1 DEF Activity, Activations, WellFormed
  <2>5. a \in Activity /\ a.at \notin ActiveSteps
    BY <2>2, <2>3, <2>4 DEF Activity, ActiveSteps
  <2> QED
    BY <1>4, <2>1, <2>5, SignalPassesToken DEF Release, Sems
<1>5. ASSUME NEW p \in Procs, Post(p) PROVE OneToken'
  <2>1. call[p].at = "post" /\ call[p] \in Activity
    BY <1>1, <1>5 DEF Post
  <2>2. p \in Active /\ call[p].cond \in Conds
    BY <2>1 DEF Activity, WellFormed, Active, ActiveSteps
  <2>3. /\ [call[p] EXCEPT !.at = "semop"] \in Activations
        /\ [call[p] EXCEPT !.at = "semop"].at = "semop"
    BY <1>1 DEF Activity, Activations
  <2>4. WellFormed([call[p] EXCEPT !.at = "semop"])
    BY <1>1 DEF Activity, Activations, WellFormed
  <2> QED
    BY <1>5, <2>2, <2>3, <2>4, SignalPassesToken DEF Post, Sems, Activity, ActiveSteps
<1>6. ASSUME NEW p \in Procs, CountQueue(p) PROVE OneToken'
  <2>1. \A q \in Procs : q # p => call'[q] = call[q]
    BY <1>1, <1>6 DEF CountQueue
  <2>2. call[p].at = "count" /\ call'[p].at \in {"in", "post"}
    BY <1>1, <1>6 DEF CountQueue, Idle, Activation
  <2> QED
    BY <1>6, <2>1, <2>2, SameHolders DEF CountQueue, Active, ActiveSteps
<1>7. ASSUME NEW p \in Procs, Interrupted(p) PROVE OneToken'
  <2>1. \A q \in Procs : call'[q].at = IF q = p THEN "semop" ELSE call[q].at
    BY <1>1, <1>7 DEF Interrupted, Activity, Activations
  <2> QED
    BY <1>7, <2>1, SameHolders DEF Interrupted, Active, ActiveSteps
<1>8. ASSUME NEW p \in Procs, enter_monitor(p) PROVE OneToken'
  BY <1>1, <1>8, SameHolders DEF enter_monitor, Active, Activation, ActiveSteps
<1>9. ASSUME NEW p \in Procs, leave_monitor(p) PROVE OneToken'
  BY <1>1, <1>9, SameHolders DEF leave_monitor, Released, Active, Activation, ActiveSteps
<1>10. ASSUME NEW p \in Procs, NEW c \in Conds, wait_cond(p, c) PROVE OneToken'
  BY <1>1, <1>10, SameHolders DEF wait_cond, Released, Active, Activation, ActiveSteps
<1>11. ASSUME NEW p \in Procs, NEW c \in Conds, signal_cond(p, c) PROVE OneToken'
  BY <1>1, <1>11, SameHolders DEF signal_cond, Active, Activation, ActiveSteps
<1>12. ASSUME NEW p \in Procs, NEW c \in Conds, broadcast_cond(p, c) PROVE OneToken'
  BY <1>1, <1>12, SameHolders DEF broadcast_cond, Active, Activation, ActiveSteps
<1> QED
  BY <1>2, <1>3, <1>4, <1>5, <1>6, <1>7, <1>8, <1>9, <1>10, <1>11, <1>12
     DEF Next, Step, Continue, Wait, Signal, Broadcast

\* The token of the monitor is never lost and never duplicated.
THEOREM TokenConserved == Spec => []OneToken
<1>1. Init => OneToken
  <2> SUFFICES ASSUME Init PROVE OneToken
    OBVIOUS
  <2>1. Active = {} /\ {s \in Sems : val[s] > 0} = {I_MUTEX}
    BY DEF Init, Active, Idle, Activation, ActiveSteps, Sems
  <2>2. \A s \in Sems : val[s] <= 1
    BY DEF Init
  <2> QED
    BY <2>1, <2>2 DEF OneToken, Holders, Sems
<1> QED
  BY <1>1, TokenStep, TypeCorrect, PTL DEF Spec

\* At most one process executes inside the monitor.
THEOREM MonitorExcludes == Spec => []MutualExclusion
<1>1. OneToken => MutualExclusion
  BY DEF OneToken, Holders, MutualExclusion
<1> QED
  BY <1>1, TokenConserved, PTL
-----------------------------------------------------------------------------
(***************************************************************************)
(* No signal for nobody.  A process reads the length of a queue, and       *)
(* signals later: in between it executes inside, so that nobody takes the  *)
(* semaphore.  A process in the queue can only be interrupted, and calls   *)
(* semop again.                                                            *)
(***************************************************************************)

\* The processes that wait for a semaphore, in its queue or on the way to it.
Waiting(s) == {p \in Procs : call[p].at \in {"semop", "blocked"} /\ SemOf(p) = s}

\* Only broadcast_cond counts and repeats; a process that is about to signal I_PREEMPT, or a
\* condition for signal_cond, has seen somebody in the queue, who still waits.
Announced ==
    \A p \in Procs :
        /\ call[p].at = "count" => call[p].fn = "broadcast"
        /\ call[p].fn = "signal" => call[p].todo <= 1
        /\ call[p].at = "preempt" => Waiting(I_PREEMPT) # {}
        /\ call[p].at = "post" /\ call[p].fn = "signal" => Waiting(call[p].cond) # {}

TakerInv == TypeOK /\ OneToken /\ Announced /\ TokenHasTaker

\* While somebody executes inside, he is alone and no semaphore is positive.
LEMMA ActiveAlone ==
    ASSUME TypeOK, OneToken, NEW p \in Active
    PROVE  Active = {p} /\ \A s \in Sems : val[s] = 0
<1>1. Holders = {p} /\ p \in Procs /\ Procs \cap Sems = {}
  BY ProcsAssumption DEF OneToken, Holders, Active
<1> QED
  BY <1>1 DEF Holders, Active, TypeOK

\* A process that is resumed to signal again is in a broadcast.
LEMMA ResumedAnnounced ==
    ASSUME TypeOK, Announced, NEW q \in Procs
    PROVE  /\ Resumed(call[q]).at \in {"in", "post"}
           /\ Resumed(call[q]).at = "post" => Resumed(call[q]).fn # "signal"
           /\ Resumed(call[q]).fn # "signal"
BY DEF TypeOK, Activations, WellFormed, Announced, Resumed, Activation, Idle

\* A semop(+1) of a process that is inside, when somebody waits for the semaphore.
LEMMA SignalIsTaken ==
    ASSUME TakerInv, NEW p \in Active, NEW s \in Sems, NEW a \in Activity, signal_sem(s, p, a),
           a.at \in {"out", "semop"}, a.fn = "signal" => a.todo <= 1,
           s = I_MUTEX \/ Waiting(s) # {}
              \/ (a.at = "semop" /\ a.fn = "broadcast" /\ a.cond = s)
    PROVE  Announced' /\ TokenHasTaker'
<1> USE DEF TakerInv
<1>1. /\ call \in [Procs -> Activity] /\ val \in [Sems -> Nat] /\ p \in Procs
      /\ Active = {p} /\ \A t \in Sems : val[t] = 0
  BY ActiveAlone DEF TypeOK, Activity, Active
<1>2. \A q \in Procs : q # p => call[q].at \notin ActiveSteps
  BY <1>1 DEF Active
<1>3. CASE Queue(s) = {} /\ val' = [val EXCEPT ![s] = @ + 1] /\ call' = [call EXCEPT ![p] = a]
  <2>1. Announced'
    BY <1>1, <1>2, <1>3 DEF Announced, ActiveSteps
  <2>2. \A t \in Sems : val'[t] > 0 => t = s
    BY <1>1, <1>3
  <2>3. CASE s = I_MUTEX
    BY <2>1, <2>2, <2>3 DEF TokenHasTaker
  <2>4. CASE Waiting(s) # {}
    <3>1. PICK q \in Calling(s) : TRUE
      BY <1>3, <2>4 DEF Waiting, Calling, Queue
    <3>2. q # p /\ q \in Procs
      BY <3>1 DEF Calling, Active, ActiveSteps
    <3>3. q \in Calling(s)'
      BY <1>1, <1>3, <3>1, <3>2 DEF Calling, SemOf
    <3> QED
      BY <2>1, <2>2, <3>3 DEF TokenHasTaker
  <2>5. CASE a.at = "semop" /\ a.fn = "broadcast" /\ a.cond = s
    <3>1. Overrun(s)'
      BY <1>1, <1>3, <2>5 DEF Overrun
    <3> QED
      BY <2>1, <2>2, <3>1 DEF TokenHasTaker
  <2> QED
    BY <2>1, <2>3, <2>4, <2>5
<1>4. ASSUME NEW q \in Queue(s),
             call' = [call EXCEPT ![p] = a, ![q] = Resumed(@)], UNCHANGED val
      PROVE  Announced' /\ TokenHasTaker'
  <2>1. q \in Procs /\ q # p
    BY DEF Queue, Active, ActiveSteps
  <2>2. /\ call'[p] = a /\ call'[q] = Resumed(call[q])
        /\ \A r \in Procs \ {p, q} : call'[r] = call[r]
    BY <1>1, <1>4, <2>1
  <2>3. Announced'
    BY <1>2, <2>1, <2>2, ResumedAnnounced DEF Announced, ActiveSteps
  <2> QED
    BY <1>1, <1>4, <2>3 DEF TokenHasTaker
<1> QED
  BY <1>3, <1>4 DEF signal_sem

\* A semop(-1) of a process: the token is taken, or the process waits on.
LEMMA WaitIsTaken ==
    ASSUME TakerInv, NEW p \in Procs, wait_sem(p)
    PROVE  Announced' /\ TokenHasTaker'
<1> USE DEF TakerInv
<1> DEFINE s == SemOf(p)
<1>1. /\ call \in [Procs -> Activity] /\ val \in [Sems -> Nat] /\ s \in Sems
      /\ Procs \cap Sems = {} /\ call[p].at = "semop"
  BY ProcsAssumption, SemOfType DEF TypeOK, Activity, wait_sem
<1>2. CASE /\ val[s] > 0
           /\ val' = [val EXCEPT ![s] = @ - 1]
           /\ call' = [call EXCEPT ![p] = Resumed(@)]
  <2> HIDE DEF s
  <2>1. Holders = {s} /\ val[s] = 1
    BY <1>1, <1>2 DEF OneToken, Holders
  <2>2. Active = {} /\ \A t \in Sems : t # s => val[t] = 0
    BY <1>1, <2>1 DEF Holders, Active
  <2>3. Announced'
    BY <1>1, <1>2, <2>2, ResumedAnnounced DEF Announced, Active, ActiveSteps
  <2>4. \A t \in Sems : val'[t] = 0
    BY <1>1, <1>2, <2>1, <2>2
  <2> QED
    BY <2>3, <2>4 DEF TokenHasTaker
<1>3. CASE val[s] = 0 /\ call' = [call EXCEPT ![p].at = "blocked"] /\ UNCHANGED val
  <2>1. /\ call'[p] = [call[p] EXCEPT !.at = "blocked"]
        /\ call'[p].at = "blocked" /\ call'[p].fn = call[p].fn
        /\ call'[p].cond = call[p].cond /\ call'[p].todo = call[p].todo
        /\ \A q \in Procs \ {p} : call'[q] = call[q]
    BY <1>1, <1>3 DEF Activity, Activations
  <2>2. \A q \in Procs : SemOf(q)' = SemOf(q)
    BY <2>1 DEF SemOf
  <2>3. \A t : Waiting(t)' = Waiting(t)
    BY <1>1, <2>1, <2>2 DEF Waiting
  <2>4. Announced'
    BY <1>1, <2>1, <2>3 DEF Announced
  <2>5. ASSUME NEW t \in Sems \ {I_MUTEX}, val'[t] > 0
        PROVE  Calling(t)' # {} \/ Overrun(t)'
    <3>1. t # s /\ val[t] > 0
      BY <1>3, <2>5
    <3>2. Calling(t)' = Calling(t)
      BY <1>1, <2>1, <2>2, <3>1 DEF Calling
    <3>3. Overrun(t) => Overrun(t)'
      BY <1>1, <2>1 DEF Overrun
    <3> QED
      BY <3>1, <3>2, <3>3 DEF TokenHasTaker
  <2> QED
    BY <2>4, <2>5 DEF TokenHasTaker
<1> QED
  BY <1>2, <1>3 DEF wait_sem

\* A step inside that signals nothing, and announces a signal only when somebody is queued.
LEMMA InsideIsTaken ==
    ASSUME TakerInv, NEW p \in Active, UNCHANGED val,
           \A q \in Procs \ {p} : call'[q] = call[q],
           \/ call'[p] = call[p]
           \/ /\ call'[p].at \in ActiveSteps
              /\ call'[p].at = "count" => call'[p].fn = "broadcast"
              /\ call'[p].fn = "signal" => call'[p].todo <= 1
              /\ call'[p].at = "preempt" => Queue(I_PREEMPT) # {}
              /\ call'[p].at = "post" /\ call'[p].fn = "signal" => Queue(call'[p].cond) # {}
    PROVE  Announced' /\ TokenHasTaker'
<1> USE DEF TakerInv
<1>1. p \in Procs /\ Active = {p} /\ \A t \in Sems : val[t] = 0
  BY ActiveAlone DEF Active
<1>2. \A t : Waiting(t) \subseteq Waiting(t)' /\ Queue(t) \subseteq Waiting(t)
  <2>1. \A q \in Procs : call[q].at \in {"semop", "blocked"} => q # p /\ call'[q] = call[q]
    BY DEF Active, ActiveSteps
  <2> QED
    BY <2>1 DEF Waiting, Calling, Queue, SemOf
<1>3. Announced'
  <2>1. ASSUME NEW q \in Procs, q # p \/ call'[p] = call[p]
        PROVE  /\ call'[q].at = "count" => call'[q].fn = "broadcast"
               /\ call'[q].fn = "signal" => call'[q].todo <= 1
               /\ call'[q].at = "preempt" => Waiting(I_PREEMPT)' # {}
               /\ (call[q].at = "post" /\ call[q].fn = "signal" => Waiting(call[q].cond) # {})'
    <3>1. call'[q] = call[q]
      BY <2>1
    <3> QED
      BY <1>2, <3>1 DEF Announced
  <2>2. CASE call'[p] = call[p]
    BY <2>1, <2>2 DEF Announced
  <2> QED
    BY <1>2, <2>1, <2>2 DEF Announced
<1> QED
  BY <1>1, <1>3 DEF TokenHasTaker

\* A process that joins those that wait, or joins them again, takes nobody away.
LEMMA JoinIsTaken ==
    ASSUME TakerInv, NEW p \in Procs, UNCHANGED val, call[p].at \in {"out", "blocked"},
           \A q \in Procs \ {p} : call'[q] = call[q],
           call'[p].at = "semop",
           \/ call[p].at = "out" /\ call'[p].fn = "enter"
           \/ call'[p] = [call[p] EXCEPT !.at = "semop"]
    PROVE  Announced' /\ TokenHasTaker'
<1> USE DEF TakerInv
<1>1. call \in [Procs -> Activity]
  BY DEF TypeOK, Activity
<1>2. call[p].at = "blocked" => /\ call'[p].fn = call[p].fn
                               /\ call'[p].cond = call[p].cond
                               /\ call'[p].todo = call[p].todo
  BY <1>1 DEF Activity, Activations
<1>3. \A q \in Procs : call[q].at \in {"semop", "blocked"} =>
         SemOf(q)' = SemOf(q) /\ call'[q].at \in {"semop", "blocked"}
  BY <1>2 DEF SemOf
<1>4. \A t : Waiting(t) \subseteq Waiting(t)' /\ Calling(t) \subseteq Calling(t)'
  BY <1>3 DEF Waiting, Calling, Queue
<1>5. \A t : Overrun(t) => Overrun(t)'
  BY <1>2 DEF Overrun
<1>6. Announced'
  <2>1. call'[p].fn = "signal" => call'[p].todo <= 1
    BY <1>1, <1>2 DEF Announced, Activity, Activations
  <2> QED
    BY <1>4, <2>1 DEF Announced
<1> QED
  BY <1>4, <1>5, <1>6 DEF TokenHasTaker

LEMMA TakerStep == TakerInv /\ [Next]_vars => Announced' /\ TokenHasTaker'
<1> SUFFICES ASSUME TakerInv, [Next]_vars PROVE Announced' /\ TokenHasTaker'
  OBVIOUS
<1>1. call \in [Procs -> Activity]
  BY DEF TakerInv, TypeOK, Activity
<1>2. CASE UNCHANGED vars
  BY <1>2 DEF vars, TakerInv, Announced, TokenHasTaker, Waiting, Calling, Queue, SemOf, Overrun
<1>3. ASSUME NEW p \in Procs, wait_sem(p) PROVE Announced' /\ TokenHasTaker'
  BY <1>3, WaitIsTaken
<1>4. ASSUME NEW p \in Procs, Release(p) PROVE Announced' /\ TokenHasTaker'
  <2> DEFINE a == IF call[p].fn = "leave" THEN Idle("out") ELSE [call[p] EXCEPT !.at = "semop"]
             s == IF call[p].at = "preempt" THEN I_PREEMPT ELSE I_MUTEX
  <2>1. p \in Active
    BY <1>4 DEF Release, Active, ActiveSteps
  <2>2. Idle("out") \in Activity /\ Idle("out").at = "out" /\ Idle("out").fn = "none"
    BY ActivationType DEF Idle, Activation
  <2>3. LET b == [call[p] EXCEPT !.at = "semop"] IN
          b \in Activations /\ b.at = "semop" /\ b.fn = call[p].fn /\ b.todo = call[p].todo
    BY <1>1 DEF Activity, Activations
  <2>4. WellFormed([call[p] EXCEPT !.at = "semop"])
    BY <1>1 DEF Activity, Activations, WellFormed
  <2>5. a \in Activity /\ a.at \in {"out", "semop"} /\ (a.fn = "signal" => a.todo <= 1)
    BY <2>2, <2>3, <2>4, <1>4 DEF Activity, TakerInv, Announced
  <2>6. s \in Sems /\ (s = I_MUTEX \/ Waiting(s) # {})
    BY <1>4 DEF Sems, TakerInv, Announced
  <2>7. signal_sem(s, p, a)
    BY <1>4 DEF Release
  <2> HIDE DEF a, s
  <2> QED
    BY <2>1, <2>5, <2>6, <2>7, SignalIsTaken
<1>5. ASSUME NEW p \in Procs, Post(p) PROVE Announced' /\ TokenHasTaker'
  <2> DEFINE a == [call[p] EXCEPT !.at = "semop"]
  <2>1. call[p].at = "post" /\ call[p] \in Activity
    BY <1>1, <1>5 DEF Post
  <2>2. /\ p \in Active /\ call[p].cond \in Conds /\ call[p].cond \in Sems
        /\ call[p].fn \in {"signal", "broadcast"}
    BY <2>1 DEF Activity, WellFormed, Active, ActiveSteps, Sems
  <2>3. /\ a \in Activations /\ a.at = "semop" /\ a.fn = call[p].fn
        /\ a.cond = call[p].cond /\ a.todo = call[p].todo
    BY <1>1 DEF Activity, Activations
  <2>4. WellFormed(a)
    BY <1>1 DEF Activity, Activations, WellFormed
  <2>5. signal_sem(call[p].cond, p, a)
    BY <1>5 DEF Post
  <2> HIDE DEF a
  <2>6. a \in Activity /\ (a.fn = "signal" => a.todo <= 1)
    BY <2>3, <2>4 DEF Activity, TakerInv, Announced
  <2>7. Waiting(call[p].cond) # {} \/ (a.fn = "broadcast" /\ a.cond = call[p].cond)
    BY <2>1, <2>2, <2>3 DEF TakerInv, Announced
  <2> QED
    BY <2>2, <2>3, <2>5, <2>6, <2>7, SignalIsTaken
<1>6. ASSUME NEW p \in Procs, CountQueue(p) PROVE Announced' /\ TokenHasTaker'
  <2>1. p \in Active /\ call[p].fn = "broadcast"
    BY <1>6 DEF CountQueue, Active, ActiveSteps, TakerInv, Announced
  <2>2. call'[p].at \in {"in", "post"} /\ call'[p].fn \in {"none", "broadcast"}
    BY <1>1, <1>6, <2>1 DEF CountQueue, Idle, Activation
  <2>3. UNCHANGED val /\ \A q \in Procs \ {p} : call'[q] = call[q]
    BY <1>1, <1>6 DEF CountQueue
  <2> QED
    BY <2>1, <2>2, <2>3, InsideIsTaken DEF ActiveSteps
<1>7. ASSUME NEW p \in Procs, Interrupted(p) PROVE Announced' /\ TokenHasTaker'
  <2>1. call'[p] = [call[p] EXCEPT !.at = "semop"] /\ call'[p].at = "semop"
    BY <1>1, <1>7 DEF Interrupted, Activity, Activations
  <2>2. UNCHANGED val /\ call[p].at = "blocked" /\ \A q \in Procs \ {p} : call'[q] = call[q]
    BY <1>1, <1>7 DEF Interrupted
  <2> QED
    BY <2>1, <2>2, JoinIsTaken
<1>8. ASSUME NEW p \in Procs, enter_monitor(p) PROVE Announced' /\ TokenHasTaker'
  <2>1. /\ call'[p].at = "semop" /\ call'[p].fn = "enter" /\ call[p].at = "out"
        /\ UNCHANGED val /\ \A q \in Procs \ {p} : call'[q] = call[q]
    BY <1>1, <1>8 DEF enter_monitor, Activation
  <2> QED
    BY <2>1, JoinIsTaken
<1>9. ASSUME NEW p \in Procs,
             \/ leave_monitor(p)
             \/ \E c \in Conds : wait_cond(p, c) \/ signal_cond(p, c) \/ broadcast_cond(p, c)
      PROVE  Announced' /\ TokenHasTaker'
  <2>1. /\ p \in Active /\ UNCHANGED val
        /\ \A q \in Procs \ {p} : call'[q] = call[q]
    BY <1>1, <1>9
       DEF leave_monitor, wait_cond, signal_cond, broadcast_cond, Active, ActiveSteps
  <2>2. CASE leave_monitor(p) \/ \E c \in Conds : wait_cond(p, c)
    <3>1. /\ call'[p].at \in {"preempt", "mutex"} /\ call'[p].fn \in {"leave", "wait"}
          /\ call'[p].at = "preempt" => Queue(I_PREEMPT) # {}
      BY <1>1, <2>2 DEF leave_monitor, wait_cond, Released, Activation
    <3> QED
      BY <2>1, <3>1, InsideIsTaken DEF ActiveSteps
  <2>3. ASSUME NEW c \in Conds, signal_cond(p, c) PROVE Announced' /\ TokenHasTaker'
    <3>1. \/ call'[p] = call[p]
          \/ /\ call'[p].at = "post" /\ call'[p].fn = "signal" /\ call'[p].todo = 1
             /\ call'[p].cond = c /\ Queue(c) # {}
      BY <1>1, <2>3 DEF signal_cond, IS_queue_empty, Activation
    <3> QED
      BY <2>1, <3>1, InsideIsTaken DEF ActiveSteps
  <2>4. ASSUME NEW c \in Conds, broadcast_cond(p, c) PROVE Announced' /\ TokenHasTaker'
    <3>1. call'[p] = call[p] \/ (call'[p].at = "count" /\ call'[p].fn = "broadcast")
      BY <1>1, <2>4 DEF broadcast_cond, Activation
    <3> QED
      BY <2>1, <3>1, InsideIsTaken DEF ActiveSteps
  <2> QED
    BY <1>9, <2>2, <2>3, <2>4
<1> QED
  BY <1>2, <1>3, <1>4, <1>5, <1>6, <1>7, <1>8, <1>9
     DEF Next, Step, Continue, Wait, Signal, Broadcast

\* A signal on a condition or on I_PREEMPT has somebody to take it, but for that of a
\* broadcast: signal_cond, wait_cond and leave_monitor cannot strand the token, for any
\* processes and conditions, and whatever is interrupted.
THEOREM SignalsAreTaken == Spec => []TokenHasTaker
<1>1. Init => Announced /\ TokenHasTaker
  BY DEF Init, Announced, TokenHasTaker, Idle, Activation, Sems
<1>2. Spec => [](TypeOK /\ OneToken)
  BY TypeCorrect, TokenConserved, PTL
<1>3. /\ TypeOK /\ OneToken /\ Announced /\ TokenHasTaker /\ [Next]_vars
      => Announced' /\ TokenHasTaker'
  BY TakerStep DEF TakerInv
<1> QED
  BY <1>1, <1>2, <1>3, PTL DEF Spec
=============================================================================
