------------------------------- MODULE Monitor -------------------------------
(***************************************************************************)
(* The monitor of src/src/CommonAssignmentIPC01/libsp.c: enter_monitor,    *)
(* leave_monitor, wait_cond, signal_cond and broadcast_cond over System V  *)
(* semaphores.  A step is one system call (semop or semctl GETNCNT), since *)
(* the calling process can be preempted between any two of them.           *)
(*                                                                         *)
(* The semaphores are the kernel's: a semop(-1) either takes the semaphore *)
(* or puts the caller in its queue, a semop(+1) hands the semaphore to a   *)
(* queued process or adds one to its value, and GETNCNT counts the queued  *)
(* processes only, not those that are about to call semop.                 *)
(***************************************************************************)
EXTENDS Naturals, FiniteSets

CONSTANTS
    Procs,      \* the processes that share the monitor
    Conds,      \* its condition variables, 0 .. numcond - 1 in the code
    NoCond,     \* not a condition
    Calls,      \* which of wait_cond, signal_cond and broadcast_cond they call
    Signalled   \* the processes whose semop a signal may interrupt (EINTR)

I_MUTEX == "mutex"
I_PREEMPT == "preempt"
Sems == {I_MUTEX, I_PREEMPT} \cup Conds

ASSUME ProcsAssumption == IsFiniteSet(Procs) /\ Procs \cap Sems = {}
ASSUME CondsAssumption ==
    Conds \cap {I_MUTEX, I_PREEMPT} = {} /\ NoCond \notin Sems
ASSUME ClientAssumption ==
    Calls \subseteq {"wait", "signal", "broadcast"} /\ Signalled \subseteq Procs

VARIABLES
    val,    \* the value of each semaphore
    call    \* where each process is in the monitor function it executes
vars == <<val, call>>

(***************************************************************************)
(* call[p].fn is the function p executes and call[p].at its next step:     *)
(*   "out"      outside the monitor        "in"      inside, in no call    *)
(*   "preempt"  will signal I_PREEMPT      "mutex"   will signal I_MUTEX   *)
(*   "count"    will read n_queue          "post"    will signal the       *)
(*   "semop"    will call semop(-1)                  condition             *)
(*   "blocked"  is in the queue of a semaphore                             *)
(* call[p].todo is the number of iterations signal_cond (one) or           *)
(* broadcast_cond (n_queue) has left.                                      *)
(***************************************************************************)
ActiveSteps == {"in", "preempt", "mutex", "count", "post"}
Functions == {"none", "enter", "leave", "wait", "signal", "broadcast"}
Activations == [at : ActiveSteps \cup {"out", "semop", "blocked"}, fn : Functions,
                cond : Conds \cup {NoCond}, todo : Nat]

Activation(at, fn, c, n) == [at |-> at, fn |-> fn, cond |-> c, todo |-> n]
Idle(at) == Activation(at, "none", NoCond, 0)

\* The processes that execute inside the monitor: neither outside, nor waiting
\* on a condition, nor preempted by the process they signalled.
Active == {p \in Procs : call[p].at \in ActiveSteps}

SemOf(p) ==
    IF call[p].fn = "enter" THEN I_MUTEX
    ELSE IF call[p].fn = "wait" THEN call[p].cond ELSE I_PREEMPT

Calling(s) == {p \in Procs : call[p].at = "semop" /\ SemOf(p) = s}
Queue(s) == {p \in Procs : call[p].at = "blocked" /\ SemOf(p) = s}
GETNCNT(s) == Cardinality(Queue(s))
IS_queue_empty(c) == Queue(c) = {}
-----------------------------------------------------------------------------
\* How a process goes on once its semop(-1) is done.
Resumed(a) ==
    IF a.todo > 1 THEN Activation("post", a.fn, a.cond, a.todo - 1) ELSE Idle("in")

wait_sem(p) ==
    LET s == SemOf(p)
    IN /\ call[p].at = "semop"
       /\ \/ /\ val[s] > 0
             /\ val' = [val EXCEPT ![s] = @ - 1]
             /\ call' = [call EXCEPT ![p] = Resumed(@)]
          \/ /\ val[s] = 0
             /\ call' = [call EXCEPT ![p].at = "blocked"]
             /\ UNCHANGED val

\* Mutant: wait_sem returns on EINTR instead of calling semop again.
Interrupted_gives_up(p) ==
    /\ p \in Signalled
    /\ call[p].at = "blocked"
    /\ call' = [call EXCEPT ![p] = Resumed(@)]
    /\ UNCHANGED val

\* A signal interrupts the semop of p: EINTR, and wait_sem calls it again.
Interrupted(p) ==
    /\ p \in Signalled
    /\ call[p].at = "blocked"
    /\ call' = [call EXCEPT ![p].at = "semop"]
    /\ UNCHANGED val

\* p adds one to semaphore s and goes on as activation a.
signal_sem(s, p, a) ==
    \/ /\ Queue(s) = {}
       /\ val' = [val EXCEPT ![s] = @ + 1]
       /\ call' = [call EXCEPT ![p] = a]
    \/ \E q \in Queue(s) :
          /\ call' = [call EXCEPT ![p] = a, ![q] = Resumed(@)]
          /\ UNCHANGED val
-----------------------------------------------------------------------------
enter_monitor(p) ==
    /\ call[p].at = "out"
    /\ call' = [call EXCEPT ![p] = Activation("semop", "enter", NoCond, 0)]
    /\ UNCHANGED val

\* Mutant: the branches on preempt_count are swapped.
Released_swapped == IF Queue(I_PREEMPT) = {} THEN "preempt" ELSE "mutex"

\* The read of GETNCNT that leave_monitor and wait_cond start with.
Released == IF Queue(I_PREEMPT) # {} THEN "preempt" ELSE "mutex"

leave_monitor(p) ==
    /\ call[p].at = "in"
    /\ call' = [call EXCEPT ![p] = Activation(Released, "leave", NoCond, 0)]
    /\ UNCHANGED val

\* Mutant: the number is that of no condition.
wait_cond_off_by_one(p, c) ==
    /\ call[p].at = "in"
    /\ call' = [call EXCEPT ![p] = Activation(Released, "wait", NoCond, 0)]
    /\ UNCHANGED val

wait_cond(p, c) ==
    /\ call[p].at = "in"
    /\ call' = [call EXCEPT ![p] = Activation(Released, "wait", c, 0)]
    /\ UNCHANGED val

\* The signal that gives the monitor away, on the semaphore chosen above.
Release(p) ==
    /\ call[p].at \in {"preempt", "mutex"}
    /\ signal_sem(IF call[p].at = "preempt" THEN I_PREEMPT ELSE I_MUTEX, p,
                  IF call[p].fn = "leave" THEN Idle("out")
                  ELSE [call[p] EXCEPT !.at = "semop"])

\* Mutant: the condition is signalled whether somebody waits on it or not.
signal_cond_unchecked(p, c) ==
    /\ call[p].at = "in"
    /\ call' = [call EXCEPT ![p] = Activation("post", "signal", c, 1)]
    /\ UNCHANGED val

signal_cond(p, c) ==
    /\ call[p].at = "in"
    /\ call' = IF IS_queue_empty(c) THEN call
               ELSE [call EXCEPT ![p] = Activation("post", "signal", c, 1)]
    /\ UNCHANGED val

broadcast_cond(p, c) ==
    /\ call[p].at = "in"
    /\ call' = IF IS_queue_empty(c) THEN call
               ELSE [call EXCEPT ![p] = Activation("count", "broadcast", c, 0)]
    /\ UNCHANGED val

\* broadcast_cond reads n_queue, once, before its loop.
CountQueue(p) ==
    LET n == GETNCNT(call[p].cond)
    IN /\ call[p].at = "count"
       /\ call' = [call EXCEPT ![p] = IF n = 0 THEN Idle("in")
                                        ELSE Activation("post", @.fn, @.cond, n)]
       /\ UNCHANGED val

\* Mutant: the process that signals goes on inside the monitor.
Post_without_preemption(p) ==
    /\ call[p].at = "post"
    /\ signal_sem(call[p].cond, p, Resumed(call[p]))

\* Signals the condition; the wait on I_PREEMPT comes next.
Post(p) ==
    /\ call[p].at = "post"
    /\ signal_sem(call[p].cond, p, [call[p] EXCEPT !.at = "semop"])
-----------------------------------------------------------------------------
Init ==
    /\ val = [s \in Sems |-> IF s = I_MUTEX THEN 1 ELSE 0]
    /\ call = [p \in Procs |-> Idle("out")]

\* What p does by itself once it is in a call.
Continue(p) == wait_sem(p) \/ Release(p) \/ CountQueue(p) \/ Post(p)

\* What p may choose to call.
Wait(p) == "wait" \in Calls /\ \E c \in Conds : wait_cond(p, c)
Signal(p) == "signal" \in Calls /\ \E c \in Conds : signal_cond(p, c)
Broadcast(p) == "broadcast" \in Calls /\ \E c \in Conds : broadcast_cond(p, c)

Step(p) ==
    \/ Continue(p)
    \/ Interrupted(p)
    \/ enter_monitor(p)
    \/ leave_monitor(p)
    \/ Wait(p)
    \/ Signal(p)
    \/ Broadcast(p)

Next == \E p \in Procs : Step(p)

Spec == Init /\ [][Next]_vars

(***************************************************************************)
(* Fairness: a process in a call goes on with it; a process inside the     *)
(* monitor sooner or later leaves it or waits, as every caller in this     *)
(* repository does; and a process that stays in the queue of a semaphore   *)
(* that is signalled again and again gets it, the kernel's queues being    *)
(* first in, first out.  Nobody has to enter, signal or be interrupted.    *)
(***************************************************************************)
Granted(p) ==
    /\ call[p].at = "blocked"
    /\ \E q \in Procs : Release(q) \/ Post(q)
    /\ call'[p].at \in ActiveSteps

Fairness ==
    \A p \in Procs : /\ WF_vars(Continue(p))
                     /\ SF_vars(leave_monitor(p) \/ Wait(p))
                     /\ SF_vars(Granted(p))

FairSpec == Spec /\ Fairness
-----------------------------------------------------------------------------
\* Only the functions on a condition have one, and only signal_cond and
\* broadcast_cond post it.
WellFormed(a) ==
    /\ a.fn \in {"wait", "signal", "broadcast"} <=> a.cond \in Conds
    /\ a.at \in {"count", "post"} \/ a.todo > 0 => a.fn \in {"signal", "broadcast"}

\* The type invariant of the semaphores and of the calls.
TypeOK ==
    /\ val \in [Sems -> Nat]
    /\ call \in [Procs -> {a \in Activations : WellFormed(a)}]

\* The right to execute in the monitor is a single token: a semaphore with a
\* positive value holds it, or the process that executes inside does.
Holders == Active \cup {s \in Sems : val[s] > 0}

\* The token is never lost and never duplicated, whatever mix of calls,
\* hand-overs, interruptions and broadcasts the processes make: so at most one
\* process executes inside, and none can enter while a signalled process or a
\* preempted one is owed the monitor.
OneToken == (\A s \in Sems : val[s] <= 1) /\ \E h \in Procs \cup Sems : Holders = {h}

\* libsp.h calls the I_MUTEX semaphore the mutex: no two processes execute
\* inside the monitor at once.
MutualExclusion == \A p, q \in Active : p = q

\* A broadcast on s that has signalled and waits to go on: another signal may have
\* released the process that it meant to release.
Overrun(s) ==
    \E p \in Procs : /\ call[p].fn = "broadcast" /\ call[p].cond = s
                     /\ call[p].at \in {"semop", "blocked"}

\* A signal on I_PREEMPT or on a condition always has somebody to take it: a value
\* that stays positive belongs to a process between two tries of its semop.  Only a
\* broadcast, which counts the queue once, may signal for nobody, and then the token
\* is stranded and the monitor closed.
TokenHasTaker ==
    \A s \in Sems \ {I_MUTEX} : val[s] > 0 => Calling(s) # {} \/ Overrun(s)

\* Every process that calls enter_monitor, and that no signal interrupts, gets in,
\* unless a broadcast has left the token on a condition that nobody waits on.
EntryServed ==
    \A p \in Procs \ Signalled :
        call[p].fn = "enter" ~>
            \/ call[p].at \in ActiveSteps
            \/ \E c \in Conds : val[c] > 0 /\ Calling(c) = {}
=============================================================================
