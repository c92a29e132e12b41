----------------------------- MODULE MonitorTest -----------------------------
(***************************************************************************)
(* The test of the monitor, src/test/CommonAssignmentIPC01/main_monitor.c: *)
(* a parent waits on a condition that its child signals.  The child stops  *)
(* itself until the parent, which holds the monitor, continues it.         *)
(* The parent's sleep(1) is taken to last until the child has stopped.     *)
(***************************************************************************)
EXTENDS Monitor

CONSTANTS parent, child, cond0    \* Procs is {parent, child}

VARIABLES
    line,       \* the next line of each process
    stopped     \* whether the child is stopped by SIGSTOP
testVars == <<vars, line, stopped>>

\* p is not in a monitor function and its next line is l.
At(p, l) ==
    /\ line[p] = l /\ call[p].at \in {"in", "out"}
    /\ p = child => ~ stopped

Goto(p, l) == line' = [line EXCEPT ![p] = l]

\* The assertions after wait_cond and signal_cond, the last of which counts the
\* processes that are preempted; one that fails aborts the process.
Assert(p, preempted) ==
    LET holds == /\ val[I_MUTEX] = 0 /\ val[I_PREEMPT] = 0
                 /\ GETNCNT(I_PREEMPT) = preempted
    IN Goto(p, IF holds THEN "leave" ELSE "exit")

TestInit ==
    /\ Init
    /\ line = [p \in Procs |-> IF p = parent THEN "enter" ELSE "stop"]
    /\ stopped = FALSE

Parent ==
    \/ /\ At(parent, "enter") /\ stopped /\ enter_monitor(parent)
       /\ Goto(parent, "continue") /\ UNCHANGED stopped
    \* kill(child, SIGCONT)
    \/ /\ At(parent, "continue") /\ stopped' = FALSE
       /\ Goto(parent, "wait_cond") /\ UNCHANGED vars
    \/ /\ At(parent, "wait_cond") /\ wait_cond(parent, cond0)
       /\ Goto(parent, "assert") /\ UNCHANGED stopped
    \/ /\ At(parent, "assert") /\ Assert(parent, 1) /\ UNCHANGED <<vars, stopped>>
    \/ /\ At(parent, "leave") /\ leave_monitor(parent)
       /\ Goto(parent, "wait") /\ UNCHANGED stopped
    \/ /\ At(parent, "wait") /\ line[child] = "exit" /\ call[child].at \in {"in", "out"}
       /\ Goto(parent, "exit") /\ UNCHANGED <<vars, stopped>>

Child ==
    \/ /\ At(child, "stop") /\ stopped' = TRUE
       /\ Goto(child, "enter") /\ UNCHANGED vars
    \/ /\ At(child, "enter") /\ enter_monitor(child)
       /\ Goto(child, "signal_cond") /\ UNCHANGED stopped
    \/ /\ At(child, "signal_cond") /\ signal_cond(child, cond0)
       /\ Goto(child, "assert") /\ UNCHANGED stopped
    \/ /\ At(child, "assert") /\ Assert(child, 0) /\ UNCHANGED <<vars, stopped>>
    \/ /\ At(child, "leave") /\ leave_monitor(child)
       /\ Goto(child, "exit") /\ UNCHANGED stopped

InMonitor(p) == Continue(p) /\ UNCHANGED <<line, stopped>>

TestNext == Parent \/ Child \/ \E p \in Procs : InMonitor(p)

TestSpec ==
    /\ TestInit /\ [][TestNext]_testVars
    /\ WF_testVars(Parent) /\ WF_testVars(Child)
    /\ \A p \in Procs : WF_testVars(InMonitor(p))
-----------------------------------------------------------------------------
\* "Wait for OK from parent" (main_monitor.c:161), then "wait(&retval)" (129):
\* the child gets the OK, and the test comes to its end.
TestEnds == <>(line[parent] = "exit")
=============================================================================
