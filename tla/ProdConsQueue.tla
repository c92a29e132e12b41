---------------------------- MODULE ProdConsQueue ----------------------------
(***************************************************************************)
(* The programs main_prod_queue.c and main_cons_queue.c of                 *)
(* src/src/CommonAssignmentIPC02: producers and consumers of a ring buffer *)
(* in shared memory, on the monitor of libsp.c.  What a process does       *)
(* inside the monitor between two of its calls is joined to the call that  *)
(* follows.  The first program that quits removes the queue and the        *)
(* monitor under the others; the behaviours end there.                     *)
(***************************************************************************)
EXTENDS Monitor, Queue, Sequences

CONSTANTS
    Producers, Consumers,
    NOTFULL, NOTEMPTY,
    Values              \* what rand() returns

ASSUME QueueProcsAssumption == Procs = Producers \cup Consumers /\ Producers \cap Consumers = {}
ASSUME QueueCondsAssumption == Conds = {NOTFULL, NOTEMPTY} /\ NOTFULL # NOTEMPTY
ASSUME QueueCallsAssumption == {"wait", "signal"} \subseteq Calls
ASSUME QueueValuesAssumption == Values \subseteq Nat \ {0}

VARIABLES
    queue,      \* *shm_addr
    shm,        \* "none", "created" by a program, or "removed" by one that quits
    pc,         \* the next step of each process in main
    read_val    \* the local variable that is printed, 0 while uninitialised
queueVars == <<queue, shm, pc, read_val>>

QueueSteps == {"start", "create", "init", "ready", "try", "woken", "leave", "exit"}
Goto(p, step) == pc' = [pc EXCEPT ![p] = step]

Inside(p, step) == pc[p] = step /\ call[p].at = "in"
Outside(p, step) == pc[p] = step /\ call[p].at = "out"
-----------------------------------------------------------------------------
QueueInit ==
    /\ Init
    /\ queue = [len |-> 0, front |-> 0, back |-> 0, array |-> [k \in Slots |-> 0]]
    /\ shm = "none"
    /\ pc = [p \in Procs |-> "start"]
    /\ read_val = [p \in Procs |-> 0]

\* The program that creates the segment initialises it when it gets the monitor.
get_shm(p) ==
    /\ pc[p] = "start"
    /\ shm' = "created"
    /\ Goto(p, IF shm = "none" THEN "create" ELSE "ready")
    /\ UNCHANGED <<vars, queue, read_val>>

Enter(p) ==
    /\ \/ Outside(p, "create") /\ Goto(p, "init")
       \/ Outside(p, "ready") /\ Goto(p, "try")
    /\ enter_monitor(p)
    /\ UNCHANGED <<queue, shm, read_val>>

Initialize(p) ==
    /\ Inside(p, "init")
    /\ queue' = Queue_init(queue)
    /\ leave_monitor(p)
    /\ Goto(p, "ready")
    /\ UNCHANGED <<shm, read_val>>

\* Queue_enqueue, then Queue_back and the signal.
Enqueue(p) ==
    /\ Inside(p, "try") /\ p \in Producers
    /\ ~ Queue_isFull(queue)
    /\ \E v \in Values : queue' = Enqueued(queue, v)
    /\ read_val' = [read_val EXCEPT ![p] = Queue_back(queue')]
    /\ signal_cond(p, NOTEMPTY)
    /\ Goto(p, "leave")
    /\ UNCHANGED shm

\* Mutant: the consumer signals the other condition.
Dequeue_swapped(p) ==
    /\ Inside(p, "try") /\ p \in Consumers
    /\ ~ Queue_isEmpty(queue)
    /\ queue' = Dequeued(queue)
    /\ read_val' = [read_val EXCEPT ![p] = Queue_front(queue)]
    /\ signal_cond(p, NOTEMPTY)
    /\ Goto(p, "leave")
    /\ UNCHANGED shm

Dequeue(p) ==
    /\ Inside(p, "try") /\ p \in Consumers
    /\ ~ Queue_isEmpty(queue)
    /\ queue' = Dequeued(queue)
    /\ read_val' = [read_val EXCEPT ![p] = Queue_front(queue)]
    /\ signal_cond(p, NOTFULL)
    /\ Goto(p, "leave")
    /\ UNCHANGED shm

\* The queue is full, or empty: the process waits, and does not try again.
WaitFor(p) ==
    /\ Inside(p, "try")
    /\ IF p \in Producers
       THEN Queue_isFull(queue) /\ wait_cond(p, NOTFULL)
       ELSE Queue_isEmpty(queue) /\ wait_cond(p, NOTEMPTY)
    /\ Goto(p, "woken")
    /\ UNCHANGED <<queue, shm, read_val>>

Woken(p) ==
    /\ Inside(p, "woken")
    /\ IF p \in Producers
       THEN /\ ~ Queue_isEmpty(queue)
            /\ read_val' = [read_val EXCEPT ![p] = Queue_back(queue)]
            /\ signal_cond(p, NOTEMPTY)
       ELSE signal_cond(p, NOTFULL) /\ UNCHANGED read_val
    /\ Goto(p, "leave")
    /\ UNCHANGED <<queue, shm>>

Leave(p) ==
    /\ Inside(p, "leave")
    /\ leave_monitor(p)
    /\ Goto(p, "ready")
    /\ UNCHANGED <<queue, shm, read_val>>

\* Queue_back fails on an empty queue, and the program exits inside the monitor; or
\* the user quits.  exit_procedure removes everything.
exit_procedure(p) ==
    /\ \/ Outside(p, "ready")
       \/ Inside(p, "woken") /\ p \in Producers /\ Queue_isEmpty(queue)
    /\ shm' = "removed"
    /\ Goto(p, "exit")
    /\ UNCHANGED <<vars, queue, read_val>>

\* What p does in main once it has been asked for a value.
Run(p) ==
    \/ Enter(p)
    \/ Initialize(p)
    \/ Enqueue(p)
    \/ Dequeue(p)
    \/ WaitFor(p)
    \/ Woken(p)
    \/ Leave(p)
    \/ Continue(p) /\ UNCHANGED queueVars

QueueNext ==
    /\ shm # "removed"
    /\ \E p \in Procs :
          \/ get_shm(p)
          \/ Run(p)
          \/ exit_procedure(p)
          \/ Interrupted(p) /\ UNCHANGED queueVars

QueueSpec == QueueInit /\ [][QueueNext]_<<vars, queueVars>>
-----------------------------------------------------------------------------
\* The type invariant of the ring buffer and of the programs.
QueueTypeOK ==
    /\ queue \in [len : 0 .. MAXLEN_QUEUE, front : Slots, back : Slots,
                  array : [Slots -> Values \cup {0}]]
    /\ shm \in {"none", "created", "removed"}
    /\ pc \in [Procs -> QueueSteps]
    /\ read_val \in [Procs -> Values \cup {0}]

\* The elements from front to back are a queue: whatever the programs do, each value
\* that was put comes out once and in order, unless the late Queue_init of the program
\* that created the segment empties the queue.
Contents(q) == [k \in 1 .. q.len |-> q.array[(q.front + k - 1) % MAXLEN_QUEUE]]

Abstract ==
    INSTANCE BoundedQueue WITH
        items <- Contents(queue), taken <- [c \in Consumers |-> read_val[c]],
        MaxLen <- MAXLEN_QUEUE

QueueIsFifo == Abstract!Spec

\* "Signal to consumer that there is something in the buffer"
\* (main_prod_queue.c:123): a consumer that is woken finds an element.
WokenFindsElement ==
    \A c \in Consumers : Inside(c, "woken") => ~ Queue_isEmpty(queue)
=============================================================================
