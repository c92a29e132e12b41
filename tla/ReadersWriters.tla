---------------------------- MODULE ReadersWriters ----------------------------
(***************************************************************************)
(* The readers and writers of src/src/CommonAssignmentIPC02: the protocol  *)
(* of readwrite_var.c, which readwrite_file.c, readwrite_array.c and       *)
(* readwrite_queue.c share; RWObjects adds what they read and write.       *)
(* A step is one semop, or one load or store of the shared counter.  A     *)
(* semop(-1) is enabled while the semaphore is positive; wait_sem retries  *)
(* it when a signal interrupts it.                                         *)
(*                                                                         *)
(* The programs run until they are killed.  The System V semaphores and    *)
(* the shared memory outlive them: Restart kills every process and runs    *)
(* main again on what they left. A call of the file program that cannot    *)
(* open or write the file returns without giving anything back: Fail.      *)
(***************************************************************************)
EXTENDS Integers, FiniteSets

CONSTANTS
    Readers, Writers,   \* two readers and a writer in the code
    MaxRestarts,        \* how often the program is killed and started again
    MaxFailures         \* how many calls fail

ASSUME ActorsAssumption ==
    IsFiniteSet(Readers) /\ IsFiniteSet(Writers) /\ Readers \cap Writers = {}
ASSUME BoundsAssumption == MaxRestarts \in Nat /\ MaxFailures \in Nat

Actors == Readers \cup Writers
Sems == {"write", "num_readers", "queue"}   \* S_WRITE, S_NUM_READERS, S_QUEUE

VARIABLES
    sem,        \* the values of the semaphore set
    n_readers,  \* the counter in shared memory
    nr,         \* what each reader has loaded of it
    pc,         \* the next step of each process
    restarts,   \* how often main has run again
    failures,   \* how many calls have failed
    lost        \* history: the readers among them since main started
vars == <<sem, n_readers, nr, pc, restarts, failures, lost>>

(***************************************************************************)
(* Steps of a writer: "idle", "queued", "lock", "pass", "writing".         *)
(* Steps of a reader: "idle", "queued", "count", "load" and "add" to       *)
(* increment the counter, "first", "lock" if it is the first, "pass",      *)
(* "counted", "reading", then "load_out" and "sub" to decrement it,        *)
(* "last", "unlock" if it is the last, and "leave".                        *)
(***************************************************************************)
WriterSteps == {"idle", "queued", "lock", "pass", "writing"}
ReaderSteps ==
    {"idle", "queued", "count", "load", "add", "first", "lock", "pass", "counted",
     "reading", "load_out", "sub", "last", "unlock", "leave"}
-----------------------------------------------------------------------------
Go(p, step) ==
    pc' = [pc EXCEPT ![p] = step] /\ UNCHANGED <<sem, restarts, failures, lost>>

\* Mutants: wait_sem on the queue, or on the counter, is left out.
P_no_queue(p, s, step) ==
    IF s = "queue" THEN Go(p, step) /\ UNCHANGED <<n_readers, nr>>
    ELSE /\ sem[s] > 0
         /\ sem' = [sem EXCEPT ![s] = @ - 1]
         /\ pc' = [pc EXCEPT ![p] = step]
         /\ UNCHANGED <<n_readers, nr, restarts, failures, lost>>

P_no_count_lock(p, s, step) ==
    IF s = "num_readers" THEN Go(p, step) /\ UNCHANGED <<n_readers, nr>>
    ELSE /\ sem[s] > 0
         /\ sem' = [sem EXCEPT ![s] = @ - 1]
         /\ pc' = [pc EXCEPT ![p] = step]
         /\ UNCHANGED <<n_readers, nr, restarts, failures, lost>>

\* wait_sem(sem, s, 0) and signal_sem(sem, s, 0) by p, which goes on at step.
P(p, s, step) ==
    /\ sem[s] > 0
    /\ sem' = [sem EXCEPT ![s] = @ - 1]
    /\ pc' = [pc EXCEPT ![p] = step]
    /\ UNCHANGED <<n_readers, nr, restarts, failures, lost>>

V(p, s, step) ==
    /\ sem' = [sem EXCEPT ![s] = @ + 1]
    /\ pc' = [pc EXCEPT ![p] = step]
    /\ UNCHANGED <<n_readers, nr, restarts, failures, lost>>

Load(p, step) == nr' = [nr EXCEPT ![p] = n_readers] /\ Go(p, step) /\ UNCHANGED n_readers
StoreCount(p, n, step) == n_readers' = n /\ Go(p, step) /\ UNCHANGED nr
-----------------------------------------------------------------------------
Call(p) ==
    /\ pc[p] = "idle"
    /\ Go(p, "queued") /\ UNCHANGED <<n_readers, nr>>

writer(w) ==
    \/ pc[w] = "queued" /\ P(w, "queue", "lock")
    \/ pc[w] = "lock" /\ P(w, "write", "pass")
    \/ pc[w] = "pass" /\ V(w, "queue", "writing")
    \/ pc[w] = "writing" /\ V(w, "write", "idle")

\* Mutants: the tests for the first and for the last reader are off by one.
FirstIn_off_by_one(r) ==
    /\ pc[r] = "first"
    /\ Go(r, IF n_readers = 0 THEN "lock" ELSE "pass")
    /\ UNCHANGED <<n_readers, nr>>

LastOut_off_by_one(r) ==
    /\ pc[r] = "last"
    /\ Go(r, IF n_readers = 1 THEN "unlock" ELSE "leave")
    /\ UNCHANGED <<n_readers, nr>>

\* The first reader takes the resource for all of them, the last one gives it back.
FirstIn(r) ==
    /\ pc[r] = "first"
    /\ Go(r, IF n_readers = 1 THEN "lock" ELSE "pass")
    /\ UNCHANGED <<n_readers, nr>>

LastOut(r) ==
    /\ pc[r] = "last"
    /\ Go(r, IF n_readers = 0 THEN "unlock" ELSE "leave")
    /\ UNCHANGED <<n_readers, nr>>

reader(r) ==
    \/ pc[r] = "queued" /\ P(r, "queue", "count")
    \/ pc[r] = "count" /\ P(r, "num_readers", "load")
    \/ pc[r] = "load" /\ Load(r, "add")
    \/ pc[r] = "add" /\ StoreCount(r, nr[r] + 1, "first")
    \/ FirstIn(r)
    \/ pc[r] = "lock" /\ P(r, "write", "pass")
    \/ pc[r] = "pass" /\ V(r, "queue", "counted")
    \/ pc[r] = "counted" /\ V(r, "num_readers", "reading")
    \/ pc[r] = "reading" /\ P(r, "num_readers", "load_out")
    \/ pc[r] = "load_out" /\ Load(r, "sub")
    \/ pc[r] = "sub" /\ StoreCount(r, nr[r] - 1, "last")
    \/ LastOut(r)
    \/ pc[r] = "unlock" /\ V(r, "write", "leave")
    \/ pc[r] = "leave" /\ V(r, "num_readers", "idle")

\* The early returns of the file program: the writer keeps S_WRITE, the reader
\* stays in the counter.
Fail(p) ==
    /\ failures < MaxFailures
    /\ pc[p] \in {"writing", "reading"}
    /\ failures' = failures + 1
    /\ lost' = IF p \in Readers THEN lost + 1 ELSE lost
    /\ pc' = [pc EXCEPT ![p] = "idle"]
    /\ UNCHANGED <<sem, n_readers, nr, restarts>>

\* Mutant: a second main resets the counter while the first one's readers run.
Restart_beside_readers ==
    /\ restarts < MaxRestarts
    /\ restarts' = restarts + 1
    /\ n_readers' = 0
    /\ UNCHANGED <<sem, nr, pc, failures, lost>>

\* main on a set of semaphores and a counter that exist: the counter is reset,
\* get_sem returns the set as it is.
Restart ==
    /\ restarts < MaxRestarts
    /\ restarts' = restarts + 1
    /\ n_readers' = 0
    /\ nr' = [r \in Readers |-> 0]
    /\ pc' = [p \in Actors |-> "idle"]
    /\ lost' = 0
    /\ UNCHANGED <<sem, failures>>

Init ==
    /\ sem = [s \in Sems |-> 1]
    /\ n_readers = 0
    /\ nr = [r \in Readers |-> 0]
    /\ pc = [p \in Actors |-> "idle"]
    /\ restarts = 0
    /\ failures = 0
    /\ lost = 0

Next ==
    \/ \E p \in Actors : Call(p)
    \/ \E w \in Writers : writer(w)
    \/ \E r \in Readers : reader(r)
    \/ \E p \in Actors : Fail(p)
    \/ Restart

Spec == Init /\ [][Next]_vars
-----------------------------------------------------------------------------
\* The type invariant of the semaphores, the counter and the processes.
TypeOK ==
    /\ sem \in [Sems -> Nat]
    /\ n_readers \in Nat
    /\ nr \in [Readers -> Nat]
    /\ pc \in [Actors -> ReaderSteps \cup WriterSteps]
    /\ \A w \in Writers : pc[w] \in WriterSteps
    /\ restarts \in 0 .. MaxRestarts
    /\ failures \in 0 .. MaxFailures
    /\ lost \in 0 .. failures

\* The readers that have added themselves to the counter and not left it.
Counted ==
    {r \in Readers : pc[r] \in {"first", "lock", "pass", "counted", "reading", "load_out", "sub"}}

\* A writer writes alone: no other writer and no reader is in its critical section.
WriterExcludes ==
    \A w \in Writers : pc[w] \in {"pass", "writing"} =>
        /\ \A v \in Writers : pc[v] \in {"pass", "writing"} => v = w
        /\ \A r \in Readers : pc[r] \notin {"pass", "counted", "reading", "load_out", "sub"}

\* The counter, which only the test for the first and the last reader protects the
\* resource with, is the number of readers that went in and not out, those whose call
\* has failed included.
CountIsExact == n_readers = Cardinality(Counted) + lost

\* "Initializing a set of 3 semaphores with value 1" (readwrite_var.c:162): until the
\* program is killed or a call fails, the semaphores are 1 whenever no process is in
\* the protocol.
QuietMeansReleased ==
    restarts + failures = 0 /\ (\A p \in Actors : pc[p] = "idle") => \A s \in Sems : sem[s] = 1

\* S_QUEUE is there so that nobody overtakes: while a process waits for the
\* resource at the head of the queue, nobody joins those that are past it.
NobodyOvertakes ==
    [][\A p, q \in Actors :
        /\ pc[p] = "lock" /\ pc'[p] = "lock"
        /\ pc[q] \in {"idle", "queued"}
        => pc'[q] \in {"idle", "queued"}]_vars

\* Every process that asks for the resource gets it, writers and readers alike, unless
\* the program has been killed or a call has failed.
EverybodyServed ==
    /\ \A w \in Writers : pc[w] = "queued" ~> pc[w] = "writing" \/ restarts + failures > 0
    /\ \A r \in Readers : pc[r] = "queued" ~> pc[r] = "reading" \/ restarts + failures > 0
=============================================================================
