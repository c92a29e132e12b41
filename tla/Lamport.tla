------------------------------- MODULE Lamport -------------------------------
(***************************************************************************)
(* Lamport's bakery lock of src/src/GroupAssignmentGIPC01/lamport.c, over  *)
(* the entering and number arrays in shared memory.  A step is one load or *)
(* one store of an array element.  The Makefile sets no optimisation flag  *)
(* and the arrays are plain ints, so every array expression of the source  *)
(* is a load of its own: array_max reads an element once to compare it and *)
(* again to copy it, the second while loop of Lamport_lock reads number[j] *)
(* up to three times.                                                      *)
(*                                                                         *)
(* The code has no memory fence.  On a multiprocessor x86 the stores of a  *)
(* process wait in a buffer of BufferSize entries before the others see    *)
(* them; with BufferSize = 0 memory is sequentially consistent, as on a    *)
(* single processor.                                                       *)
(***************************************************************************)
EXTENDS Integers, Sequences

LOCAL INSTANCE Functions

CONSTANTS
    N,              \* num_procs
    MaxNumber,      \* nobody starts to lock while a number is above it
    BufferSize      \* how many stores a processor buffers

ASSUME NAssumption == N \in Nat \ {0}
ASSUME BoundAssumption == MaxNumber \in Nat
ASSUME MemoryAssumption == BufferSize \in Nat

Procs == 0 .. N - 1

VARIABLES
    entering,   \* lamport->entering, in shared memory
    number,     \* lamport->number, in shared memory
    pending,    \* the stores of each process that memory has not seen yet
    pc,         \* the next step of each process
    max,        \* max of array_max
    scan,       \* i of array_max, then j of Lamport_lock
    ahead       \* history: who was already waiting when the process started to lock
vars == <<entering, number, pending, pc, max, scan, ahead>>

(***************************************************************************)
(* pc[i] is "out" (not locking), then                                      *)
(*   "compare", "copy"   the two loads of array[i] in array_max            *)
(*   "ticket", "ready"   the stores to number[id] and entering[id] after it*)
(*   "entering"          the first while loop, on entering[j]              *)
(*   "zero", "less", "equal"  the three loads of number[j] in the second   *)
(*   "critical"          Lamport_lock has returned                         *)
(***************************************************************************)
Waiting == {"entering", "zero", "less", "equal"}
Steps == {"out", "compare", "copy", "ticket", "ready", "critical"} \cup Waiting
-----------------------------------------------------------------------------
\* The last value that i stored to its element of an array, memory or not.
Stored(i, array, inMemory) ==
    LET mine == {k \in DOMAIN pending[i] : pending[i][k][1] = array}
    IN IF mine = {} THEN inMemory
       ELSE pending[i][CHOOSE k \in mine : \A l \in mine : l <= k][2]

LoadNumber(i, j) == IF i = j THEN Stored(i, "number", number[j]) ELSE number[j]
LoadEntering(i, j) == IF i = j THEN Stored(i, "entering", entering[j]) ELSE entering[j]

ToMemory(i, array, v) ==
    /\ entering' = IF array = "entering" THEN [entering EXCEPT ![i] = v] ELSE entering
    /\ number' = IF array = "number" THEN [number EXCEPT ![i] = v] ELSE number

Store(i, array, v) ==
    IF BufferSize > 0
    THEN /\ Len(pending[i]) < BufferSize
         /\ pending' = [pending EXCEPT ![i] = Append(@, <<array, v>>)]
         /\ UNCHANGED <<entering, number>>
    ELSE ToMemory(i, array, v) /\ UNCHANGED pending

\* The processor writes the oldest pending store of i to memory.
Drain(i) ==
    /\ pending[i] # <<>>
    /\ ToMemory(i, Head(pending[i])[1], Head(pending[i])[2])
    /\ pending' = [pending EXCEPT ![i] = Tail(@)]
    /\ UNCHANGED <<pc, max, scan, ahead>>
-----------------------------------------------------------------------------
Init ==
    /\ entering = [i \in Procs |-> 0]
    /\ number = [i \in Procs |-> 0]
    /\ pending = [i \in Procs |-> <<>>]
    /\ pc = [i \in Procs |-> "out"]
    /\ max = [i \in Procs |-> 0]
    /\ scan = [i \in Procs |-> 0]
    /\ ahead = [i \in Procs |-> {}]

\* The bound on the customers: no number stored, pending or just read is above n.
NumbersBelow(n) ==
    \A j \in Procs : /\ number[j] <= n /\ max[j] <= n
                     /\ \A w \in Range(pending[j]) : w[2] <= n

\* entering[id] = 1, and array_max starts: numbers are never negative, so that
\* starting from 0 is starting from INT_MIN.
Lamport_lock(i) ==
    /\ pc[i] = "out"
    /\ NumbersBelow(MaxNumber)
    /\ Store(i, "entering", 1)
    /\ pc' = [pc EXCEPT ![i] = "compare"]
    /\ max' = [max EXCEPT ![i] = 0]
    /\ scan' = [scan EXCEPT ![i] = 0]
    /\ ahead' = [ahead EXCEPT ![i] = {j \in Procs : pc[j] \in Waiting}]

\* Mutant: array_max runs one element past the end of the array.
NextElement_past_end(i) ==
    /\ scan' = [scan EXCEPT ![i] = @ + 1]
    /\ pc' = [pc EXCEPT ![i] = IF scan[i] = N THEN "ticket" ELSE "compare"]

\* The element at scan[i] is done with.
NextElement(i) ==
    /\ scan' = [scan EXCEPT ![i] = IF @ + 1 = N THEN 0 ELSE @ + 1]
    /\ pc' = [pc EXCEPT ![i] = IF scan[i] + 1 = N THEN "ticket" ELSE "compare"]

Compare(i) ==
    /\ pc[i] = "compare"
    /\ IF LoadNumber(i, scan[i]) > max[i]
       THEN pc' = [pc EXCEPT ![i] = "copy"] /\ UNCHANGED scan
       ELSE NextElement(i)
    /\ UNCHANGED <<entering, number, pending, max, ahead>>

Copy(i) ==
    /\ pc[i] = "copy"
    /\ max' = [max EXCEPT ![i] = LoadNumber(i, scan[i])]
    /\ NextElement(i)
    /\ UNCHANGED <<entering, number, pending, ahead>>

TakeTicket(i) ==
    /\ pc[i] = "ticket"
    /\ Store(i, "number", 1 + max[i])
    /\ pc' = [pc EXCEPT ![i] = "ready"]
    /\ max' = [max EXCEPT ![i] = 0]
    /\ UNCHANGED <<scan, ahead>>

Ready(i) ==
    /\ pc[i] = "ready"
    /\ Store(i, "entering", 0)
    /\ pc' = [pc EXCEPT ![i] = "entering"]
    /\ UNCHANGED <<max, scan, ahead>>

\* Mutant: the first while loop is left out.
WaitEntering_missing(i) ==
    /\ pc[i] = "entering"
    /\ pc' = [pc EXCEPT ![i] = "zero"]
    /\ UNCHANGED <<entering, number, pending, max, scan, ahead>>

\* while (entering[j]) sched_yield();
WaitEntering(i) ==
    /\ pc[i] = "entering"
    /\ LoadEntering(i, scan[i]) = 0
    /\ pc' = [pc EXCEPT ![i] = "zero"]
    /\ UNCHANGED <<entering, number, pending, max, scan, ahead>>

\* Customer j does not go first: on to the next one, or into the section.
NextCustomer(i) ==
    IF scan[i] + 1 = N
    THEN /\ pc' = [pc EXCEPT ![i] = "critical"]
         /\ scan' = [scan EXCEPT ![i] = 0]
         /\ ahead' = [j \in Procs |-> IF j = i THEN ahead[i] ELSE ahead[j] \ {i}]
    ELSE /\ pc' = [pc EXCEPT ![i] = "entering"]
         /\ scan' = [scan EXCEPT ![i] = @ + 1]
         /\ UNCHANGED ahead

Goto(i, step) == pc' = [pc EXCEPT ![i] = step] /\ UNCHANGED <<scan, ahead>>

WaitZero(i) ==
    /\ pc[i] = "zero"
    /\ IF LoadNumber(i, scan[i]) = 0 THEN NextCustomer(i) ELSE Goto(i, "less")
    /\ UNCHANGED <<entering, number, pending, max>>

\* Mutant: the comparison of the numbers is the wrong way round.
WaitLess_reversed(i) ==
    /\ pc[i] = "less"
    /\ Goto(i, IF LoadNumber(i, scan[i]) > LoadNumber(i, i) THEN "zero" ELSE "equal")
    /\ UNCHANGED <<entering, number, pending, max>>

WaitLess(i) ==
    /\ pc[i] = "less"
    /\ Goto(i, IF LoadNumber(i, scan[i]) < LoadNumber(i, i) THEN "zero" ELSE "equal")
    /\ UNCHANGED <<entering, number, pending, max>>

WaitEqual(i) ==
    /\ pc[i] = "equal"
    /\ IF LoadNumber(i, scan[i]) = LoadNumber(i, i) /\ scan[i] < i
       THEN Goto(i, "zero")
       ELSE NextCustomer(i)
    /\ UNCHANGED <<entering, number, pending, max>>

\* Mutant: number[id] keeps its value.
Lamport_unlock_missing(i) ==
    /\ pc[i] = "critical"
    /\ pc' = [pc EXCEPT ![i] = "out"]
    /\ ahead' = [ahead EXCEPT ![i] = {}]
    /\ UNCHANGED <<entering, number, pending, max, scan>>

Lamport_unlock(i) ==
    /\ pc[i] = "critical"
    /\ Store(i, "number", 0)
    /\ pc' = [pc EXCEPT ![i] = "out"]
    /\ ahead' = [ahead EXCEPT ![i] = {}]
    /\ UNCHANGED <<max, scan>>

\* What a process does by itself once it has started to lock.
Continue(i) ==
    \/ Compare(i)
    \/ Copy(i)
    \/ TakeTicket(i)
    \/ Ready(i)
    \/ WaitEntering(i)
    \/ WaitZero(i)
    \/ WaitLess(i)
    \/ WaitEqual(i)
    \/ Lamport_unlock(i)

Next == \E i \in Procs : Lamport_lock(i) \/ Continue(i)

Spec == Init /\ [][Next]_vars

\* A process that locks keeps running and leaves its critical section; nobody
\* has to lock.
FairSpec == Spec /\ \A i \in Procs : WF_vars(Continue(i))

\* With BufferSize > 0 the processors write their buffers to memory meanwhile.
BufferedNext == Next \/ \E i \in Procs : Drain(i)

BufferedSpec == Init /\ [][BufferedNext]_vars
-----------------------------------------------------------------------------
\* The type invariant of the shared arrays and of the local variables.
TypeOK ==
    /\ entering \in [Procs -> {0, 1}]
    /\ number \in [Procs -> Nat]
    /\ pending \in [Procs -> Seq({"entering", "number"} \X Nat)]
    /\ pc \in [Procs -> Steps]
    /\ max \in [Procs -> Nat]
    /\ scan \in [Procs -> Procs]
    /\ ahead \in [Procs -> SUBSET Procs]

\* Lamport_lock returns to one process at a time.
MutualExclusion ==
    \A i, j \in Procs : pc[i] = "critical" /\ pc[j] = "critical" => i = j

\* First come, first served: a process that was waiting when i called
\* Lamport_lock has been in its critical section before i is.
FirstComeFirstServed == \A i \in Procs : pc[i] = "critical" => ahead[i] = {}

\* Every call of Lamport_lock returns.
LockServed == \A i \in Procs : pc[i] = "compare" ~> pc[i] = "critical"
=============================================================================
