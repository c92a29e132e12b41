----------------------------- MODULE Philosophers -----------------------------
(***************************************************************************)
(* src/src/GroupAssignmentGIPC01/dining_philosophers.c: each philosopher   *)
(* sits on a chair, takes its two sticks in an order that depends on the   *)
(* parity of its number, eats once and exits; main waits for all of them   *)
(* and removes the semaphores.  A step is one semop.                       *)
(***************************************************************************)
EXTENDS Naturals, FiniteSets

CONSTANT N      \* NUM_PHILOSOPHERS

ASSUME NAssumption == N \in Nat /\ N >= 2

Phils == 0 .. N - 1
Chairs == N     \* the index of the last semaphore of the set
Sems == 0 .. N

VARIABLES
    sem,    \* the values of the semaphore set
    pc,     \* the next step of each philosopher
    main    \* "waiting" for its children, or "ended"
vars == <<sem, pc, main>>

\* The stick on the other side of p: (phil+1) % NUM_PHILOSOPHERS.
Right(p) == IF p = N - 1 THEN 0 ELSE p + 1

\* Mutant: everybody takes the right stick first.
LeftFirst_never(p) == FALSE

\* Who takes the left stick first.
LeftFirst(p) == p % 2 = 1

First(p) == IF LeftFirst(p) THEN p ELSE Right(p)
Second(p) == IF LeftFirst(p) THEN Right(p) ELSE p

Steps == {"join", "first", "second", "eat", "put_right", "leave", "done"}
-----------------------------------------------------------------------------
\* get_sem sets every semaphore to 1; main signals the last one N - 1 times.
Init ==
    /\ sem = [s \in Sems |-> IF s = Chairs THEN 1 + (N - 1) ELSE 1]
    /\ pc = [p \in Phils |-> "join"]
    /\ main = "waiting"

\* Mutant: the semaphore is decremented whatever its value.
Take_unguarded(p, s, from, to) ==
    /\ pc[p] = from
    /\ sem' = [sem EXCEPT ![s] = @ - 1]
    /\ pc' = [pc EXCEPT ![p] = to]
    /\ UNCHANGED main

Take(p, s, from, to) ==
    /\ pc[p] = from
    /\ sem[s] > 0
    /\ sem' = [sem EXCEPT ![s] = @ - 1]
    /\ pc' = [pc EXCEPT ![p] = to]
    /\ UNCHANGED main

Put(p, s, from, to) ==
    /\ pc[p] = from
    /\ sem' = [sem EXCEPT ![s] = @ + 1]
    /\ pc' = [pc EXCEPT ![p] = to]
    /\ UNCHANGED main

\* Mutants: the second stick is not taken, the left one not put back, the left one
\* put back twice.
TakeSecond_missing(p) ==
    /\ pc[p] = "second"
    /\ pc' = [pc EXCEPT ![p] = "eat"]
    /\ UNCHANGED <<sem, main>>

PutLeft_missing(p) ==
    /\ pc[p] = "eat"
    /\ pc' = [pc EXCEPT ![p] = "put_right"]
    /\ UNCHANGED <<sem, main>>

PutRight_left(p) == Put(p, p, "put_right", "leave")

JoinTable(p) == Take(p, Chairs, "join", "first")
TakeFirst(p) == Take(p, First(p), "first", "second")
TakeSecond(p) == Take(p, Second(p), "second", "eat")
PutLeft(p) == Put(p, p, "eat", "put_right")
PutRight(p) == Put(p, Right(p), "put_right", "leave")
LeaveTable(p) == Put(p, Chairs, "leave", "done")

philosopher(p) ==
    \/ JoinTable(p)
    \/ TakeFirst(p)
    \/ TakeSecond(p)
    \/ PutLeft(p)
    \/ PutRight(p)
    \/ LeaveTable(p)

\* main has waited for its N children and removes the set.
End ==
    /\ main = "waiting"
    /\ \A p \in Phils : pc[p] = "done"
    /\ main' = "ended"
    /\ UNCHANGED <<sem, pc>>

Terminated == main = "ended" /\ UNCHANGED vars

Next == (\E p \in Phils : philosopher(p)) \/ End \/ Terminated

Spec == Init /\ [][Next]_vars

\* Processes keep running. Nobody takes a stick twice, so that weak fairness is enough.
FairSpec == Spec /\ WF_vars(End) /\ \A p \in Phils : WF_vars(philosopher(p))
-----------------------------------------------------------------------------
\* The type invariant of the semaphores and the philosophers.
TypeOK ==
    /\ sem \in [Sems -> Nat]
    /\ pc \in [Phils -> Steps]
    /\ main \in {"waiting", "ended"}

\* Whether p holds stick s, by the order in which it takes and puts them.
Holds(p, s) ==
    \/ pc[p] = "second" /\ s = First(p)
    \/ pc[p] = "eat" /\ s \in {p, Right(p)}
    \/ pc[p] = "put_right" /\ s = Right(p)

\* A stick is in one hand at most, and on the table exactly when in none.
StickInOneHand ==
    \A s \in Phils :
        /\ \A p, q \in Phils : Holds(p, s) /\ Holds(q, s) => p = q
        /\ sem[s] = IF \E p \in Phils : Holds(p, s) THEN 0 ELSE 1

\* "Each philosopher to perform his action need to obtain two adiacent rows of
\* the resource": neighbours do not eat at once.
NeighboursExclude == \A p \in Phils : ~ (pc[p] = "eat" /\ pc[Right(p)] = "eat")

\* "Dijkstra solution": whatever they hold and wait for, somebody can go on.
SomebodyCanGoOn ==
    main = "ended" \/ (\A p \in Phils : pc[p] = "done")
    \/ \E p \in Phils :
          \/ pc[p] = "join" /\ sem[Chairs] > 0
          \/ pc[p] = "first" /\ sem[First(p)] > 0
          \/ pc[p] = "second" /\ sem[Second(p)] > 0
          \/ pc[p] \in {"eat", "put_right", "leave"}

\* Every philosopher eats and main comes to its end.
DinnerEnds == (\A p \in Phils : <>(pc[p] = "eat")) /\ <>(main = "ended")
=============================================================================
