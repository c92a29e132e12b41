-------------------------------- MODULE Queue --------------------------------
(***************************************************************************)
(* The ring buffer of src/src/lib/queue.c: an operator takes the structure *)
(* and gives what the function leaves in it, or what it returns.           *)
(***************************************************************************)
EXTENDS Integers

CONSTANT MAXLEN_QUEUE
ASSUME MaxlenAssumption == MAXLEN_QUEUE \in Nat \ {0}

Slots == 0 .. MAXLEN_QUEUE - 1

Queue_init(q) == [q EXCEPT !.front = 0, !.back = 0, !.len = 0]

Queue_isEmpty(q) == q.len = 0

\* Mutant: the queue is full one element too late.
Queue_isFull_late(q) == q.len > MAXLEN_QUEUE

Queue_isFull(q) == q.len = MAXLEN_QUEUE

Successor(k) == (k + 1) % MAXLEN_QUEUE

\* Queue_enqueue and Queue_dequeue, on a queue that is not full, not empty.
Enqueued(q, v) ==
    [len |-> q.len + 1, front |-> q.front, back |-> Successor(q.back),
     array |-> [q.array EXCEPT ![q.back] = v]]

\* Mutant: len keeps its value.
Dequeued_same_len(q) == [q EXCEPT !.front = Successor(@)]

Dequeued(q) == [q EXCEPT !.front = Successor(@), !.len = @ - 1]

\* What Queue_front gives, and Queue_dequeue.
Queue_front(q) == q.array[q.front]

\* What Queue_back gives.  When back is 0 it reads array[-1], which in the structure
\* is the field before the array: back itself.
Queue_back(q) == IF q.back = 0 THEN q.back ELSE q.array[q.back - 1]
=============================================================================
