------------------------------- MODULE RWObjects -------------------------------
(***************************************************************************)
(* What the four programs readwrite_*.c of src/src/CommonAssignmentIPC02   *)
(* read and write in their critical sections: a variable, one batch of an  *)
(* array, a file, a queue.  The values that a writer stores in the         *)
(* variable, in the array or appends to the file are abstracted to a       *)
(* value of the whole object.  pop takes one step for each load and store: *)
(* readers hold the lock together.                                         *)
(***************************************************************************)
EXTENDS ReadersWriters, Sequences

CONSTANTS
    Values,         \* values of the object, elements of the queue
    Zero,           \* what main stores first; the file that does not exist yet
    BUFFER_SIZE,    \* of the queue
    MaxElements     \* nobody calls any more above this count of elements, nor after
                    \* two readers have crossed in pop

ASSUME ObjectsAssumption ==
    /\ BUFFER_SIZE \in Nat \ {0} /\ MaxElements \in Nat
    /\ Zero \in Values

Programs == {"var", "array", "file", "queue"}

VARIABLES
    program,    \* the program that runs
    at,         \* the next step of each process in its critical section
    content,    \* of the variable, the array, the file
    queue,      \* batch, front, back and num_elements
    tmp,        \* the count, or the index, that a reader has loaded in pop
    seen,       \* what a reader has read
    held,       \* history: the elements pushed and not popped
    crossed     \* history: two readers in pop at once, or a full queue
objects == <<program, at, content, queue, tmp, seen, held, crossed>>
allvars == <<vars, objects>>

Sections == {"writing", "reading"}
popping == {"dec", "dec_store", "elem", "back", "back_store"}
-----------------------------------------------------------------------------
initQueue(batch) == [batch |-> batch, front |-> 0, back |-> 0, num |-> 0]

ObjInit ==
    /\ Init
    /\ program \in Programs
    /\ at = [p \in Actors |-> "done"]
    /\ content = Zero
    /\ queue = initQueue([i \in 0 .. BUFFER_SIZE - 1 |-> Zero])
    /\ seen = [r \in Readers |-> Zero]
    /\ tmp = [r \in Readers |-> 0]
    /\ held = <<>>
    /\ crossed = FALSE

\* A process that is in its critical section has the lock of ReadersWriters.
Inside(p, step) == pc[p] \in Sections /\ at[p] = step /\ UNCHANGED vars
To(p, step) == at' = [at EXCEPT ![p] = step] /\ UNCHANGED program

\* A step of the protocol; a process that gets to its section has it before it, one that
\* leaves it has done with the object and forgets what it has read.
Protocol(p) ==
    /\ \/ p \in Writers /\ writer(p)
       \/ p \in Readers /\ reader(p)
    /\ pc[p] \in Sections => at[p] = "done"
    /\ To(p, IF pc'[p] \in Sections THEN "begin" ELSE "done")
    /\ seen' = IF p \in Readers THEN [seen EXCEPT ![p] = Zero] ELSE seen
    /\ UNCHANGED <<content, queue, tmp, held, crossed>>

ObjCall(p) ==
    /\ Call(p)
    /\ ~crossed /\ queue.num <= MaxElements
    /\ UNCHANGED objects
-----------------------------------------------------------------------------
OpenFile(p) ==
    /\ program = "file" /\ Inside(p, "begin")
    /\ To(p, "opened")
    /\ UNCHANGED <<content, queue, tmp, seen, held, crossed>>

\* open fails, or write does. A read that fails ends the loop as the end of the file does.
FailFile(p) ==
    /\ program = "file"
    /\ at[p] = "begin" \/ (p \in Writers /\ at[p] = "opened")
    /\ Fail(p)
    /\ To(p, "done")
    /\ UNCHANGED <<content, queue, tmp, seen, held, crossed>>

\* The point from which the variable, the array or the file is accessed.
Access(p) ==
    \/ program \in {"var", "array"} /\ Inside(p, "begin")
    \/ program = "file" /\ Inside(p, "opened")

Write(w) ==
    /\ Access(w)
    /\ content' \in Values \ {content}
    /\ To(w, "done")
    /\ UNCHANGED <<queue, tmp, seen, held, crossed>>

Read(r) ==
    /\ Access(r)
    /\ seen' = [seen EXCEPT ![r] = content]
    /\ To(r, "done")
    /\ UNCHANGED <<content, queue, tmp, held, crossed>>
-----------------------------------------------------------------------------
\* The number that a writer writes is a new one each time.
Youngest == queue.batch[(queue.front + BUFFER_SIZE - 1) % BUFFER_SIZE]

\* Mutant: the oldest element is overwritten.
push_at_back(w) ==
    /\ program = "queue" /\ Inside(w, "begin")
    /\ \E v \in Values \ {Youngest} :
         IF queue.num + 1 = BUFFER_SIZE
         THEN /\ queue' = [queue EXCEPT !.num = @ + 1]
              /\ crossed' = TRUE
              /\ UNCHANGED held
         ELSE /\ queue' = [queue EXCEPT !.num = @ + 1, !.batch[queue.back] = v,
                                        !.front = (@ + 1) % BUFFER_SIZE]
              /\ held' = Append(held, v)
              /\ UNCHANGED crossed
    /\ To(w, "done")
    /\ UNCHANGED <<content, tmp, seen>>

\* push counts the element before it finds that the queue is full.
push(w) ==
    /\ program = "queue" /\ Inside(w, "begin")
    /\ \E v \in Values \ {Youngest} :
         IF queue.num + 1 = BUFFER_SIZE
         THEN /\ queue' = [queue EXCEPT !.num = @ + 1]
              /\ crossed' = TRUE
              /\ UNCHANGED held
         ELSE /\ queue' = [queue EXCEPT !.num = @ + 1, !.batch[queue.front] = v,
                                        !.front = (@ + 1) % BUFFER_SIZE]
              /\ held' = Append(held, v)
              /\ UNCHANGED crossed
    /\ To(w, "done")
    /\ UNCHANGED <<content, tmp, seen>>

\* The steps of pop: the test, the decrement, the element, the increment of back.
Pop(r, from, to) ==
    /\ program = "queue" /\ Inside(r, from)
    /\ To(r, to)
    /\ crossed' = (crossed \/ \E q \in Readers \ {r} : at[q] \in popping)
    /\ UNCHANGED content

pop_tests(r) ==
    /\ Pop(r, "begin", IF queue.num = 0 THEN "done" ELSE "dec")
    /\ UNCHANGED <<queue, tmp, seen, held>>

pop_loads_num(r) ==
    /\ Pop(r, "dec", "dec_store")
    /\ tmp' = [tmp EXCEPT ![r] = queue.num]
    /\ UNCHANGED <<queue, seen, held>>

pop_stores_num(r) ==
    /\ Pop(r, "dec_store", "elem")
    /\ queue' = [queue EXCEPT !.num = tmp[r] - 1]
    /\ UNCHANGED <<tmp, seen, held>>

pop_loads_element(r) ==
    /\ Pop(r, "elem", "back")
    /\ seen' = [seen EXCEPT ![r] = queue.batch[queue.back]]
    /\ UNCHANGED <<queue, tmp, held>>

pop_loads_back(r) ==
    /\ Pop(r, "back", "back_store")
    /\ tmp' = [tmp EXCEPT ![r] = queue.back]
    /\ UNCHANGED <<queue, seen, held>>

pop_stores_back(r) ==
    /\ Pop(r, "back_store", "done")
    /\ queue' = [queue EXCEPT !.back = (tmp[r] + 1) % BUFFER_SIZE]
    /\ held' = IF held = <<>> THEN held ELSE Tail(held)
    /\ tmp' = [tmp EXCEPT ![r] = 0]
    /\ UNCHANGED seen

pop(r) ==
    \/ pop_tests(r) \/ pop_loads_num(r) \/ pop_stores_num(r)
    \/ pop_loads_element(r) \/ pop_loads_back(r) \/ pop_stores_back(r)
-----------------------------------------------------------------------------
\* The segment of the array is a new one each time, that of the others is the one that
\* the key names: all are reset.
ObjRestart ==
    /\ Restart
    /\ at' = [p \in Actors |-> "done"]
    /\ queue' = initQueue(queue.batch)
    /\ held' = <<>>
    /\ crossed' = FALSE
    /\ tmp' = [r \in Readers |-> 0]
    /\ content' = IF program = "file" THEN content ELSE Zero
    /\ UNCHANGED <<program, seen>>

Step(p) ==
    \/ Protocol(p)
    \/ OpenFile(p)
    \/ p \in Writers /\ (Write(p) \/ push(p))
    \/ p \in Readers /\ (Read(p) \/ pop(p))

ObjNext ==
    \/ \E p \in Actors : ObjCall(p) \/ Step(p) \/ FailFile(p)
    \/ ObjRestart

ObjSpec == ObjInit /\ [][ObjNext]_allvars

\* The queue of a System V semaphore is first in, first out: a process that waits
\* for a semaphore that is released again and again gets it.
FairSpec == ObjSpec /\ \A p \in Actors : SF_allvars(Step(p))
-----------------------------------------------------------------------------
\* What a reader has read of the variable, the array or the file is what is there for
\* as long as it reads, also after a restart on semaphores that a kill left taken.
ReadsOneVersion ==
    \A r \in Readers :
        pc[r] = "reading" /\ at[r] = "done" /\ program # "queue" => seen[r] = content

\* "Getting the element to the back of the queue" (readwrite_queue.c:94): pop gives the
\* elements in the order in which they were pushed, until two readers have been in it
\* at once or the queue has been full.
PopsInOrder ==
    [][\A r \in Readers :
        /\ at[r] = "back_store" /\ at'[r] = "done" /\ restarts' = restarts
        /\ ~crossed'
        => held # <<>> /\ seen[r] = Head(held)]_allvars
=============================================================================
