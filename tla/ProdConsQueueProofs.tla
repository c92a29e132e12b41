-------------------------- MODULE ProdConsQueueProofs --------------------------
(***************************************************************************)
(* The producers and consumers of a queue, for any numbers of them and any *)
(* length of the queue: they keep to the protocol of the monitor, the ring *)
(* buffer of queue.c is a queue, and a consumer that is woken finds an     *)
(* element.                                                                *)
(***************************************************************************)
EXTENDS ProdConsQueue, MonitorProofs, SequenceTheorems

Slot(x) == x % MAXLEN_QUEUE
Rings == [len : 0 .. MAXLEN_QUEUE, front : Slots, back : Slots, array : [Slots -> Values \cup {0}]]

\* back is where the next element goes.
Closed(q) == q.back = Slot(q.front + q.len)

\* An index that is behind the end goes round once.
LEMMA Wrap ==
    ASSUME NEW x \in Nat, x < 2 * MAXLEN_QUEUE
    PROVE  /\ Slot(x) = IF x < MAXLEN_QUEUE THEN x ELSE x - MAXLEN_QUEUE
           /\ Slot(x) \in Slots
<1>1. CASE x < MAXLEN_QUEUE
  BY <1>1, MaxlenAssumption DEF Slot, Slots
<1>2. CASE x >= MAXLEN_QUEUE
  BY <1>2, MaxlenAssumption DEF Slot, Slots
<1> QED
  BY <1>1, <1>2, MaxlenAssumption DEF Slot

\* Where the k-th element is.
LEMMA Places ==
    ASSUME NEW q \in Rings
    PROVE  \A k \in 0 .. q.len :
             /\ Slot(q.front + k) = IF q.front + k < MAXLEN_QUEUE THEN q.front + k
                                    ELSE q.front + k - MAXLEN_QUEUE
             /\ Slot(q.front + k) \in Slots
BY Wrap, MaxlenAssumption DEF Rings, Slots

LEMMA ContentsType ==
    ASSUME NEW q \in Rings
    PROVE  /\ Contents(q) \in Seq(Values \cup {0})
           /\ Len(Contents(q)) = q.len
           /\ \A k \in 1 .. q.len : Contents(q)[k] = q.array[Slot(q.front + k - 1)]
<1>1. q.len \in Nat /\ q.array \in [Slots -> Values \cup {0}] /\ q.front \in Nat
  BY MaxlenAssumption DEF Rings, Slots
<1>2. \A k \in 1 .. q.len : Slot(q.front + k - 1) \in Slots
  <2> SUFFICES ASSUME NEW k \in 1 .. q.len PROVE Slot(q.front + k - 1) \in Slots
    OBVIOUS
  <2>1. k - 1 \in 0 .. q.len /\ q.front + k - 1 = q.front + (k - 1)
    BY <1>1
  <2> QED
    BY <2>1, Places
<1>3. Contents(q) \in [1 .. q.len -> Values \cup {0}]
  BY <1>1, <1>2 DEF Contents, Slot
<1> QED
  BY <1>1, <1>2, <1>3 DEF Contents, Slot

LEMMA EnqueueAppends ==
    ASSUME NEW q \in Rings, Closed(q), ~ Queue_isFull(q), NEW v \in Values
    PROVE  /\ Enqueued(q, v) \in Rings
           /\ Closed(Enqueued(q, v))
           /\ Contents(Enqueued(q, v)) = Append(Contents(q), v)
<1> DEFINE r == Enqueued(q, v)
           M == MAXLEN_QUEUE
<1>1. /\ q.len \in 0 .. M - 1 /\ M \in Nat \ {0} /\ q.front \in 0 .. M - 1
      /\ q.back = Slot(q.front + q.len)
      /\ q.back = IF q.front + q.len < M THEN q.front + q.len ELSE q.front + q.len - M
      /\ q.back \in 0 .. M - 1
      /\ q.array \in [Slots -> Values \cup {0}]
  BY MaxlenAssumption, Places DEF Rings, Slots, Queue_isFull, Closed
<1>2. /\ r.len = q.len + 1 /\ r.front = q.front /\ r.back = Slot(q.back + 1)
      /\ r.array = [q.array EXCEPT ![q.back] = v]
  BY DEF Enqueued, Successor, Slot
<1>3. Slot(q.back + 1) = (IF q.back + 1 < M THEN q.back + 1 ELSE q.back + 1 - M)
      /\ Slot(q.back + 1) \in Slots
  BY <1>1, Wrap
<1>4. r \in Rings
  <2>1. [q.array EXCEPT ![q.back] = v] \in [Slots -> Values \cup {0}]
    BY <1>1
  <2>2. q.len + 1 \in 0 .. MAXLEN_QUEUE /\ q.front \in Slots
    BY <1>1 DEF Slots
  <2> QED
    BY <2>1, <2>2, <1>3 DEF Rings, Enqueued, Successor, Slot
<1>5. Closed(r)
  <2>1. Slot(q.front + (q.len + 1)) = IF q.front + (q.len + 1) < M THEN q.front + (q.len + 1)
                                      ELSE q.front + (q.len + 1) - M
    BY <1>1, Wrap
  <2> QED
    BY <1>1, <1>2, <1>3, <2>1 DEF Closed
<1>6. Contents(r) = Append(Contents(q), v)
  <2>1. /\ Contents(q) \in Seq(Values \cup {0}) /\ Len(Contents(q)) = q.len
        /\ Contents(r) \in Seq(Values \cup {0}) /\ Len(Contents(r)) = q.len + 1
        /\ \A k \in 1 .. q.len : Contents(q)[k] = q.array[Slot(q.front + k - 1)]
        /\ \A k \in 1 .. q.len + 1 : Contents(r)[k] = r.array[Slot(q.front + k - 1)]
    BY <1>2, <1>4, ContentsType
  <2>2. /\ Append(Contents(q), v) \in Seq(Values \cup {0})
        /\ Len(Append(Contents(q), v)) = q.len + 1
        /\ \A k \in 1 .. q.len : Append(Contents(q), v)[k] = Contents(q)[k]
        /\ Append(Contents(q), v)[q.len + 1] = v
    BY <2>1, AppendProperties
  <2>3. ASSUME NEW k \in 1 .. q.len + 1 PROVE Contents(r)[k] = Append(Contents(q), v)[k]
    <3>1. PICK i \in 0 .. q.len : i = k - 1 /\ q.front + k - 1 = q.front + i
      BY <1>1
    <3>2. /\ Slot(q.front + i) \in Slots
          /\ Slot(q.front + i) = IF q.front + i < M THEN q.front + i ELSE q.front + i - M
      BY Places, <3>1
    <3>3. Slot(q.front + i) = q.back <=> k = q.len + 1
      BY <1>1, <3>1, <3>2
    <3>4. r.array[Slot(q.front + i)] = IF k = q.len + 1 THEN v ELSE q.array[Slot(q.front + i)]
      BY <1>1, <1>2, <3>2, <3>3
    <3>5. CASE k = q.len + 1
      BY <2>1, <2>2, <3>1, <3>4, <3>5
    <3>6. CASE k # q.len + 1
      <4>1. k \in 1 .. q.len
        BY <1>1, <3>6
      <4> QED
        BY <2>1, <2>2, <3>1, <3>4, <3>6, <4>1
    <3> QED
      BY <3>5, <3>6
  <2> QED
    BY <2>1, <2>2, <2>3, SeqEqual
<1> QED
  BY <1>4, <1>5, <1>6

LEMMA DequeueTakesHead ==
    ASSUME NEW q \in Rings, Closed(q), ~ Queue_isEmpty(q)
    PROVE  /\ Dequeued(q) \in Rings
           /\ Closed(Dequeued(q))
           /\ Contents(q) # <<>>
           /\ Queue_front(q) = Head(Contents(q))
           /\ Contents(Dequeued(q)) = Tail(Contents(q))
<1> DEFINE r == Dequeued(q)
           M == MAXLEN_QUEUE
           next == Slot(q.front + 1)
<1>1. /\ q.len \in 1 .. M /\ M \in Nat \ {0} /\ q.front \in 0 .. M - 1
      /\ q.back = Slot(q.front + q.len)
      /\ q.back \in Slots /\ q.array \in [Slots -> Values \cup {0}]
  BY MaxlenAssumption DEF Rings, Slots, Queue_isEmpty, Closed
<1>2. /\ r.len = q.len - 1 /\ r.front = next /\ r.back = q.back /\ r.array = q.array
      /\ r = [len |-> q.len - 1, front |-> next, back |-> q.back, array |-> q.array]
  <2>1. q = [len |-> q.len, front |-> q.front, back |-> q.back, array |-> q.array]
    BY DEF Rings
  <2>2. r = [[q EXCEPT !.front = next] EXCEPT !.len = q.len - 1]
    BY DEF Dequeued, Successor, Slot
  <2>3. r = [len |-> q.len - 1, front |-> next, back |-> q.back, array |-> q.array]
    BY <2>1, <2>2
  <2> QED
    BY <2>3
<1>3. next = (IF q.front + 1 < M THEN q.front + 1 ELSE q.front + 1 - M) /\ next \in Slots
  BY <1>1, Wrap
<1> HIDE DEF next
<1>4. r \in Rings
  <2>1. q.len - 1 \in 0 .. MAXLEN_QUEUE
    BY <1>1
  <2> QED
    BY <1>1, <1>2, <1>3, <2>1 DEF Rings
<1>5. \A i \in 0 .. q.len - 1 : Slot(next + i) = Slot(q.front + (i + 1))
  <2> SUFFICES ASSUME NEW i \in 0 .. q.len - 1 PROVE Slot(next + i) = Slot(q.front + (i + 1))
    OBVIOUS
  <2>1. next \in 0 .. M - 1
    BY <1>3 DEF Slots
  <2>2. Slot(next + i) = IF next + i < M THEN next + i ELSE next + i - M
    BY <1>1, <2>1, Wrap
  <2>3. Slot(q.front + (i + 1)) = IF q.front + (i + 1) < M THEN q.front + (i + 1)
                                  ELSE q.front + (i + 1) - M
    BY <1>1, Wrap
  <2> QED
    BY <1>1, <1>3, <2>1, <2>2, <2>3
<1>6. Closed(r)
  <2>1. Slot(next + (q.len - 1)) = Slot(q.front + (q.len - 1 + 1))
    BY <1>1, <1>5
  <2>2. q.len - 1 + 1 = q.len
    BY <1>1
  <2> QED
    BY <1>1, <1>2, <2>1, <2>2 DEF Closed
<1>7. /\ Contents(q) \in Seq(Values \cup {0}) /\ Len(Contents(q)) = q.len
      /\ Contents(r) \in Seq(Values \cup {0}) /\ Len(Contents(r)) = q.len - 1
      /\ \A k \in 1 .. q.len : Contents(q)[k] = q.array[Slot(q.front + k - 1)]
      /\ \A k \in 1 .. q.len - 1 : Contents(r)[k] = q.array[Slot(next + k - 1)]
  BY <1>2, <1>4, ContentsType
<1>8. Contents(q) # <<>> /\ Head(Contents(q)) = Contents(q)[1]
  BY <1>1, <1>7
<1>9. Contents(q)[1] = Queue_front(q)
  <2>1. q.front + 1 - 1 = q.front /\ 1 \in 1 .. q.len
    BY <1>1
  <2>2. Slot(q.front) = q.front
    BY <1>1, Wrap
  <2> QED
    BY <1>7, <2>1, <2>2 DEF Queue_front
<1>10. Contents(r) = Tail(Contents(q))
  <2>1. /\ Tail(Contents(q)) \in Seq(Values \cup {0}) /\ Len(Tail(Contents(q))) = q.len - 1
        /\ \A k \in 1 .. q.len - 1 : Tail(Contents(q))[k] = Contents(q)[k + 1]
    BY <1>7, <1>8, HeadTailProperties
  <2>2. ASSUME NEW k \in 1 .. q.len - 1 PROVE Contents(r)[k] = Tail(Contents(q))[k]
    <3>1. PICK i \in 0 .. q.len - 1 : i = k - 1
      BY <1>1
    <3>2. /\ next + k - 1 = next + i /\ q.front + (k + 1) - 1 = q.front + (i + 1)
          /\ k + 1 \in 1 .. q.len
      BY <1>1, <1>3, <3>1 DEF Slots
    <3>3. Slot(next + k - 1) = Slot(q.front + (k + 1) - 1)
      BY <1>5, <3>1, <3>2
    <3>4. Contents(r)[k] = q.array[Slot(next + k - 1)]
      BY <1>7
    <3>5. Contents(q)[k + 1] = q.array[Slot(q.front + (k + 1) - 1)]
      BY <1>7, <3>2
    <3> QED
      BY <2>1, <3>3, <3>4, <3>5
  <2> QED
    BY <1>7, <2>1, <2>2, SeqEqual
<1> QED
  BY <1>4, <1>6, <1>8, <1>9, <1>10
-----------------------------------------------------------------------------
\* What exit_procedure leaves behind is never used: the behaviours end there.
RingInv == QueueTypeOK /\ Closed(queue)

\* What each action of a program does to the ring buffer and to what has been taken.
LEMMA ProgramStep ==
    ASSUME RingInv, QueueNext
    PROVE  RingInv' /\ [Abstract!Next]_(Abstract!vars)
<1> USE DEF RingInv
<1>1. /\ queue \in Rings /\ Closed(queue) /\ 0 \in Slots
      /\ pc \in [Procs -> QueueSteps] /\ read_val \in [Procs -> Values \cup {0}]
      /\ shm \in {"none", "created", "removed"}
      /\ Producers \subseteq Procs /\ Consumers \subseteq Procs
      /\ \A c \in Consumers : c \notin Producers
  BY MaxlenAssumption, QueueProcsAssumption DEF QueueTypeOK, Rings, Slots
<1>2. Queue_back(queue) \in Values \cup {0}
  <2>1. queue.back \in 0 .. MAXLEN_QUEUE - 1 /\ queue.array \in [Slots -> Values \cup {0}]
    BY <1>1 DEF Rings, Slots
  <2>2. queue.back # 0 => queue.back - 1 \in Slots
    BY <2>1, MaxlenAssumption DEF Slots
  <2> QED
    BY <2>1, <2>2 DEF Queue_back
<1>3. ASSUME UNCHANGED queue, \A c \in Consumers : read_val'[c] = read_val[c],
             pc' \in [Procs -> QueueSteps], read_val' \in [Procs -> Values \cup {0}],
             shm' \in {"none", "created", "removed"}
      PROVE  RingInv' /\ UNCHANGED Abstract!vars
  BY <1>1, <1>3 DEF QueueTypeOK, Rings, Closed, Abstract!vars
<1>4. ASSUME UNCHANGED <<queue, read_val>>, pc' \in [Procs -> QueueSteps],
             shm' \in {"none", "created", "removed"}
      PROVE  RingInv' /\ [Abstract!Next]_(Abstract!vars)
  BY <1>1, <1>3, <1>4
<1>5. PICK p \in Procs :
         \/ get_shm(p)
         \/ Run(p)
         \/ exit_procedure(p)
         \/ Interrupted(p) /\ UNCHANGED queueVars
  BY DEF QueueNext
<1>6. CASE get_shm(p) \/ Enter(p) \/ WaitFor(p) \/ Leave(p) \/ exit_procedure(p)
  BY <1>1, <1>4, <1>6
     DEF get_shm, Enter, WaitFor, Leave, exit_procedure, Goto, QueueSteps
<1>7. CASE UNCHANGED queueVars
  BY <1>1, <1>4, <1>7 DEF queueVars
<1>8. CASE Initialize(p)
  <2>1. /\ queue' = [len |-> 0, front |-> 0, back |-> 0, array |-> queue.array]
        /\ UNCHANGED <<shm, read_val>> /\ pc' \in [Procs -> QueueSteps]
    <3>1. queue = [len |-> queue.len, front |-> queue.front, back |-> queue.back,
                   array |-> queue.array]
      BY <1>1 DEF Rings
    <3>2. queue' = [[[queue EXCEPT !.front = 0] EXCEPT !.back = 0] EXCEPT !.len = 0]
      BY <1>8 DEF Initialize, Queue_init
    <3>3. queue' = [len |-> 0, front |-> 0, back |-> 0, array |-> queue.array]
      BY <3>1, <3>2
    <3> QED
      BY <1>1, <1>8, <3>3 DEF Initialize, Goto, QueueSteps
  <2>2. queue' \in Rings /\ Closed(queue') /\ queue'.len = 0
    <3>1. Slot(0) = 0 /\ 0 \in 0 .. MAXLEN_QUEUE /\ queue.array \in [Slots -> Values \cup {0}]
      BY <1>1, Wrap, MaxlenAssumption DEF Rings
    <3> QED
      BY <1>1, <2>1, <3>1 DEF Rings, Closed
  <2>3. Contents(queue') = <<>>
    <3>1. Contents(queue') \in Seq(Values \cup {0}) /\ Len(Contents(queue')) = 0
      BY <2>2, ContentsType
    <3> QED
      BY <3>1
  <2>4. Abstract!Empty
    BY <2>1, <2>3 DEF Abstract!Empty, Contents
  <2> QED
    BY <1>1, <2>1, <2>2, <2>4 DEF QueueTypeOK, Rings, Closed, Abstract!Next
<1>9. CASE Enqueue(p)
  <2>1. PICK v \in Values : queue' = Enqueued(queue, v)
    BY <1>9 DEF Enqueue
  <2>2. /\ queue' \in Rings /\ Closed(queue')
        /\ Contents(queue') = Append(Contents(queue), v)
    BY <1>1, <1>9, <2>1, EnqueueAppends DEF Enqueue
  <2>3. Queue_back(queue') \in Values \cup {0}
    <3>1. queue'.back \in 0 .. MAXLEN_QUEUE - 1 /\ queue'.array \in [Slots -> Values \cup {0}]
      BY <2>2 DEF Rings, Slots
    <3>2. queue'.back # 0 => queue'.back - 1 \in Slots
      BY <3>1, MaxlenAssumption DEF Slots
    <3> QED
      BY <3>1, <3>2 DEF Queue_back
  <2>4. /\ p \in Producers /\ UNCHANGED shm /\ pc' \in [Procs -> QueueSteps]
        /\ read_val' = [read_val EXCEPT ![p] = Queue_back(queue')]
    BY <1>1, <1>9 DEF Enqueue, Goto, QueueSteps
  <2>5. Len(Contents(queue)) < MAXLEN_QUEUE
    <3>1. Len(Contents(queue)) = queue.len /\ queue.len \in 0 .. MAXLEN_QUEUE
      BY <1>1, ContentsType DEF Rings
    <3> QED
      BY <1>9, <3>1, MaxlenAssumption DEF Enqueue, Queue_isFull
  <2>6. Abstract!Put(v)
    <3>1. [c \in Consumers |-> read_val'[c]] = [c \in Consumers |-> read_val[c]]
      BY <1>1, <2>4
    <3> QED
      BY <2>2, <2>5, <3>1 DEF Abstract!Put, Contents
  <2> QED
    BY <1>1, <2>2, <2>3, <2>4, <2>6 DEF QueueTypeOK, Rings, Closed, Abstract!Next
<1>10. CASE Dequeue(p)
  <2>1. /\ queue' \in Rings /\ Closed(queue')
        /\ Contents(queue) # <<>> /\ Queue_front(queue) = Head(Contents(queue))
        /\ Contents(queue') = Tail(Contents(queue))
    BY <1>1, <1>10, DequeueTakesHead DEF Dequeue
  <2>2. Queue_front(queue) \in Values \cup {0}
    BY <1>1 DEF Rings, Queue_front
  <2>3. /\ p \in Consumers /\ UNCHANGED shm /\ pc' \in [Procs -> QueueSteps]
        /\ read_val' = [read_val EXCEPT ![p] = Queue_front(queue)]
    BY <1>1, <1>10 DEF Dequeue, Goto, QueueSteps
  <2>4. Abstract!Take(p)
    <3>1. [c \in Consumers |-> read_val'[c]]
          = [[c \in Consumers |-> read_val[c]] EXCEPT ![p] = Head(Contents(queue))]
      BY <1>1, <2>1, <2>3
    <3> QED
      BY <2>1, <3>1 DEF Abstract!Take, Contents
  <2> QED
    BY <1>1, <2>1, <2>2, <2>3, <2>4 DEF QueueTypeOK, Rings, Closed, Abstract!Next
<1>11. CASE Woken(p)
  <2>1. /\ UNCHANGED <<queue, shm>> /\ pc' \in [Procs -> QueueSteps]
        /\ read_val' \in [Procs -> Values \cup {0}]
        /\ \A c \in Consumers : read_val'[c] = read_val[c]
    BY <1>1, <1>2, <1>11 DEF Woken, Goto, QueueSteps
  <2> QED
    BY <1>1, <1>3, <2>1
<1> QED
  BY <1>5, <1>6, <1>7, <1>8, <1>9, <1>10, <1>11 DEF Run

LEMMA RingInvariant == QueueSpec => []RingInv
<1>1. QueueInit => RingInv
  <2> SUFFICES ASSUME QueueInit PROVE RingInv
    OBVIOUS
  <2>1. 0 \in Slots /\ 0 \in 0 .. MAXLEN_QUEUE /\ Slot(0) = 0
    BY MaxlenAssumption, Wrap DEF Slots
  <2>2. queue \in Rings /\ Closed(queue)
    BY <2>1 DEF QueueInit, Rings, Closed
  <2> QED
    BY <2>2 DEF QueueInit, RingInv, QueueTypeOK, Rings, QueueSteps
<1>2. RingInv /\ [QueueNext]_<<vars, queueVars>> => RingInv'
  <2>1. RingInv /\ UNCHANGED <<vars, queueVars>> => RingInv'
    BY DEF RingInv, QueueTypeOK, queueVars, Closed
  <2> QED
    BY <2>1, ProgramStep
<1> QED
  BY <1>1, <1>2, PTL DEF QueueSpec

\* The ring buffer and the programs keep their types, for any length of the queue and any
\* numbers of producers and consumers.
THEOREM QueueTypes == QueueSpec => []QueueTypeOK
BY RingInvariant, PTL DEF RingInv

\* The ring buffer is a queue: what the programs put comes out once each and in order, for
\* any length of the queue, unless the late Queue_init empties it.
THEOREM RingIsFifo == QueueSpec => QueueIsFifo
<1>1. QueueInit => Abstract!Init
  <2> SUFFICES ASSUME QueueInit PROVE Abstract!Init
    OBVIOUS
  <2>1. queue \in Rings /\ queue.len = 0
    <3>1. 0 \in Slots /\ 0 \in 0 .. MAXLEN_QUEUE
      BY MaxlenAssumption DEF Slots
    <3> QED
      BY <3>1 DEF QueueInit, Rings
  <2>2. Contents(queue) \in Seq(Values \cup {0}) /\ Len(Contents(queue)) = 0
    BY <2>1, ContentsType
  <2>3. Contents(queue) = <<>>
    BY <2>2
  <2> QED
    BY <2>3, QueueProcsAssumption DEF QueueInit, Abstract!Init, Contents
<1>2. RingInv /\ [QueueNext]_<<vars, queueVars>> => [Abstract!Next]_(Abstract!vars)
  <2>1. UNCHANGED <<vars, queueVars>> => UNCHANGED Abstract!vars
    BY DEF queueVars, Abstract!vars, Contents
  <2> QED
    BY <2>1, ProgramStep
<1> QED
  BY <1>1, <1>2, RingInvariant, PTL DEF QueueSpec, QueueIsFifo, Abstract!Spec
-----------------------------------------------------------------------------
\* Every step of the programs is a step of the monitor or leaves it alone.
LEMMA MonitorStep ==
    ASSUME [QueueNext]_<<vars, queueVars>>
    PROVE  [Next]_vars
<1>1. CASE UNCHANGED <<vars, queueVars>>
  BY <1>1
<1>2. ASSUME NEW p \in Procs,
             get_shm(p) \/ Run(p) \/ exit_procedure(p) \/ Interrupted(p)
      PROVE  [Next]_vars
  <2>1. CASE get_shm(p) \/ exit_procedure(p)
    BY <2>1 DEF get_shm, exit_procedure
  <2>2. CASE Enter(p) \/ Initialize(p) \/ Leave(p) \/ Continue(p) \/ Interrupted(p)
    BY <2>2 DEF Enter, Initialize, Leave, Next, Step
  <2>3. CASE Enqueue(p) \/ Dequeue(p) \/ WaitFor(p) \/ Woken(p)
    BY <2>3, QueueCondsAssumption, QueueCallsAssumption
       DEF Enqueue, Dequeue, WaitFor, Woken, Next, Step, Wait, Signal
  <2> QED
    BY <1>2, <2>1, <2>2, <2>3 DEF Run
<1> QED
  BY <1>1, <1>2 DEF QueueNext

\* The programs use the monitor as its functions ask: what is proved of the monitor holds of
\* them.
THEOREM ProgramsUseMonitor == QueueSpec => Spec
<1>1. QueueInit => Init
  BY DEF QueueInit
<1> QED
  BY <1>1, MonitorStep, PTL DEF QueueSpec, Spec

\* Nobody broadcasts.  A consumer that has waited, and the signal that wakes it, find an
\* element: the token goes from the one to the other, and nobody runs in between.
WokenInv ==
    /\ \A p \in Procs :
         /\ call[p].fn # "broadcast" /\ call[p].at # "count" /\ call[p].todo <= 1
         /\ call[p].at = "post" /\ call[p].cond = NOTEMPTY => ~ Queue_isEmpty(queue)
         /\ p \in Consumers /\ pc[p] = "woken"
            => \/ call[p].at = "in" /\ ~ Queue_isEmpty(queue)
               \/ call[p].at # "in" /\ call[p].fn = "wait" /\ call[p].cond = NOTEMPTY
    /\ val[NOTEMPTY] > 0 => ~ Queue_isEmpty(queue)

\* What a process in the monitor may become, as far as this invariant goes.
Good(p) ==
    /\ call'[p].fn # "broadcast" /\ call'[p].at # "count" /\ call'[p].todo <= 1
    /\ call'[p].at = "post" /\ call'[p].cond = NOTEMPTY => ~ Queue_isEmpty(queue')
    /\ p \in Consumers /\ pc'[p] = "woken"
       => \/ call'[p].at = "in" /\ ~ Queue_isEmpty(queue')
          \/ call'[p].at # "in" /\ call'[p].fn = "wait" /\ call'[p].cond = NOTEMPTY

\* A process inside goes on; the others are outside or wait.
LEMMA InsideMoves ==
    ASSUME TypeOK, OneToken, WokenInv, NEW p \in Active, UNCHANGED val,
           \A q \in Procs \ {p} : call'[q] = call[q] /\ pc'[q] = pc[q],
           Good(p)
    PROVE  WokenInv'
<1>1. /\ Active = {p} /\ \A s \in Sems : val[s] = 0
      /\ NOTEMPTY \in Sems /\ p \in Procs
  BY ActiveAlone, QueueCondsAssumption DEF Sems, Active
<1>2. ASSUME NEW q \in Procs \ {p} PROVE call[q].at \notin {"in", "post"}
  BY <1>1 DEF Active, ActiveSteps
<1> QED
  BY <1>1, <1>2 DEF WokenInv, Good

\* A process hands the monitor on: whoever waits on the semaphore gets it.
LEMMA HandOver ==
    ASSUME TypeOK, OneToken, WokenInv, NEW p \in Active, NEW s \in Sems, NEW a,
           UNCHANGED queueVars, signal_sem(s, p, a), Good(p),
           s = NOTEMPTY => ~ Queue_isEmpty(queue)
    PROVE  WokenInv'
<1>1. /\ call \in [Procs -> Activity] /\ val \in [Sems -> Nat] /\ p \in Procs
      /\ NOTEMPTY \in Sems /\ Consumers \subseteq Procs
  BY QueueProcsAssumption, QueueCondsAssumption DEF TypeOK, Activity, Active, Sems
<1>2. UNCHANGED <<queue, pc>>
  BY DEF queueVars
<1>3. CASE Queue(s) = {} /\ val' = [val EXCEPT ![s] = @ + 1] /\ call' = [call EXCEPT ![p] = a]
  <2>1. \A q \in Procs \ {p} : call'[q] = call[q]
    BY <1>1, <1>3
  <2>2. val'[NOTEMPTY] > 0 => ~ Queue_isEmpty(queue)
    BY <1>1, <1>3 DEF WokenInv
  <2> QED
    BY <1>2, <2>1, <2>2 DEF WokenInv, Good
<1>4. ASSUME NEW q \in Queue(s), call' = [call EXCEPT ![p] = a, ![q] = Resumed(@)],
             UNCHANGED val
      PROVE  WokenInv'
  <2>1. q \in Procs /\ q # p /\ call[q].at = "blocked" /\ SemOf(q) = s
    BY <1>1 DEF Queue, Active, ActiveSteps
  <2>2. call'[q] = Idle("in") /\ \A r \in Procs \ {p, q} : call'[r] = call[r]
    <3>1. call[q].todo <= 1 /\ call[q].todo \in Nat
      BY <1>1, <2>1 DEF WokenInv, Activity, Activations
    <3>2. Resumed(call[q]) = Idle("in")
      BY <3>1 DEF Resumed
    <3> QED
      BY <1>1, <1>4, <2>1, <3>2
  <2>3. q \in Consumers /\ pc[q] = "woken" => ~ Queue_isEmpty(queue)
    BY <1>1, <2>1 DEF WokenInv, SemOf
  <2>4. Good(q)
    BY <1>2, <2>2, <2>3 DEF Good, Idle, Activation
  <2> QED
    BY <1>2, <1>4, <2>1, <2>2, <2>4 DEF WokenInv, Good
<1> QED
  BY <1>3, <1>4 DEF signal_sem

\* A step of a process by itself in a function of the monitor.
LEMMA ContinueStep ==
    ASSUME TypeOK, OneToken, WokenInv, NEW p \in Procs, UNCHANGED queueVars,
           Continue(p) \/ Interrupted(p)
    PROVE  WokenInv'
<1>1. /\ call \in [Procs -> Activity] /\ val \in [Sems -> Nat] /\ call[p] \in Activity
      /\ NOTEMPTY \in Sems /\ NOTEMPTY \notin {I_MUTEX, I_PREEMPT}
  BY QueueCondsAssumption, CondsAssumption DEF TypeOK, Activity, Sems
<1>2. UNCHANGED <<queue, pc>>
  BY DEF queueVars
<1>3. call[p].todo <= 1 /\ call[p].todo \in Nat /\ call[p].fn # "broadcast"
  BY <1>1 DEF WokenInv, Activity, Activations
<1>4. CASE wait_sem(p) /\ val[SemOf(p)] > 0 /\ val' = [val EXCEPT ![SemOf(p)] = @ - 1]
           /\ call' = [call EXCEPT ![p] = Resumed(@)]
  <2>1. SemOf(p) \in Sems /\ Resumed(call[p]) = Idle("in") /\ call[p].at = "semop"
    BY <1>3, <1>4, SemOfType DEF Resumed, wait_sem
  <2>2. call'[p] = Idle("in") /\ \A r \in Procs \ {p} : call'[r] = call[r]
    BY <1>1, <1>4, <2>1
  <2>3. p \in Consumers /\ pc[p] = "woken" => ~ Queue_isEmpty(queue)
    BY <1>4, <2>1 DEF WokenInv, SemOf
  <2>4. val'[NOTEMPTY] > 0 => val[NOTEMPTY] > 0
    BY <1>1, <1>4, <2>1
  <2>5. Good(p)
    BY <1>2, <2>2, <2>3 DEF Good, Idle, Activation
  <2> QED
    BY <1>2, <2>2, <2>4, <2>5 DEF WokenInv, Good
<1>5. ASSUME NEW at \in {"semop", "blocked"}, call' = [call EXCEPT ![p].at = at], UNCHANGED val,
             call[p].at \in {"semop", "blocked"}
      PROVE  WokenInv'
  <2>1. /\ call'[p].at = at /\ call'[p].fn = call[p].fn /\ call'[p].cond = call[p].cond
        /\ call'[p].todo = call[p].todo
        /\ \A r \in Procs \ {p} : call'[r] = call[r]
    BY <1>1, <1>5 DEF Activity, Activations
  <2>2. Good(p)
    BY <1>2, <1>3, <1>5, <2>1 DEF Good, WokenInv
  <2> QED
    BY <1>2, <1>5, <2>1, <2>2 DEF WokenInv, Good
<1>6. CASE wait_sem(p)
  BY <1>4, <1>5, <1>6 DEF wait_sem
<1>7. CASE Interrupted(p)
  BY <1>5, <1>7 DEF Interrupted
<1>8. CASE Release(p) \/ Post(p)
  <2> DEFINE s == IF call[p].at = "post" THEN call[p].cond
                  ELSE IF call[p].at = "preempt" THEN I_PREEMPT ELSE I_MUTEX
             a == IF call[p].at # "post" /\ call[p].fn = "leave" THEN Idle("out")
                  ELSE [call[p] EXCEPT !.at = "semop"]
  <2>1. p \in Active /\ signal_sem(s, p, a) /\ call[p].at \in {"post", "preempt", "mutex"}
    BY <1>8 DEF Release, Post, Active, ActiveSteps
  <2>2. s \in Sems
    BY <1>1, <2>1 DEF Activity, WellFormed, Sems
  <2>3. s = NOTEMPTY => ~ Queue_isEmpty(queue)
    BY <1>1, <2>1 DEF WokenInv
  <2>4. call'[p] = a
    <3>1. \A q \in Queue(s) : q # p
      BY <2>1 DEF Queue
    <3> QED
      BY <1>1, <2>1, <3>1 DEF signal_sem
  <2>5. Good(p)
    <3>1. CASE call[p].at # "post" /\ call[p].fn = "leave"
      <4>1. p \in Consumers => pc[p] # "woken"
        BY <2>1, <3>1 DEF WokenInv
      <4>2. a = Idle("out")
        BY <3>1
      <4> QED
        BY <1>2, <2>4, <4>1, <4>2 DEF Good, Idle, Activation
    <3>2. CASE ~ (call[p].at # "post" /\ call[p].fn = "leave")
      <4>1. /\ a.at = "semop" /\ a.fn = call[p].fn /\ a.cond = call[p].cond
            /\ a.todo = call[p].todo
        BY <1>1, <3>2 DEF Activity, Activations
      <4> QED
        BY <1>2, <1>3, <2>1, <2>4, <4>1 DEF Good, WokenInv
    <3> QED
      BY <3>1, <3>2
  <2> HIDE DEF s, a
  <2> QED
    BY <2>1, <2>2, <2>3, <2>5, HandOver
<1>9. CASE CountQueue(p)
  BY <1>9 DEF CountQueue, WokenInv
<1> QED
  BY <1>6, <1>7, <1>8, <1>9 DEF Continue

\* signal_cond signals or, when nobody waits, does nothing.
LEMMA SignalMoves ==
    ASSUME TypeOK, WokenInv, NEW p \in Procs, NEW c \in Conds, signal_cond(p, c),
           pc'[p] # "woken",
           c = NOTEMPTY => ~ Queue_isEmpty(queue')
    PROVE  /\ p \in Active /\ UNCHANGED val /\ Good(p)
           /\ \A q \in Procs \ {p} : call'[q] = call[q]
<1>1. call \in [Procs -> Activity] /\ call[p].at = "in"
  BY DEF TypeOK, Activity, signal_cond
<1>2. p \in Active /\ UNCHANGED val /\ \A q \in Procs \ {p} : call'[q] = call[q]
  BY <1>1 DEF Active, ActiveSteps, signal_cond
<1>3. call'[p] = call[p] \/ call'[p] = Activation("post", "signal", c, 1)
  BY <1>1 DEF signal_cond
<1> QED
  BY <1>1, <1>2, <1>3 DEF Good, Activation, WokenInv

LEMMA WokenStep ==
    ASSUME TypeOK, OneToken, RingInv, WokenInv, [QueueNext]_<<vars, queueVars>>
    PROVE  WokenInv'
<1>1. /\ call \in [Procs -> Activity] /\ pc \in [Procs -> QueueSteps]
      /\ queue \in Rings /\ Closed(queue)
      /\ NOTEMPTY # NOTFULL /\ NOTEMPTY \in Conds /\ NOTFULL \in Conds
      /\ \A c \in Consumers : c \in Procs /\ c \notin Producers
  BY QueueCondsAssumption, QueueProcsAssumption
     DEF TypeOK, Activity, RingInv, QueueTypeOK, Rings
<1>2. CASE UNCHANGED <<vars, queueVars>>
  BY <1>2 DEF vars, queueVars, WokenInv
<1>3. ASSUME NEW p \in Procs, get_shm(p) \/ exit_procedure(p)
      PROVE  WokenInv'
  BY <1>1, <1>3 DEF get_shm, exit_procedure, Goto, vars, WokenInv
<1>4. ASSUME NEW p \in Procs, Enter(p) PROVE WokenInv'
  <2>1. /\ call' = [call EXCEPT ![p] = Activation("semop", "enter", NoCond, 0)]
        /\ UNCHANGED <<val, queue>>
        /\ pc' = [pc EXCEPT ![p] = pc'[p]] /\ pc'[p] # "woken"
    BY <1>1, <1>4 DEF Enter, enter_monitor, Goto
  <2> QED
    BY <1>1, <2>1 DEF WokenInv, Activation
<1>5. ASSUME NEW p \in Procs, Initialize(p) \/ Leave(p) \/ WaitFor(p) PROVE WokenInv'
  <2>1. /\ p \in Active /\ UNCHANGED val
        /\ \A q \in Procs \ {p} : call'[q] = call[q] /\ pc'[q] = pc[q]
    BY <1>1, <1>5
       DEF Initialize, Leave, WaitFor, Inside, Goto, leave_monitor, wait_cond, Active, ActiveSteps
  <2>2. Good(p)
    <3>1. CASE Initialize(p) \/ Leave(p)
      BY <1>1, <3>1 DEF Initialize, Leave, leave_monitor, Goto, Released, Activation, Good
    <3>2. CASE WaitFor(p)
      <4>1. /\ p \in Consumers => wait_cond(p, NOTEMPTY)
            /\ \E c \in Conds : wait_cond(p, c)
        BY <1>1, <3>2 DEF WaitFor
      <4> QED
        BY <1>1, <4>1 DEF wait_cond, Released, Activation, Good
    <3> QED
      BY <1>5, <3>1, <3>2
  <2> QED
    BY <2>1, <2>2, InsideMoves
<1>6. ASSUME NEW p \in Procs, Enqueue(p) \/ Dequeue(p) \/ Woken(p) PROVE WokenInv'
  <2>1. pc' = [pc EXCEPT ![p] = "leave"]
    BY <1>6 DEF Enqueue, Dequeue, Woken, Goto
  <2>2. \E c \in Conds : signal_cond(p, c) /\ (c = NOTEMPTY => ~ Queue_isEmpty(queue'))
    <3>1. CASE Enqueue(p)
      <4>1. PICK v : queue' = Enqueued(queue, v)
        BY <3>1 DEF Enqueue
      <4>2. queue'.len = queue.len + 1 /\ queue.len \in Nat
        BY <1>1, <4>1, MaxlenAssumption DEF Enqueued, Rings
      <4> QED
        BY <1>1, <3>1, <4>2 DEF Enqueue, Queue_isEmpty
    <3>2. CASE Dequeue(p)
      BY <1>1, <3>2 DEF Dequeue
    <3>3. CASE Woken(p)
      BY <1>1, <3>3 DEF Woken
    <3> QED
      BY <1>6, <3>1, <3>2, <3>3
  <2>3. pc'[p] # "woken" /\ \A q \in Procs \ {p} : pc'[q] = pc[q]
    BY <1>1, <2>1
  <2>4. /\ p \in Active /\ UNCHANGED val /\ Good(p)
        /\ \A q \in Procs \ {p} : call'[q] = call[q]
    BY <2>2, <2>3, SignalMoves
  <2> QED
    BY <2>3, <2>4, InsideMoves
<1>7. ASSUME NEW p \in Procs, Continue(p) \/ Interrupted(p), UNCHANGED queueVars PROVE WokenInv'
  BY <1>7, ContinueStep
<1> QED
  BY <1>2, <1>3, <1>4, <1>5, <1>6, <1>7 DEF QueueNext, Run

\* A consumer that is woken finds an element, for any numbers of producers and consumers and
\* any length of the queue, although it does not look again before it goes on.
THEOREM WokenConsumerServed == QueueSpec => []WokenFindsElement
<1>1. QueueInit => WokenInv
  <2> SUFFICES ASSUME QueueInit PROVE WokenInv
    OBVIOUS
  <2>1. val[NOTEMPTY] = 0
    BY QueueCondsAssumption, CondsAssumption DEF QueueInit, Init, Sems
  <2> QED
    BY <2>1, QueueProcsAssumption DEF QueueInit, Init, WokenInv, Idle, Activation
<1>2. QueueSpec => [](TypeOK /\ OneToken)
  BY ProgramsUseMonitor, TypeCorrect, TokenConserved, PTL
<1>3. WokenInv => WokenFindsElement
  BY QueueProcsAssumption DEF WokenInv, WokenFindsElement, Inside
<1>4. /\ TypeOK /\ OneToken /\ RingInv /\ WokenInv /\ [QueueNext]_<<vars, queueVars>>
      => WokenInv'
  BY WokenStep
<1> QED
  BY <1>1, <1>2, <1>3, <1>4, RingInvariant, PTL DEF QueueSpec
=============================================================================
