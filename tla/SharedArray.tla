----------------------------- MODULE SharedArray -----------------------------
(***************************************************************************)
(* The shared array of src/src/CommonAssignmentIPC02/array.c with the      *)
(* programs that use it, main_prod_array.c and main_cons_array.c, on the   *)
(* monitor of libsp.c.  What a process does to the array between two calls *)
(* of the monitor is one step, since nobody else is inside (the invariant  *)
(* MutualExclusion of Monitor), joined to the system call that follows.    *)
(*                                                                         *)
(* remove_shm frees the key at once: the processes that are attached keep  *)
(* the segment, and the next Array_init creates another.  The monitor has  *)
(* been created by init_monitor before; the behaviours end when somebody   *)
(* removes it.                                                             *)
(***************************************************************************)
EXTENDS Monitor, Integers

CONSTANTS
    Producers, Consumers,
    COND_NEWRES, COND_HASCONSUMED,
    Indexes,            \* 0 .. array_len - 1
    Values, NoValue,    \* what is produced; what an element is before
    MAX_CONSUMERS,
    MaxSegments         \* how many segments are created

ASSUME ArrayProcsAssumption == Procs = Producers \cup Consumers /\ Producers \cap Consumers = {}
ASSUME ArrayCondsAssumption ==
    Conds = {COND_NEWRES, COND_HASCONSUMED} /\ {"wait", "broadcast"} \subseteq Calls
ASSUME ArraySizeAssumption ==
    MAX_CONSUMERS \in Nat \ {0} /\ MaxSegments \in Nat /\ NoValue \notin Values

Ids == 0 .. MAX_CONSUMERS - 1
Segments == 1 .. MaxSegments

VARIABLES
    segment,        \* the segment that the key names, 0 if none
    created,        \* how many segments have been created
    array,          \* the fields of the segments
    bitmap,
    used_ids,
    n_consumers,
    counter,
    pc,             \* where each process is in array.c
    handle,         \* the segment that each process is attached to
    consumer_id,    \* -1 for a producer
    index,          \* the argument of Array_consume and Array_produce
    value,          \* what each consumer has consumed last
    removed         \* whether the monitor has been removed
segmentVars == <<array, bitmap, used_ids, n_consumers, counter>>
keyVars == <<segment, created, removed>>
localVars == <<handle, consumer_id, index, value>>
arrayVars == <<segmentVars, keyVars, localVars, pc>>

(***************************************************************************)
(* pc[p]: "start", then the function p executes: "init", "consume",        *)
(* "produce", "getLen" or "remove", "leave" when the function has only     *)
(* leave_monitor left, "leave_last" and "leave_first" when it is           *)
(* Array_remove (whether cnt is 0 or not), "rm_last" and "rm_first" when   *)
(* that has left the monitor; "ready" between the calls, and "exit".       *)
(***************************************************************************)
Leaving == {"leave", "leave_last", "leave_first"}
ArraySteps ==
    {"start", "init", "attach", "consume", "produce", "getLen", "remove", "ready",
     "rm_last", "rm_first", "exit"} \cup Leaving

\* Whether p is registered: Array_init has counted it, Array_remove not yet.
Attached(p) == pc[p] \in {"ready", "consume", "produce", "getLen", "remove", "leave"}

Goto(p, step) == pc' = [pc EXCEPT ![p] = step]
-----------------------------------------------------------------------------
\* Every function starts with enter_monitor.
Array_call(p, from, function) ==
    /\ pc[p] = from
    /\ enter_monitor(p)
    /\ Goto(p, function)
    /\ UNCHANGED <<segmentVars, keyVars, handle, consumer_id, value>>

Call_init(p) == Array_call(p, "start", "init") /\ UNCHANGED index

\* The programs ask for the length before each operation, and call Array_remove
\* when they exit.
Call_getLen(p) == Array_call(p, "ready", "getLen") /\ UNCHANGED index
Call_remove(p) == Array_call(p, "ready", "remove") /\ UNCHANGED index

Call_operation(p) ==
    \E i \in Indexes :
        /\ Array_call(p, "ready", IF p \in Consumers THEN "consume" ELSE "produce")
        /\ index' = [index EXCEPT ![p] = i]
-----------------------------------------------------------------------------
\* p executes function f, inside the monitor.
Inside(p, f) == pc[p] = f /\ call[p].at = "in" /\ ~ removed

\* get_shm tries to create the segment, and when it exists asks for it in a second
\* system call: a process that leaves may have removed it in between.
get_shm_exists(p) ==
    /\ Inside(p, "init")
    /\ segment # 0
    /\ Goto(p, "attach")
    /\ UNCHANGED <<vars, segmentVars, keyVars, localVars>>

\* The first available ID; n_consumers bounds the search.
FirstFree(s) ==
    CHOOSE k \in 0 .. MAX_CONSUMERS :
        /\ k = n_consumers[s] + 1 \/ used_ids[s][k] = 0
        /\ \A l \in 0 .. k - 1 : used_ids[s][l] # 0

\* Mutant: the bitmap of the consumer keeps what the last owner of the ID left.
Register_dirty(p, s) ==
    LET k == FirstFree(s)
    IN /\ n_consumers' = [n_consumers EXCEPT ![s] = @ + 1]
       /\ used_ids' = [used_ids EXCEPT ![s][k] = 1]
       /\ consumer_id' = [consumer_id EXCEPT ![p] = k]
       /\ UNCHANGED bitmap

Register(p, s) ==
    LET k == FirstFree(s)
    IN /\ n_consumers' = [n_consumers EXCEPT ![s] = @ + 1]
       /\ used_ids' = [used_ids EXCEPT ![s][k] = 1]
       /\ bitmap' = [bitmap EXCEPT ![s][k] = [i \in Indexes |-> 0]]
       /\ consumer_id' = [consumer_id EXCEPT ![p] = k]

\* Mutant: counter does not count the process.
Join_uncounted(p, s) ==
    /\ IF p \in Consumers THEN n_consumers[s] < MAX_CONSUMERS /\ Register(p, s)
       ELSE UNCHANGED <<n_consumers, used_ids, bitmap, consumer_id>>
    /\ handle' = [handle EXCEPT ![p] = s]
    /\ leave_monitor(p)
    /\ Goto(p, "ready")
    /\ UNCHANGED <<counter, array, index, value, removed>>

\* The rest of Array_init, with the segment that get_shm returned.
Join(p, s) ==
    /\ IF p \in Consumers THEN n_consumers[s] < MAX_CONSUMERS /\ Register(p, s)
       ELSE UNCHANGED <<n_consumers, used_ids, bitmap, consumer_id>>
    /\ counter' = [counter EXCEPT ![s] = @ + 1]
    /\ handle' = [handle EXCEPT ![p] = s]
    /\ leave_monitor(p)
    /\ Goto(p, "ready")
    /\ UNCHANGED <<array, index, value, removed>>

Array_init_creates(p) ==
    /\ Inside(p, "init")
    /\ segment = 0 /\ created < MaxSegments
    /\ segment' = created + 1
    /\ created' = created + 1
    /\ Join(p, created + 1)

Array_init_attaches(p) ==
    /\ Inside(p, "attach")
    /\ segment # 0
    /\ Join(p, segment)
    /\ UNCHANGED <<segment, created>>

\* The segment is gone, or has too many consumers and is removed: the program exits
\* without leaving the monitor.
Array_init_fails(p) ==
    /\ Inside(p, "attach")
    /\ segment # 0 => p \in Consumers /\ n_consumers[segment] >= MAX_CONSUMERS
    /\ segment' = 0
    /\ Goto(p, "exit")
    /\ UNCHANGED <<vars, segmentVars, created, removed, localVars>>
-----------------------------------------------------------------------------
Array_getLen(p) ==
    /\ Inside(p, "getLen")
    /\ leave_monitor(p)
    /\ Goto(p, "ready")
    /\ UNCHANGED <<segmentVars, keyVars, localVars>>

\* What p waits for: its own bit to be set, or the bits of all consumers to be clear.
isDirty(s, i) == \E k \in Ids : used_ids[s][k] # 0 /\ bitmap[s][k][i] = 1
Dirty(p) == bitmap[handle[p]][consumer_id[p]][index[p]] = 1
Clear(p) == ~ isDirty(handle[p], index[p])

\* The while loops of Array_consume and Array_produce.
Array_wait(p) ==
    /\ \/ Inside(p, "consume") /\ ~ Dirty(p) /\ wait_cond(p, COND_NEWRES)
       \/ Inside(p, "produce") /\ ~ Clear(p) /\ wait_cond(p, COND_HASCONSUMED)
    /\ UNCHANGED arrayVars

Array_consume(p) ==
    LET s == handle[p]
    IN /\ Inside(p, "consume") /\ Dirty(p)
       /\ value' = [value EXCEPT ![p] = array[s][index[p]]]
       /\ bitmap' = [bitmap EXCEPT ![s][consumer_id[p]][index[p]] = 0]
       /\ broadcast_cond(p, COND_HASCONSUMED)
       /\ Goto(p, "leave")
       /\ UNCHANGED <<array, used_ids, n_consumers, counter, keyVars, handle, consumer_id, index>>

Array_produce(p) ==
    LET s == handle[p]
    IN /\ Inside(p, "produce") /\ Clear(p)
       /\ \E v \in Values : array' = [array EXCEPT ![s][index[p]] = v]
       /\ bitmap' = [bitmap EXCEPT ![s] = [k \in Ids |->
                       IF used_ids[s][k] # 0 THEN [@[k] EXCEPT ![index[p]] = 1] ELSE @[k]]]
       /\ broadcast_cond(p, COND_NEWRES)
       /\ Goto(p, "leave")
       /\ UNCHANGED <<used_ids, n_consumers, counter, keyVars, localVars>>

\* Mutant: the ID stays used.
Unregister_keeps_id(p, s) ==
    /\ n_consumers' = [n_consumers EXCEPT ![s] = @ - 1]
    /\ UNCHANGED used_ids

Unregister(p, s) ==
    /\ used_ids' = [used_ids EXCEPT ![s][consumer_id[p]] = 0]
    /\ n_consumers' = [n_consumers EXCEPT ![s] = @ - 1]

\* cnt is read before the broadcast, which lets others in.
Array_remove(p) ==
    LET s == handle[p]
    IN /\ Inside(p, "remove")
       /\ counter' = [counter EXCEPT ![s] = @ - 1]
       /\ IF p \in Consumers THEN Unregister(p, s) ELSE UNCHANGED <<used_ids, n_consumers>>
       /\ broadcast_cond(p, COND_HASCONSUMED)
       /\ Goto(p, IF counter'[s] = 0 THEN "leave_last" ELSE "leave_first")
       /\ UNCHANGED <<array, bitmap, keyVars, localVars>>

Array_leave(p) ==
    /\ \/ Inside(p, "leave") /\ Goto(p, "ready")
       \/ Inside(p, "leave_last") /\ Goto(p, "rm_last")
       \/ Inside(p, "leave_first") /\ Goto(p, "rm_first")
    /\ leave_monitor(p)
    /\ UNCHANGED <<segmentVars, keyVars, localVars>>

\* remove_shm, which has no effect on a segment that has been removed, then
\* remove_monitor if p was the last.
Array_rm(p) ==
    /\ pc[p] \in {"rm_last", "rm_first"} /\ call[p].at = "out"
    /\ segment' = IF segment = handle[p] THEN 0 ELSE segment
    /\ removed' = (pc[p] = "rm_last")
    /\ Goto(p, "exit")
    /\ UNCHANGED <<vars, segmentVars, created, localVars>>
-----------------------------------------------------------------------------
ArrayInit ==
    /\ Init
    /\ segment = 0 /\ created = 0 /\ removed = FALSE
    /\ array = [s \in Segments |-> [i \in Indexes |-> NoValue]]
    /\ bitmap = [s \in Segments |-> [k \in Ids |-> [i \in Indexes |-> 0]]]
    /\ used_ids = [s \in Segments |-> [k \in Ids |-> 0]]
    /\ n_consumers = [s \in Segments |-> 0]
    /\ counter = [s \in Segments |-> 0]
    /\ pc = [p \in Procs |-> "start"]
    /\ handle = [p \in Procs |-> 0]
    /\ consumer_id = [p \in Procs |-> -1]
    /\ index \in [Procs -> Indexes]
    /\ value = [p \in Consumers |-> NoValue]

\* p goes on with the function it executes.
Run(p) ==
    \/ get_shm_exists(p)
    \/ Array_init_creates(p)
    \/ Array_init_attaches(p)
    \/ Array_init_fails(p)
    \/ Array_getLen(p)
    \/ Array_wait(p)
    \/ Array_consume(p)
    \/ Array_produce(p)
    \/ Array_remove(p)
    \/ Array_leave(p)
    \/ Array_rm(p)
    \/ Continue(p) /\ UNCHANGED arrayVars

ArrayNext ==
    /\ ~ removed
    /\ \E p \in Procs :
          \/ Call_init(p)
          \/ Call_getLen(p)
          \/ Call_operation(p)
          \/ Call_remove(p)
          \/ Run(p)
          \/ Interrupted(p) /\ UNCHANGED arrayVars

allVars == <<vars, arrayVars>>
ArraySpec == ArrayInit /\ [][ArrayNext]_allVars

-----------------------------------------------------------------------------
\* The type invariant of the segments and of the handles.
ArrayTypeOK ==
    /\ segment \in 0 .. created /\ created \in 0 .. MaxSegments
    /\ array \in [Segments -> [Indexes -> Values \cup {NoValue}]]
    /\ bitmap \in [Segments -> [Ids -> [Indexes -> {0, 1}]]]
    /\ used_ids \in [Segments -> [Ids -> {0, 1}]]
    /\ n_consumers \in [Segments -> 0 .. MAX_CONSUMERS]
    /\ counter \in [Segments -> Nat]
    /\ pc \in [Procs -> ArraySteps]
    /\ handle \in [Procs -> 0 .. created]
    /\ consumer_id \in [Procs -> Ids \cup {-1}]
    /\ index \in [Procs -> Indexes]
    /\ value \in [Consumers -> Values \cup {NoValue}]
    /\ removed \in BOOLEAN

\* The users of a segment, and the consumers among them.
Users(s) == {p \in Procs : Attached(p) /\ handle[p] = s}
Members(s) == Users(s) \cap Consumers

\* "number of consumers using the array" and "number of processes using the data
\* structure" (array.h): the counters of a segment and its used_ids are exactly
\* those of its registered users, and no two consumers share an ID.
RegistrationExact ==
    \A s \in Segments :
        /\ counter[s] = Cardinality(Users(s))
        /\ n_consumers[s] = Cardinality(Members(s))
        /\ {k \in Ids : used_ids[s][k] # 0} = {consumer_id[c] : c \in Members(s)}
        /\ \A c, d \in Members(s) : consumer_id[c] = consumer_id[d] => c = d

\* Each segment delivers like the array that the programs believe they share: a
\* value goes once to all consumers that were registered when it was produced, "if
\* they were registered" (main_cons_array.c), and none is overwritten before.
Slot(s) ==
    [c \in Consumers |-> [i \in Indexes |->
        IF c \in Members(s) /\ bitmap[s][consumer_id[c]][i] = 1 THEN array[s][i] ELSE NoValue]]

Value(s) == [c \in Consumers |-> IF handle[c] = s THEN value[c] ELSE NoValue]

First == INSTANCE BroadcastArray
             WITH members <- Members(1), slot <- Slot(1), value <- Value(1)
Second == INSTANCE BroadcastArray
             WITH members <- Members(2), slot <- Slot(2), value <- Value(2)

SegmentsDeliver == First!Spec /\ Second!Spec
=============================================================================
