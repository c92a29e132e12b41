------------------------------ MODULE SharedFile ------------------------------
(***************************************************************************)
(* The shared file of src/src/CommonAssignmentIPC02/file.c with the        *)
(* programs that use it, main_prod_file.c and main_cons_file.c, on the     *)
(* monitor of libsp.c.  The offset of production and the number of users   *)
(* are in a segment of shared memory.                                      *)
(*                                                                         *)
(* Everything but the counter of users is only touched inside the monitor, *)
(* so that what a process does between two system calls of the monitor is  *)
(* one step.  IPC02_File_remove decrements the counter without entering    *)
(* it: the counter is loaded and stored in steps of their own.             *)
(*                                                                         *)
(* Every string that is produced or consumed has the length of             *)
(* TYPICAL_STRING, and is one record here; offsets are in records.  The    *)
(* behaviours end when somebody removes the monitor.                       *)
(***************************************************************************)
EXTENDS Monitor, Integers, Sequences

CONSTANTS
    Producers, Consumers,
    COND_NEWDATA,
    Old,            \* a record that was in the file before
    MaxRecords,     \* nobody produces when the file has as many
    MaxSegments     \* how many segments are created

ASSUME FileProcsAssumption == Procs = Producers \cup Consumers /\ Producers \cap Consumers = {}
ASSUME FileCondsAssumption == Conds = {COND_NEWDATA} /\ {"wait", "broadcast"} \subseteq Calls
ASSUME FileBoundsAssumption ==
    MaxRecords \in Nat /\ MaxSegments \in Nat \ {0} /\ Old \notin Producers

Records == Producers \cup {Old}
Segments == 1 .. MaxSegments

VARIABLES
    file,           \* the records of the file, by whom they were produced
    seen,           \* what each consumer has read: the offset of its fd is the length
    segment,        \* the segment that the key names, 0 if none
    created,        \* how many segments have been created
    prod_offset,    \* the fields of the segments
    counter,
    pc,             \* where each process is in file.c
    handle,         \* the segment that each process is attached to
    loaded,         \* the value of the counter that a process has loaded
    removed         \* whether the monitor has been removed
keyVars == <<segment, created, removed>>
contents == <<file, seen, prod_offset>>
fileVars == <<contents, counter, keyVars, pc, handle, loaded>>

(***************************************************************************)
(* pc[p]: "start", then the function p executes: "init" (and "attach",     *)
(* "count" and "counted" in it), "consume", "produce" and "leave", the     *)
(* steps "rm_count", "rm_test" and "rm_shm" of IPC02_File_remove; "ready"  *)
(* between the calls, and "exit".                                          *)
(***************************************************************************)
FileSteps == {"start", "init", "attach", "count", "counted", "ready", "consume", "produce",
              "leave", "rm_count", "rm_test", "rm_shm", "exit"}

Goto(p, step) == pc' = [pc EXCEPT ![p] = step]

\* p executes function f, inside the monitor.
Inside(p, f) == pc[p] = f /\ call[p].at = "in"
-----------------------------------------------------------------------------
\* Every function but IPC02_File_remove starts with enter_monitor.
File_call(p, from, function) ==
    /\ pc[p] = from
    /\ enter_monitor(p)
    /\ Goto(p, function)
    /\ UNCHANGED <<contents, counter, keyVars, handle, loaded>>

Call_init(p) == File_call(p, "start", "init")
Call_consume(p) == p \in Consumers /\ File_call(p, "ready", "consume")
Call_produce(p) ==
    p \in Producers /\ Len(file) < MaxRecords /\ File_call(p, "ready", "produce")
-----------------------------------------------------------------------------
\* get_shm tries to create the segment, and when it exists asks for it in a second
\* system call: a process that exits may have removed it in between.
get_shm_exists(p) ==
    /\ Inside(p, "init")
    /\ segment # 0
    /\ Goto(p, "attach")
    /\ UNCHANGED <<vars, contents, counter, keyVars, handle, loaded>>

\* Mutant: the process uses the ID that it had before it created the segment.
File_init_creates_detached(p) ==
    LET s == created + 1
    IN /\ Inside(p, "init")
       /\ segment = 0 /\ s \in Segments
       /\ segment' = s /\ created' = s
       /\ prod_offset' = [prod_offset EXCEPT ![s] = Len(file)]
       /\ counter' = [counter EXCEPT ![s] = 0]
       /\ Goto(p, "count")
       /\ UNCHANGED <<vars, file, seen, handle, removed, loaded>>

\* The creator sets the offset to the end of the file.
File_init_creates(p) ==
    LET s == created + 1
    IN /\ Inside(p, "init")
       /\ segment = 0 /\ s \in Segments
       /\ segment' = s /\ created' = s
       /\ prod_offset' = [prod_offset EXCEPT ![s] = Len(file)]
       /\ counter' = [counter EXCEPT ![s] = 0]
       /\ handle' = [handle EXCEPT ![p] = s]
       /\ Goto(p, "count")
       /\ UNCHANGED <<vars, file, seen, removed, loaded>>

File_init_attaches(p) ==
    /\ Inside(p, "attach")
    /\ segment # 0
    /\ handle' = [handle EXCEPT ![p] = segment]
    /\ Goto(p, "count")
    /\ UNCHANGED <<vars, contents, counter, keyVars, loaded>>

\* The segment is gone: the program removes the monitor and exits.
File_init_fails(p) ==
    /\ Inside(p, "attach")
    /\ segment = 0
    /\ removed' = TRUE
    /\ Goto(p, "exit")
    /\ UNCHANGED <<vars, contents, counter, segment, created, handle, loaded>>

\* The load and the store of (*counter)++.  What wraps below 0 is negative here.
Load(p, step) ==
    /\ loaded' = [loaded EXCEPT ![p] = counter[handle[p]]]
    /\ Goto(p, step)
    /\ UNCHANGED <<vars, contents, counter, keyVars, handle>>

StoreCounter(p, n) == counter' = [counter EXCEPT ![handle[p]] = n]

Count(p) == Inside(p, "count") /\ Load(p, "counted")

File_init_ends(p) ==
    /\ Inside(p, "counted")
    /\ StoreCounter(p, loaded[p] + 1)
    /\ leave_monitor(p)
    /\ Goto(p, "ready")
    /\ UNCHANGED <<contents, keyVars, handle, loaded>>
-----------------------------------------------------------------------------
\* Mutant: the offset of the consumer is compared without the length of what it reads.
Available_off_by_one(p) == Len(seen[p]) <= prod_offset[handle[p]]

\* curr_offset + nbyte <= *prod_offset
Available(p) == Len(seen[p]) + 1 <= prod_offset[handle[p]]

File_consume_waits(p) ==
    /\ Inside(p, "consume") /\ ~ Available(p)
    /\ wait_cond(p, COND_NEWDATA)
    /\ UNCHANGED fileVars

\* At the end of the file, read returns 0 and the offset of the fd does not move.
File_consume(p) ==
    LET n == Len(seen[p])
    IN /\ Inside(p, "consume") /\ Available(p)
       /\ seen' = IF n < Len(file) THEN [seen EXCEPT ![p] = Append(@, file[n + 1])] ELSE seen
       /\ leave_monitor(p)
       /\ Goto(p, "ready")
       /\ UNCHANGED <<file, prod_offset, counter, keyVars, handle, loaded>>

\* pwrite of one record at offset n, which is never beyond the end.
Written(n, r) == IF n < Len(file) THEN [file EXCEPT ![n + 1] = r] ELSE Append(file, r)

\* Mutant: the producer that writes does not move the offset of production.
File_produce_in_place(p) ==
    LET s == handle[p]
    IN /\ Inside(p, "produce")
       /\ file' = Written(prod_offset[s], p)
       /\ broadcast_cond(p, COND_NEWDATA)
       /\ Goto(p, "leave")
       /\ UNCHANGED <<seen, prod_offset, counter, keyVars, handle, loaded>>

File_produce(p) ==
    LET s == handle[p]
    IN /\ Inside(p, "produce")
       /\ file' = Written(prod_offset[s], p)
       /\ prod_offset' = [prod_offset EXCEPT ![s] = @ + 1]
       /\ broadcast_cond(p, COND_NEWDATA)
       /\ Goto(p, "leave")
       /\ UNCHANGED <<seen, counter, keyVars, handle, loaded>>

File_produce_ends(p) ==
    /\ Inside(p, "leave")
    /\ leave_monitor(p)
    /\ Goto(p, "ready")
    /\ UNCHANGED <<contents, counter, keyVars, handle, loaded>>
-----------------------------------------------------------------------------
\* exit_procedure: the load and the store of (*counter)--, the test of the counter,
\* and remove_shm, which has no effect on a segment that has been removed.
File_remove_loads(p) == pc[p] = "ready" /\ call[p].at = "out" /\ Load(p, "rm_count")

File_remove_stores(p) ==
    /\ pc[p] = "rm_count"
    /\ StoreCounter(p, loaded[p] - 1)
    /\ Goto(p, "rm_test")
    /\ UNCHANGED <<vars, contents, keyVars, handle, loaded>>

File_remove_tests(p) ==
    /\ pc[p] = "rm_test"
    /\ removed' = (counter[handle[p]] = 0)
    /\ Goto(p, "rm_shm")
    /\ UNCHANGED <<vars, contents, counter, segment, created, handle, loaded>>

File_remove_frees(p) ==
    /\ pc[p] = "rm_shm"
    /\ segment' = IF segment = handle[p] THEN 0 ELSE segment
    /\ Goto(p, "exit")
    /\ UNCHANGED <<vars, contents, counter, created, removed, handle, loaded>>
-----------------------------------------------------------------------------
FileInit ==
    /\ Init
    /\ file \in {<<>>, <<Old>>}
    /\ seen = [c \in Consumers |-> <<>>]
    /\ segment = 0 /\ created = 0 /\ removed = FALSE
    /\ prod_offset = [s \in Segments |-> 0]
    /\ counter = [s \in Segments |-> 0]
    /\ pc = [p \in Procs |-> "start"]
    /\ handle = [p \in Procs |-> 0]
    /\ loaded = [p \in Procs |-> 0]

IPC02_File_init(p) ==
    \/ get_shm_exists(p)
    \/ File_init_creates(p)
    \/ File_init_attaches(p)
    \/ File_init_fails(p)
    \/ Count(p)
    \/ File_init_ends(p)
IPC02_File_consume(p) == File_consume_waits(p) \/ File_consume(p)
IPC02_File_produce(p) == File_produce(p) \/ File_produce_ends(p)
IPC02_File_remove(p) ==
    \/ File_remove_loads(p)
    \/ File_remove_stores(p)
    \/ File_remove_tests(p)
    \/ File_remove_frees(p)

FileNext ==
    /\ ~ removed
    /\ \E p \in Procs :
          \/ Call_init(p)
          \/ Call_consume(p)
          \/ Call_produce(p)
          \/ IPC02_File_init(p)
          \/ IPC02_File_consume(p)
          \/ IPC02_File_produce(p)
          \/ IPC02_File_remove(p)
          \/ Continue(p) /\ UNCHANGED fileVars

allVars == <<vars, fileVars>>
FileSpec == FileInit /\ [][FileNext]_allVars
-----------------------------------------------------------------------------
\* The type invariant of the file, the segments and the handles.
FileTypeOK ==
    /\ file \in Seq(Records)
    /\ seen \in [Consumers -> Seq(Records)]
    /\ segment \in 0 .. created /\ created \in 0 .. MaxSegments
    /\ prod_offset \in [Segments -> Nat]
    /\ counter \in [Segments -> Int]
    /\ pc \in [Procs -> FileSteps]
    /\ handle \in [Procs -> 0 .. created]
    /\ loaded \in [Procs -> Int]
    /\ removed \in BOOLEAN
    /\ \A p \in Procs : handle[p] = 0 => pc[p] \in {"start", "init", "attach", "exit"}

\* "Wait until you can consume produced data" (file.c:176): whichever segment a
\* consumer is attached to, and whoever has written in the file meanwhile, a consumer
\* that need not wait finds a whole record at its offset.
ReadsAreWhole ==
    \A c \in Consumers : Inside(c, "consume") /\ Available(c) => Len(seen[c]) < Len(file)

Log == INSTANCE SharedLog WITH log <- file, Records <- Records, Consumers <- Consumers, seen <- seen

\* "Produce the next nbyte byte in the file" (file.c:203): as long as no second segment
\* has been created under the users of the first, the file is a log.
FileIsLog == Log!Init /\ [][created' <= 1 => Log!Next]_<<file, seen>>
=============================================================================
