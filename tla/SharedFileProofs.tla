--------------------------- MODULE SharedFileProofs ---------------------------
(***************************************************************************)
(* The shared file of file.c and its programs, for any numbers of          *)
(* producers, consumers, records and segments: the programs keep to the    *)
(* protocol of the monitor, a consumer never finds half a record, and the  *)
(* file is a log while its first segment lives.                            *)
(*                                                                         *)
(* The invariant is that no segment counts more than the file has, and     *)
(* that the only segment, while there is but one, counts all of it.  It    *)
(* does not depend on the counter of users, which is not protected.        *)
(***************************************************************************)
EXTENDS SharedFile, TLAPS

\* What the segments count, of what the file has.
Counted ==
    /\ \A s \in Segments : prod_offset[s] <= Len(file)
    /\ created = 1 => prod_offset[1] = Len(file)

\* Who executes which function.
Roles ==
    \A p \in Procs : /\ pc[p] = "consume" => p \in Consumers
                     /\ pc[p] = "produce" => p \in Producers

FileInv == FileTypeOK /\ Counted /\ Roles

\* The actions of file.c that leave the records alone: what they may change.
Elsewhere ==
    /\ UNCHANGED contents
    /\ segment' \in 0 .. created /\ UNCHANGED created
    /\ counter' \in [Segments -> Int]
    /\ pc' \in [Procs -> FileSteps]
    /\ handle' \in [Procs -> 0 .. created]
    /\ loaded' \in [Procs -> Int]
    /\ removed' \in BOOLEAN
    /\ \A p \in Procs : handle'[p] = 0 => pc'[p] \in {"start", "init", "attach", "exit"}
    /\ Roles'

LEMMA ElsewhereKeeps ==
    ASSUME FileInv, Elsewhere
    PROVE  FileInv' /\ UNCHANGED <<file, seen>>
BY DEF FileInv, FileTypeOK, Counted, Elsewhere, contents

\* One step of a program: the invariant, and what the log does.
LEMMA FileStep ==
    ASSUME FileInv, FileNext
    PROVE  FileInv' /\ (created' <= 1 => Log!Next \/ UNCHANGED <<file, seen>>)
<1> USE DEF FileInv
<1>1. /\ created \in 0 .. MaxSegments /\ MaxSegments \in Nat \ {0} /\ segment \in 0 .. created
      /\ Segments = 1 .. MaxSegments
      /\ handle \in [Procs -> 0 .. created] /\ pc \in [Procs -> FileSteps]
      /\ loaded \in [Procs -> Int] /\ counter \in [Segments -> Int]
      /\ prod_offset \in [Segments -> Nat] /\ file \in Seq(Records)
      /\ seen \in [Consumers -> Seq(Records)]
      /\ removed \in BOOLEAN /\ Len(file) \in Nat
      /\ Producers \subseteq Procs /\ Consumers \subseteq Procs
  BY FileBoundsAssumption, FileProcsAssumption DEF FileTypeOK, Segments
<1>2. ASSUME Elsewhere
      PROVE  FileInv' /\ (created' <= 1 => Log!Next \/ UNCHANGED <<file, seen>>)
  BY <1>2, ElsewhereKeeps
<1>3. PICK p \in Procs :
         \/ Call_init(p)
         \/ Call_consume(p)
         \/ Call_produce(p)
         \/ IPC02_File_init(p)
         \/ IPC02_File_consume(p)
         \/ IPC02_File_produce(p)
         \/ IPC02_File_remove(p)
         \/ Continue(p) /\ UNCHANGED fileVars
  BY DEF FileNext
<1>4. handle[p] # 0 => handle[p] \in Segments
  BY <1>1
<1>5. CASE Call_init(p) \/ Call_consume(p) \/ Call_produce(p) \/ get_shm_exists(p)
           \/ File_init_attaches(p) \/ File_init_fails(p) \/ File_produce_ends(p)
           \/ File_remove_tests(p) \/ File_remove_frees(p)
  <2>1. pc' = [pc EXCEPT ![p] = pc'[p]] /\ pc'[p] \in FileSteps
    BY <1>1, <1>5
       DEF Call_init, Call_consume, Call_produce, File_call, get_shm_exists, File_init_attaches,
           File_init_fails, File_produce_ends, File_remove_tests, File_remove_frees, Goto, FileSteps
  <2>2. Roles'
    BY <1>1, <1>5, <2>1
       DEF Roles, Call_init, Call_consume, Call_produce, File_call, get_shm_exists,
           File_init_attaches, File_init_fails, File_produce_ends, File_remove_tests,
           File_remove_frees, Goto
  <2>3. /\ UNCHANGED <<contents, created, counter, loaded>>
        /\ segment' \in 0 .. created /\ removed' \in BOOLEAN
    <3>1. CASE Call_init(p) \/ Call_consume(p) \/ Call_produce(p) \/ get_shm_exists(p)
      BY <1>1, <3>1
         DEF Call_init, Call_consume, Call_produce, File_call, get_shm_exists, keyVars
    <3>2. CASE File_init_attaches(p) \/ File_init_fails(p) \/ File_produce_ends(p)
      BY <1>1, <3>2 DEF File_init_attaches, File_init_fails, File_produce_ends, keyVars
    <3>3. CASE File_remove_tests(p)
      <4>1. removed' \in BOOLEAN
        BY <3>3 DEF File_remove_tests
      <4> QED
        BY <1>1, <3>3, <4>1 DEF File_remove_tests
    <3>4. CASE File_remove_frees(p)
      BY <1>1, <3>4 DEF File_remove_frees
    <3> QED
      BY <1>5, <3>1, <3>2, <3>3, <3>4
  <2>4. /\ handle' = [handle EXCEPT ![p] = handle'[p]] /\ handle'[p] \in 0 .. created
        /\ handle'[p] = 0 => pc'[p] \in {"start", "init", "attach", "exit"}
    <3>1. CASE File_init_attaches(p)
      BY <1>1, <3>1 DEF File_init_attaches
    <3>2. CASE ~ File_init_attaches(p)
      <4>1. UNCHANGED handle
        BY <1>5, <3>2
           DEF Call_init, Call_consume, Call_produce, File_call, get_shm_exists, File_init_fails,
               File_produce_ends, File_remove_tests, File_remove_frees
      <4> QED
        BY <1>1, <1>5, <3>2, <4>1
           DEF Call_init, Call_consume, Call_produce, File_call, get_shm_exists, File_init_fails,
               File_produce_ends, File_remove_tests, File_remove_frees, Goto, Inside, FileTypeOK
    <3> QED
      BY <3>1, <3>2
  <2>5. Elsewhere
    BY <1>1, <2>1, <2>2, <2>3, <2>4 DEF Elsewhere, FileTypeOK
  <2> QED
    BY <1>2, <2>5
<1>6. CASE Count(p) \/ File_init_ends(p) \/ File_remove_loads(p) \/ File_remove_stores(p)
  <2>1. handle[p] \in Segments
    BY <1>1, <1>4, <1>6
       DEF Count, File_init_ends, File_remove_loads, File_remove_stores, Inside, FileTypeOK
  <2>2. counter[handle[p]] \in Int /\ loaded[p] + 1 \in Int /\ loaded[p] - 1 \in Int
    BY <1>1, <2>1
  <2>3. /\ UNCHANGED <<contents, segment, created, handle, removed>>
        /\ pc' = [pc EXCEPT ![p] = pc'[p]]
        /\ pc'[p] \in {"counted", "ready", "rm_count", "rm_test"}
    BY <1>1, <1>6
       DEF Count, File_init_ends, File_remove_loads, File_remove_stores, Load, Goto, keyVars,
           contents
  <2>4. counter' \in [Segments -> Int] /\ loaded' \in [Procs -> Int]
    <3>1. counter \in [Segments -> Int] /\ loaded \in [Procs -> Int]
      BY <1>1
    <3>2. CASE Count(p) \/ File_remove_loads(p)
      BY <2>1, <2>2, <3>1, <3>2 DEF Count, File_remove_loads, Load
    <3>3. CASE File_init_ends(p) \/ File_remove_stores(p)
      BY <2>1, <2>2, <3>1, <3>3 DEF File_init_ends, File_remove_stores, StoreCounter
    <3> QED
      BY <1>6, <3>2, <3>3
  <2>5. Roles' /\ pc' \in [Procs -> FileSteps]
    BY <1>1, <2>3 DEF Roles, FileSteps
  <2>6. \A q \in Procs : handle'[q] = 0 => pc'[q] \in {"start", "init", "attach", "exit"}
    <3>1. handle[p] # 0 /\ UNCHANGED handle /\ \A q \in Procs \ {p} : pc'[q] = pc[q]
      BY <1>1, <2>1, <2>3 DEF Segments
    <3> QED
      BY <3>1 DEF FileTypeOK
  <2>7. Elsewhere
    BY <1>1, <2>3, <2>4, <2>5, <2>6 DEF Elsewhere
  <2> QED
    BY <1>2, <2>7
<1>7. CASE File_consume_waits(p) \/ UNCHANGED fileVars
  <2>1. Elsewhere
    BY <1>1, <1>7 DEF Elsewhere, File_consume_waits, fileVars, keyVars, contents, FileTypeOK, Roles
  <2> QED
    BY <1>2, <2>1
<1>8. CASE File_init_creates(p)
  <2> DEFINE s == created + 1
  <2>1. /\ s \in Segments /\ created' = s /\ segment' = s
        /\ prod_offset' = [prod_offset EXCEPT ![s] = Len(file)]
        /\ counter' = [counter EXCEPT ![s] = 0]
        /\ handle' = [handle EXCEPT ![p] = s]
        /\ pc' = [pc EXCEPT ![p] = "count"]
        /\ UNCHANGED <<file, seen, removed, loaded>>
    BY <1>8 DEF File_init_creates, Goto
  <2>2. FileTypeOK'
    BY <1>1, <2>1 DEF FileTypeOK, FileSteps
  <2>3. Counted'
    BY <1>1, <2>1 DEF Counted
  <2>4. Roles'
    BY <1>1, <2>1 DEF Roles
  <2>5. created' <= 1 => UNCHANGED <<file, seen>>
    BY <2>1
  <2> QED
    BY <2>2, <2>3, <2>4, <2>5
<1>9. CASE File_consume(p)
  <2> DEFINE n == Len(seen[p])
  <2>1. /\ handle[p] \in Segments /\ n \in Nat /\ seen[p] \in Seq(Records) /\ p \in Consumers
    <3>1. pc[p] = "consume"
      BY <1>9 DEF File_consume, Inside
    <3>2. handle[p] # 0 /\ p \in Consumers
      BY <3>1 DEF FileTypeOK, Roles
    <3> QED
      BY <1>1, <1>4, <3>2
  <2>2. n < Len(file)
    BY <1>1, <1>9, <2>1 DEF File_consume, Available, Counted
  <2>3. /\ seen' = [seen EXCEPT ![p] = Append(@, file[n + 1])]
        /\ UNCHANGED <<file, prod_offset, counter, segment, created, removed, handle, loaded>>
        /\ pc' = [pc EXCEPT ![p] = "ready"]
    BY <1>9, <2>2 DEF File_consume, Goto, keyVars
  <2>4. FileTypeOK'
    <3>1. file[n + 1] \in Records
      BY <1>1, <2>1, <2>2
    <3>2. Append(seen[p], file[n + 1]) \in Seq(Records)
      BY <2>1, <3>1
    <3>3. seen' \in [Consumers -> Seq(Records)] /\ pc' \in [Procs -> FileSteps]
      BY <1>1, <2>1, <2>3, <3>2 DEF FileSteps
    <3>4. \A q \in Procs : handle'[q] = 0 => pc'[q] \in {"start", "init", "attach", "exit"}
      BY <1>1, <2>1, <2>3 DEF FileTypeOK
    <3> QED
      BY <1>1, <2>3, <3>3, <3>4 DEF FileTypeOK
  <2>5. Counted'
    BY <2>3 DEF Counted
  <2>6. Log!Consume(p)
    BY <2>2, <2>3 DEF Log!Consume
  <2>7. Roles'
    BY <1>1, <2>3 DEF Roles
  <2> QED
    BY <2>1, <2>4, <2>5, <2>6, <2>7 DEF Log!Next
<1>10. CASE File_produce(p)
  <2> DEFINE s == handle[p]
             n == prod_offset[s]
  <2>1. s \in Segments /\ n \in Nat /\ n <= Len(file) /\ p \in Producers /\ p \in Records
    BY <1>1, <1>4, <1>10 DEF File_produce, Inside, FileTypeOK, Counted, Roles, Records
  <2>2. /\ file' = Written(n, p)
        /\ prod_offset' = [prod_offset EXCEPT ![s] = n + 1]
        /\ UNCHANGED <<seen, counter, segment, created, removed, handle, loaded>>
        /\ pc' = [pc EXCEPT ![p] = "leave"]
    BY <1>10 DEF File_produce, Goto, keyVars
  <2>3. /\ file' \in Seq(Records)
        /\ Len(file') = IF n < Len(file) THEN Len(file) ELSE Len(file) + 1
        /\ n = Len(file) => file' = Append(file, p)
    <3>1. CASE n < Len(file)
      <4>1. file' = [file EXCEPT ![n + 1] = p] /\ n + 1 \in 1 .. Len(file)
        BY <1>1, <2>1, <2>2, <3>1 DEF Written
      <4> QED
        BY <1>1, <2>1, <3>1, <4>1
    <3>2. CASE n = Len(file)
      BY <1>1, <2>1, <2>2, <3>2 DEF Written
    <3> QED
      BY <1>1, <2>1, <3>1, <3>2
  <2>4. FileTypeOK'
    <3>1. prod_offset' \in [Segments -> Nat] /\ pc' \in [Procs -> FileSteps]
      BY <1>1, <2>1, <2>2 DEF FileSteps
    <3>2. handle[p] # 0 /\ UNCHANGED handle /\ \A q \in Procs \ {p} : pc'[q] = pc[q]
      <4>1. handle[p] # 0
        BY <2>1 DEF Segments
      <4> QED
        BY <1>1, <2>2, <4>1
    <3>3. \A q \in Procs : handle'[q] = 0 => pc'[q] \in {"start", "init", "attach", "exit"}
      BY <3>2 DEF FileTypeOK
    <3> QED
      BY <1>1, <2>2, <2>3, <3>1, <3>3 DEF FileTypeOK
  <2>5. Counted'
    <3>1. \A t \in Segments : prod_offset'[t] <= Len(file')
      <4>1. Len(file) <= Len(file') /\ n + 1 <= Len(file')
        BY <1>1, <2>1, <2>3
      <4>2. prod_offset'[s] = n + 1 /\ \A t \in Segments \ {s} : prod_offset'[t] = prod_offset[t]
        BY <1>1, <2>1, <2>2
      <4>3. \A t \in Segments : prod_offset[t] \in Nat /\ prod_offset[t] <= Len(file)
        BY <1>1 DEF Counted
      <4>4. Len(file) \in Nat /\ Len(file') \in Nat
        BY <1>1, <2>3
      <4> QED
        BY ONLY <2>1, <4>1, <4>2, <4>3, <4>4
    <3>2. created' = 1 => prod_offset'[1] = Len(file')
      BY <1>1, <2>1, <2>2, <2>3 DEF Counted
    <3> QED
      BY <3>1, <3>2 DEF Counted
  <2>6. created' <= 1 => Log!Produce(p)
    BY <1>1, <2>1, <2>2, <2>3 DEF Counted, Log!Produce
  <2>7. Roles'
    BY <1>1, <2>2 DEF Roles
  <2> QED
    BY <2>1, <2>4, <2>5, <2>6, <2>7 DEF Log!Next
<1> QED
  BY <1>3, <1>5, <1>6, <1>7, <1>8, <1>9, <1>10
     DEF IPC02_File_init, IPC02_File_consume, IPC02_File_produce, IPC02_File_remove

LEMMA FileInvariant == FileSpec => []FileInv
<1>1. FileInit => FileInv
  <2> SUFFICES ASSUME FileInit PROVE FileInv
    OBVIOUS
  <2>1. file \in Seq(Records) /\ Len(file) >= 0
    <3>1. <<>> \in Seq(Records) /\ <<Old>> \in Seq(Records)
      BY DEF Records
    <3>2. file \in Seq(Records)
      BY <3>1 DEF FileInit
    <3> QED
      BY <3>2
  <2>2. 0 \in 0 .. 0 /\ 0 \in 0 .. MaxSegments
    BY FileBoundsAssumption
  <2>3. FileTypeOK
    <3>1. \A c \in Consumers : seen[c] = <<>>
      BY DEF FileInit
    <3>2. seen \in [Consumers -> Seq(Records)]
      BY DEF FileInit
    <3>3. /\ prod_offset \in [Segments -> Nat] /\ counter \in [Segments -> Int]
          /\ pc \in [Procs -> FileSteps] /\ handle \in [Procs -> 0 .. 0]
          /\ loaded \in [Procs -> Int]
      BY <2>2 DEF FileInit, FileSteps
    <3>4. created = 0 /\ segment = 0 /\ removed \in BOOLEAN /\ \A p \in Procs : pc[p] = "start"
      BY DEF FileInit
    <3> QED
      BY <2>1, <2>2, <3>2, <3>3, <3>4 DEF FileTypeOK
  <2>4. Counted
    BY <2>1 DEF FileInit, Counted
  <2> QED
    BY <2>3, <2>4 DEF FileInit, FileInv, Roles
<1>2. FileInv /\ [FileNext]_allVars => FileInv'
  <2>1. FileInv /\ UNCHANGED allVars => FileInv'
    BY DEF FileInv, FileTypeOK, Counted, Roles, allVars, fileVars, contents, keyVars
  <2> QED
    BY <2>1, FileStep
<1> QED
  BY <1>1, <1>2, PTL DEF FileSpec

\* The file, the segments and the handles keep their types, for any number of users and
\* whatever the counter of users becomes.
THEOREM FileTypes == FileSpec => []FileTypeOK
BY FileInvariant, PTL DEF FileInv

\* A consumer that need not wait finds a whole record at its offset, whichever segment it is
\* attached to, for any numbers of users, records and segments.
THEOREM WholeRecords == FileSpec => []ReadsAreWhole
<1>1. FileInv => ReadsAreWhole
  <2> SUFFICES ASSUME FileInv, NEW c \in Consumers, Inside(c, "consume"), Available(c)
               PROVE  Len(seen[c]) < Len(file)
    BY DEF ReadsAreWhole
  <2>1. c \in Procs /\ handle[c] # 0 /\ handle[c] \in 0 .. created /\ created \in 0 .. MaxSegments
    BY FileProcsAssumption DEF FileInv, FileTypeOK, Inside
  <2>2. handle[c] \in Segments
    BY <2>1, FileBoundsAssumption DEF Segments
  <2>3. prod_offset[handle[c]] <= Len(file) /\ prod_offset[handle[c]] \in Nat
        /\ seen[c] \in Seq(Records) /\ file \in Seq(Records)
    BY <2>2 DEF FileInv, FileTypeOK, Counted
  <2> QED
    BY <2>3 DEF Available
<1> QED
  BY <1>1, FileInvariant, PTL

\* While there is but one segment the file is a log: the producers append, and every consumer
\* reads record after record.
THEOREM SharedFileIsLog == FileSpec => FileIsLog
<1>1. FileInit => Log!Init
  <2> SUFFICES ASSUME FileInit PROVE Log!Init
    OBVIOUS
  <2>1. <<>> \in Seq(Records) /\ <<Old>> \in Seq(Records)
    BY DEF Records
  <2> QED
    BY <2>1 DEF FileInit, Log!Init
<1>2. FileInv /\ [FileNext]_allVars => [created' <= 1 => Log!Next]_<<file, seen>>
  <2>1. UNCHANGED allVars => UNCHANGED <<file, seen>>
    BY DEF allVars, fileVars, contents
  <2> QED
    BY <2>1, FileStep
<1> QED
  BY <1>1, <1>2, FileInvariant, PTL DEF FileSpec, FileIsLog

\* The programs use the monitor as its functions ask: what is proved of the monitor holds of
\* them.
THEOREM FileUsesMonitor == FileSpec => Spec
<1>1. FileInit => Init
  BY DEF FileInit
<1>2. ASSUME FileNext PROVE [Next]_vars
  <2>1. PICK q \in Procs :
           \/ Call_init(q)
           \/ Call_consume(q)
           \/ Call_produce(q)
           \/ IPC02_File_init(q)
           \/ IPC02_File_consume(q)
           \/ IPC02_File_produce(q)
           \/ IPC02_File_remove(q)
           \/ Continue(q) /\ UNCHANGED fileVars
    BY <1>2 DEF FileNext
  <2>2. CASE \/ Call_init(q) \/ Call_consume(q) \/ Call_produce(q)
             \/ Continue(q) /\ UNCHANGED fileVars
    BY <2>2 DEF Call_init, Call_consume, Call_produce, File_call, Next, Step
  <2>3. CASE IPC02_File_init(q) \/ IPC02_File_remove(q)
    BY <2>3
       DEF IPC02_File_init, IPC02_File_remove, get_shm_exists, File_init_creates,
           File_init_attaches, File_init_fails, Count, Load, File_init_ends, File_remove_loads,
           File_remove_stores, File_remove_tests, File_remove_frees, Next, Step
  <2>4. CASE IPC02_File_consume(q) \/ IPC02_File_produce(q)
    BY <2>4, FileCondsAssumption
       DEF IPC02_File_consume, IPC02_File_produce, File_consume_waits, File_consume,
           File_produce, File_produce_ends, Next, Step, Wait, Broadcast
  <2> QED
    BY <2>1, <2>2, <2>3, <2>4
<1>3. [FileNext]_allVars => [Next]_vars
  <2>1. UNCHANGED allVars => UNCHANGED vars
    BY DEF allVars
  <2> QED
    BY <1>2, <2>1
<1> QED
  BY <1>1, <1>3, PTL DEF FileSpec, Spec
=============================================================================
