-------------------------- MODULE SharedArrayProofs --------------------------
(***************************************************************************)
(* The shared array of array.c and its programs, for any numbers of        *)
(* producers, consumers, elements and segments: who is registered is       *)
(* exactly what a segment records, each segment delivers like a            *)
(* BroadcastArray, and the programs keep to the protocol of the monitor.   *)
(*                                                                         *)
(* Registration does not depend on the monitor: Array_init and             *)
(* Array_remove change a record and its counters together.  What it needs  *)
(* is that Array_init finds an ID that nobody has: there is one among the  *)
(* first n_consumers + 1, because n_consumers consumers have an ID each.   *)
(***************************************************************************)
EXTENDS SharedArray, MonitorProofs, WellFoundedInduction

\* Where a process may be, by what it is and by what it is attached to.
UsersAttached ==
    \A p \in Procs :
        /\ Attached(p) => handle[p] \in Segments
        /\ pc[p] \in {"start", "init", "attach"} => handle[p] = 0
        /\ pc[p] = "consume" => p \in Consumers
        /\ pc[p] = "produce" => p \in Producers

\* A dirty bit is that of a value; a program that is not attached yet has consumed nothing.
Produced ==
    /\ \A s \in Segments, k \in Ids, i \in Indexes : bitmap[s][k][i] = 1 => array[s][i] \in Values
    /\ \A c \in Consumers : handle[c] = 0 => value[c] = NoValue

ArrayInv == ArrayTypeOK /\ RegistrationExact /\ UsersAttached /\ Produced

\* The array that the users of segment s share.
Shared(s) == INSTANCE BroadcastArray
                 WITH members <- Members(s), slot <- Slot(s), value <- Value(s)

\* Every set of numbers has a first one.
LEMMA FirstNumber ==
    ASSUME NEW T \in SUBSET Nat, T # {}
    PROVE  \E m \in T : \A l \in 0 .. m - 1 : l \notin T
<1> DEFINE Below == {0 .. x - 1 : x \in T}
<1>1. Below \subseteq FiniteSubsetsOf(Nat) /\ Below # {}
  <2>1. \A x \in T : 0 .. x - 1 \in SUBSET Nat /\ IsFiniteSet(0 .. x - 1)
    BY FS_Interval
  <2> QED
    BY <2>1 DEF FiniteSubsetsOf
<1>2. PICK B \in Below : \A C \in Below : <<C, B>> \notin StrictSubsetOrdering(Nat)
  BY <1>1, FS_StrictSubsetOrderingWellFounded, WFMin
<1>3. PICK m \in T : B = 0 .. m - 1
  BY <1>2
<1>4. ASSUME NEW l \in 0 .. m - 1, l \in T PROVE FALSE
  <2>1. 0 .. l - 1 \in Below /\ 0 .. l - 1 \subseteq B /\ l \in B /\ l \notin 0 .. l - 1
    BY <1>3, <1>4
  <2>2. <<0 .. l - 1, B>> \in StrictSubsetOrdering(Nat)
    BY <1>3, <2>1 DEF StrictSubsetOrdering
  <2> QED
    BY <1>2, <2>1, <2>2
<1> QED
  BY <1>3, <1>4

\* The users of a segment can be counted.
LEMMA UsersFinite ==
    ASSUME NEW s
    PROVE  /\ IsFiniteSet(Users(s)) /\ Cardinality(Users(s)) \in Nat
           /\ IsFiniteSet(Members(s)) /\ Cardinality(Members(s)) \in Nat
<1>1. Users(s) \subseteq Procs /\ Members(s) \subseteq Procs
  BY DEF Users, Members
<1> QED
  BY <1>1, ProcsAssumption, FS_Subset, FS_CardinalityType

\* Array_init finds an ID that nobody has when there are not too many consumers.
LEMMA FreeId ==
    ASSUME ArrayTypeOK, RegistrationExact, NEW s \in Segments, n_consumers[s] < MAX_CONSUMERS
    PROVE  FirstFree(s) \in Ids /\ used_ids[s][FirstFree(s)] = 0
<1> DEFINE n == n_consumers[s]
           Used == {k \in Ids : used_ids[s][k] # 0}
           Free == {k \in 0 .. n : used_ids[s][k] = 0}
           Found(k) == /\ k = n + 1 \/ used_ids[s][k] = 0
                       /\ \A l \in 0 .. k - 1 : used_ids[s][l] # 0
<1>1. n \in Nat /\ MAX_CONSUMERS \in Nat /\ 0 .. n \subseteq Ids
  BY ArraySizeAssumption DEF ArrayTypeOK, Ids
<1>2. IsFiniteSet(Used) /\ Cardinality(Used) <= n
  <2> DEFINE id == [c \in Members(s) |-> consumer_id[c]]
  <2>1. Used = {consumer_id[c] : c \in Members(s)} /\ n = Cardinality(Members(s))
    BY DEF RegistrationExact
  <2>2. id \in Surjection(Members(s), Used)
    BY <2>1 DEF Surjection
  <2> QED
    BY <2>1, <2>2, UsersFinite, FS_Surjection DEF ExistsSurjection
<1>3. Free # {}
  <2> SUFFICES ASSUME Free = {} PROVE FALSE
    OBVIOUS
  <2>1. 0 .. n \subseteq Used
    BY <1>1
  <2>2. Cardinality(0 .. n) <= Cardinality(Used)
    BY <1>2, <2>1, FS_Subset
  <2>3. Cardinality(0 .. n) = n + 1
    BY <1>1, FS_Interval
  <2> QED
    BY <1>1, <1>2, <2>2, <2>3, FS_CardinalityType
<1>4. PICK m \in Free : \A l \in 0 .. m - 1 : l \notin Free
  <2>1. Free \in SUBSET Nat /\ Free # {}
    BY <1>1, <1>3
  <2> HIDE DEF Free
  <2> QED
    BY <2>1, FirstNumber
<1>5. m \in 0 .. n /\ Found(m)
  BY <1>1, <1>4
<1>6. \E k \in 0 .. MAX_CONSUMERS : Found(k)
  BY <1>1, <1>5
<1>7. FirstFree(s) \in 0 .. MAX_CONSUMERS /\ Found(FirstFree(s))
  BY <1>6 DEF FirstFree
<1>8. FirstFree(s) <= m
  BY <1>1, <1>4, <1>5, <1>7
<1> QED
  BY <1>1, <1>5, <1>7, <1>8
-----------------------------------------------------------------------------
\* The initial state.
LEMMA ArrayInitInv == ArrayInit => ArrayInv
<1> SUFFICES ASSUME ArrayInit PROVE ArrayInv
  OBVIOUS
<1>1. ArrayTypeOK
  <2>1. 0 \in 0 .. MAX_CONSUMERS /\ 0 \in 0 .. MaxSegments /\ 0 \in 0 .. 0
    BY ArraySizeAssumption
  <2> QED
    BY <2>1 DEF ArrayInit, ArrayTypeOK, ArraySteps
<1>2. RegistrationExact
  <2> SUFFICES ASSUME NEW s \in Segments
               PROVE  /\ counter[s] = Cardinality(Users(s))
                      /\ n_consumers[s] = Cardinality(Members(s))
                      /\ {k \in Ids : used_ids[s][k] # 0} = {consumer_id[c] : c \in Members(s)}
                      /\ \A c, d \in Members(s) : consumer_id[c] = consumer_id[d] => c = d
    BY DEF RegistrationExact
  <2>1. Users(s) = {} /\ Members(s) = {}
    BY DEF ArrayInit, Users, Members, Attached
  <2> QED
    BY <2>1, FS_EmptySet DEF ArrayInit
<1>3. UsersAttached /\ Produced
  BY ArrayProcsAssumption, ArraySizeAssumption DEF ArrayInit, UsersAttached, Produced, Attached
<1> QED
  BY <1>1, <1>2, <1>3 DEF ArrayInv

\* Who is registered where, with which ID, does not change.
SameUsers ==
    /\ \A q \in Procs : Attached(q)' <=> Attached(q)
    /\ UNCHANGED <<used_ids, n_consumers, counter, handle, consumer_id>>

LEMMA SameUsersExact ==
    ASSUME RegistrationExact, SameUsers
    PROVE  RegistrationExact' /\ \A s : Users(s)' = Users(s) /\ Members(s)' = Members(s)
<1>1. \A s : Users(s)' = Users(s) /\ Members(s)' = Members(s)
  BY DEF SameUsers, Users, Members
<1> QED
  BY <1>1 DEF SameUsers, RegistrationExact

\* A step of p that changes nothing of the segments, nor what p is registered in.
Elsewhere ==
    /\ SameUsers
    /\ UNCHANGED <<array, bitmap, value, created>>
    /\ segment' \in 0 .. created /\ removed' \in BOOLEAN
    /\ pc' \in [Procs -> ArraySteps] /\ index' \in [Procs -> Indexes]
    /\ UsersAttached'

LEMMA ElsewhereInv ==
    ASSUME ArrayInv, Elsewhere
    PROVE  ArrayInv' /\ \A s : UNCHANGED <<Members(s), Slot(s), Value(s)>>
<1>1. RegistrationExact' /\ \A s : Members(s)' = Members(s)
  BY SameUsersExact DEF ArrayInv, Elsewhere
<1>2. ArrayTypeOK' /\ Produced'
  BY DEF ArrayInv, Elsewhere, SameUsers, ArrayTypeOK, Produced
<1>3. \A s : Slot(s)' = Slot(s) /\ Value(s)' = Value(s)
  BY <1>1 DEF Elsewhere, SameUsers, Slot, Value
<1> QED
  BY <1>1, <1>2, <1>3 DEF ArrayInv, Elsewhere

\* The actions of that kind.
LEMMA StepElsewhere ==
    ASSUME ArrayInv, NEW p \in Procs,
           \/ Call_init(p) \/ Call_getLen(p) \/ Call_operation(p) \/ Call_remove(p)
           \/ get_shm_exists(p) \/ Array_init_fails(p) \/ Array_getLen(p) \/ Array_leave(p)
           \/ Array_rm(p) \/ UNCHANGED arrayVars
    PROVE  Elsewhere
<1>1. /\ pc \in [Procs -> ArraySteps] /\ index \in [Procs -> Indexes]
      /\ segment \in 0 .. created /\ 0 \in 0 .. created /\ removed \in BOOLEAN
  BY DEF ArrayInv, ArrayTypeOK
<1>2. CASE UNCHANGED arrayVars
  BY <1>1, <1>2 DEF ArrayInv, arrayVars, segmentVars, keyVars, localVars, Elsewhere, SameUsers,
                    UsersAttached, Attached
<1>3. CASE ~ UNCHANGED arrayVars
  <2>1. /\ pc' = [pc EXCEPT ![p] = pc'[p]] /\ pc'[p] \in ArraySteps
        /\ pc'[p] = "consume" => p \in Consumers
        /\ pc'[p] = "produce" => p \in Producers
        /\ pc'[p] \in {"start", "init", "attach"} => pc[p] \in {"start", "init", "attach"}
    BY <1>1, <1>3, ArrayProcsAssumption
       DEF Call_init, Call_getLen, Call_operation, Call_remove, Array_call, get_shm_exists,
           Array_init_fails, Array_getLen, Array_leave, Array_rm, Inside, Goto, ArraySteps, Leaving
  <2>2. Attached(p)' <=> Attached(p)
    BY <1>1, <1>3
       DEF Call_init, Call_getLen, Call_operation, Call_remove, Array_call, get_shm_exists,
           Array_init_fails, Array_getLen, Array_leave, Array_rm, Inside, Goto, Attached
  <2>3. UNCHANGED <<segmentVars, handle, consumer_id, value, created>>
    BY <1>3
       DEF Call_init, Call_getLen, Call_operation, Call_remove, Array_call, get_shm_exists,
           Array_init_fails, Array_getLen, Array_leave, Array_rm, keyVars, localVars, segmentVars
  <2>4. segment' \in 0 .. created /\ removed' \in BOOLEAN /\ index' \in [Procs -> Indexes]
    BY <1>1, <1>3
       DEF Call_init, Call_getLen, Call_operation, Call_remove, Array_call, get_shm_exists,
           Array_init_fails, Array_getLen, Array_leave, Array_rm, keyVars, localVars, segmentVars
  <2>5. \A q \in Procs : Attached(q)' <=> Attached(q)
    BY <1>1, <2>1, <2>2 DEF Attached
  <2>6. UsersAttached'
    BY <1>1, <2>1, <2>3, <2>5 DEF ArrayInv, UsersAttached
  <2> QED
    BY <1>1, <2>1, <2>3, <2>4, <2>5, <2>6 DEF Elsewhere, SameUsers, segmentVars
<1> QED
  BY <1>2, <1>3
-----------------------------------------------------------------------------
\* Array_init registers p in segment s: one more user, one more ID.
LEMMA JoinExact ==
    ASSUME ArrayInv, NEW p \in Procs, NEW s \in Segments, Join(p, s),
           pc[p] \in {"init", "attach"}
    PROVE  /\ RegistrationExact'
           /\ \A t \in Segments \ {s} : Members(t)' = Members(t)
           /\ Members(s)' = IF p \in Consumers THEN Members(s) \cup {p} ELSE Members(s)
           /\ p \notin Members(s)
           /\ \A q \in Procs \ {p} : consumer_id'[q] = consumer_id[q]
           /\ p \in Consumers => /\ n_consumers[s] < MAX_CONSUMERS
                                 /\ FirstFree(s) \in Ids /\ used_ids[s][FirstFree(s)] = 0
                                 /\ consumer_id'[p] = FirstFree(s)
<1>1. /\ pc' = [pc EXCEPT ![p] = "ready"] /\ pc \in [Procs -> ArraySteps] /\ ~ Attached(p)
      /\ handle' = [handle EXCEPT ![p] = s] /\ handle \in [Procs -> 0 .. created]
      /\ counter' = [counter EXCEPT ![s] = @ + 1] /\ counter \in [Segments -> Nat]
  BY DEF Join, Goto, ArrayInv, ArrayTypeOK, Attached
<1>2. /\ \A t \in Segments \ {s} : Users(t)' = Users(t)
      /\ Users(s)' = Users(s) \cup {p} /\ p \notin Users(s)
  BY <1>1 DEF Users, Attached
<1>3. /\ \A t \in Segments \ {s} : Members(t)' = Members(t)
      /\ Members(s)' = IF p \in Consumers THEN Members(s) \cup {p} ELSE Members(s)
      /\ p \notin Members(s)
  BY <1>2 DEF Members
<1>4. \A t \in Segments : counter'[t] = Cardinality(Users(t)')
  <2>1. counter'[s] = Cardinality(Users(s)')
    <3>1. Cardinality(Users(s) \cup {p}) = Cardinality(Users(s)) + 1
      BY <1>2, UsersFinite, FS_AddElement
    <3>2. counter[s] = Cardinality(Users(s)) /\ counter'[s] = counter[s] + 1
      BY <1>1 DEF ArrayInv, RegistrationExact
    <3> QED
      BY <1>2, <3>1, <3>2
  <2>2. \A t \in Segments \ {s} : counter'[t] = Cardinality(Users(t)')
    BY <1>1, <1>2 DEF ArrayInv, RegistrationExact
  <2> QED
    BY <2>1, <2>2
<1>5. CASE p \notin Consumers
  <2>1. UNCHANGED <<n_consumers, used_ids, consumer_id>>
    BY <1>5 DEF Join
  <2> QED
    BY <1>3, <1>4, <1>5, <2>1 DEF ArrayInv, RegistrationExact
<1>6. CASE p \in Consumers
  <2> DEFINE k == FirstFree(s)
  <2>1. n_consumers[s] < MAX_CONSUMERS /\ Register(p, s)
    BY <1>6 DEF Join
  <2>2. k \in Ids /\ used_ids[s][k] = 0
    BY <2>1, FreeId DEF ArrayInv
  <2>3. /\ n_consumers' = [n_consumers EXCEPT ![s] = @ + 1]
        /\ used_ids' = [used_ids EXCEPT ![s][k] = 1]
        /\ consumer_id' = [consumer_id EXCEPT ![p] = k]
        /\ n_consumers \in [Segments -> 0 .. MAX_CONSUMERS]
        /\ used_ids \in [Segments -> [Ids -> {0, 1}]]
        /\ consumer_id \in [Procs -> Ids \cup {-1}]
    BY <2>1 DEF Register, ArrayInv, ArrayTypeOK
  <2> HIDE DEF k
  <2>4. /\ consumer_id'[p] = k
        /\ \A q \in Procs \ {p} : consumer_id'[q] = consumer_id[q]
        /\ \A t \in Segments \ {s} : used_ids'[t] = used_ids[t]
        /\ \A j \in Ids : used_ids'[s][j] # 0 <=> used_ids[s][j] # 0 \/ j = k
    BY <2>2, <2>3
  <2>5. \A t \in Segments : n_consumers'[t] = Cardinality(Members(t)')
    <3>1. n_consumers'[s] = Cardinality(Members(s)')
      <4>1. Cardinality(Members(s) \cup {p}) = Cardinality(Members(s)) + 1
        BY <1>3, UsersFinite, FS_AddElement
      <4>2. n_consumers[s] = Cardinality(Members(s)) /\ n_consumers'[s] = n_consumers[s] + 1
        BY <2>3 DEF ArrayInv, RegistrationExact
      <4> QED
        BY <1>3, <1>6, <4>1, <4>2
    <3>2. \A t \in Segments \ {s} : n_consumers'[t] = Cardinality(Members(t)')
      BY <1>3, <2>3 DEF ArrayInv, RegistrationExact
    <3> QED
      BY <3>1, <3>2
  <2>6. \A t \in Segments : Members(t) \subseteq Procs
    BY DEF Members, Users
  <2>7. ASSUME NEW t \in Segments
        PROVE  /\ {j \in Ids : used_ids'[t][j] # 0} = {consumer_id'[c] : c \in Members(t)'}
               /\ \A c, d \in Members(t)' : consumer_id'[c] = consumer_id'[d] => c = d
    <3>1. /\ {j \in Ids : used_ids[t][j] # 0} = {consumer_id[c] : c \in Members(t)}
          /\ \A c, d \in Members(t) : consumer_id[c] = consumer_id[d] => c = d
      BY DEF ArrayInv, RegistrationExact
    <3>2. CASE t # s
      <4>1. p \notin Members(t)
        BY <1>1 DEF Members, Users
      <4>2. \A c \in Members(t) : consumer_id'[c] = consumer_id[c]
        BY <2>4, <2>6, <4>1
      <4> QED
        BY <1>3, <2>4, <3>1, <3>2, <4>2
    <3>3. CASE t = s
      <4>1. Members(s)' = Members(s) \cup {p}
        BY <1>3, <1>6
      <4>2. \A c \in Members(s) : consumer_id'[c] = consumer_id[c] /\ consumer_id[c] # k
        BY <1>3, <2>2, <2>4, <2>6, <3>1, <3>3
      <4>3. {consumer_id'[c] : c \in Members(s)'} = {consumer_id[c] : c \in Members(s)} \cup {k}
        BY <2>4, <4>1, <4>2
      <4>4. {j \in Ids : used_ids'[s][j] # 0} = {j \in Ids : used_ids[s][j] # 0} \cup {k}
        BY <2>2, <2>4
      <4>5. \A c, d \in Members(s)' : consumer_id'[c] = consumer_id'[d] => c = d
        BY <2>4, <3>1, <3>3, <4>1, <4>2
      <4> QED
        BY <3>1, <3>3, <4>3, <4>4, <4>5
    <3> QED
      BY <3>2, <3>3
  <2> QED
    BY <1>3, <1>4, <1>6, <2>1, <2>2, <2>4, <2>5, <2>7 DEF RegistrationExact, k
<1>7. p \notin Consumers => \A q \in Procs \ {p} : consumer_id'[q] = consumer_id[q]
  BY DEF Join
<1> QED
  BY <1>3, <1>5, <1>6, <1>7

\* The members of a segment are consumers with an ID that the segment records.
LEMMA MembersHaveIds ==
    ASSUME RegistrationExact, NEW s \in Segments, NEW c \in Members(s)
    PROVE  c \in Consumers /\ c \in Procs /\ consumer_id[c] \in Ids
           /\ used_ids[s][consumer_id[c]] # 0
<1>1. c \in Consumers /\ c \in Procs
  BY DEF Members, Users
<1>2. {k \in Ids : used_ids[s][k] # 0} = {consumer_id[d] : d \in Members(s)}
  BY DEF RegistrationExact
<1>3. consumer_id[c] \in {k \in Ids : used_ids[s][k] # 0}
  BY <1>2
<1> QED
  BY <1>1, <1>3

\* What the consumers have to consume stays the same when their bits do.
LEMMA SameSlots ==
    ASSUME NEW s, \A i \in Indexes : array'[s][i] = array[s][i],
           \A c \in Consumers, i \in Indexes :
              c \in Members(s)' /\ bitmap'[s][consumer_id'[c]][i] = 1
                 <=> c \in Members(s) /\ bitmap[s][consumer_id[c]][i] = 1
    PROVE  Slot(s)' = Slot(s)
BY DEF Slot

\* Array_init keeps the invariant, and is Join of BroadcastArray when p is a consumer.
LEMMA JoinStep ==
    ASSUME ArrayInv, NEW p \in Procs, NEW s \in Segments, Join(p, s),
           pc[p] \in {"init", "attach"},
           created' \in 0 .. MaxSegments, created <= created', s <= created',
           segment' \in 0 .. created'
    PROVE  /\ ArrayInv'
           /\ \A t \in Segments : Shared(t)!Next \/ UNCHANGED <<Members(t), Slot(t), Value(t)>>
<1> DEFINE k == FirstFree(s)
           zero == [i \in Indexes |-> 0]
<1>1. /\ pc' = [pc EXCEPT ![p] = "ready"] /\ handle' = [handle EXCEPT ![p] = s]
      /\ counter' = [counter EXCEPT ![s] = @ + 1]
      /\ UNCHANGED <<array, index, value, removed>>
      /\ p \in Consumers => n_consumers[s] < MAX_CONSUMERS /\ Register(p, s)
      /\ p \notin Consumers => UNCHANGED <<n_consumers, used_ids, bitmap, consumer_id>>
  BY DEF Join, Goto
<1>2. /\ ArrayTypeOK /\ RegistrationExact /\ UsersAttached /\ Produced
      /\ pc \in [Procs -> ArraySteps] /\ handle \in [Procs -> 0 .. created]
      /\ bitmap \in [Segments -> [Ids -> [Indexes -> {0, 1}]]]
      /\ created \in 0 .. MaxSegments /\ MaxSegments \in Nat
  BY ArraySizeAssumption DEF ArrayInv, ArrayTypeOK
<1>3. /\ RegistrationExact'
      /\ \A t \in Segments \ {s} : Members(t)' = Members(t)
      /\ Members(s)' = IF p \in Consumers THEN Members(s) \cup {p} ELSE Members(s)
      /\ p \notin Members(s)
      /\ \A q \in Procs \ {p} : consumer_id'[q] = consumer_id[q]
      /\ p \in Consumers => /\ k \in Ids /\ used_ids[s][k] = 0 /\ consumer_id'[p] = k
  BY JoinExact
<1>4. p \in Consumers =>
          /\ bitmap' = [bitmap EXCEPT ![s][k] = zero]
          /\ n_consumers' = [n_consumers EXCEPT ![s] = @ + 1]
          /\ used_ids' = [used_ids EXCEPT ![s][k] = 1]
          /\ consumer_id' = [consumer_id EXCEPT ![p] = k]
  BY <1>1 DEF Register
<1> HIDE DEF k
<1>5. ArrayTypeOK'
  <2>1. pc' \in [Procs -> ArraySteps]
    BY <1>1, <1>2 DEF ArraySteps
  <2>2. handle' \in [Procs -> 0 .. created']
    <3>1. s \in 0 .. created' /\ 0 .. created \subseteq 0 .. created'
      BY <1>2 DEF Segments
    <3> QED
      BY <1>1, <1>2, <3>1
  <2>3. counter' \in [Segments -> Nat]
    BY <1>1, <1>2 DEF ArrayTypeOK
  <2>4. /\ n_consumers' \in [Segments -> 0 .. MAX_CONSUMERS]
        /\ used_ids' \in [Segments -> [Ids -> {0, 1}]]
        /\ consumer_id' \in [Procs -> Ids \cup {-1}]
        /\ bitmap' \in [Segments -> [Ids -> [Indexes -> {0, 1}]]]
    <3>1. CASE p \notin Consumers
      BY <1>1, <1>2, <3>1 DEF ArrayTypeOK
    <3>2. CASE p \in Consumers
      <4>1. n_consumers' \in [Segments -> 0 .. MAX_CONSUMERS]
        <5>1. n_consumers \in [Segments -> 0 .. MAX_CONSUMERS]
          BY <1>2 DEF ArrayTypeOK
        <5>2. n_consumers[s] + 1 \in 0 .. MAX_CONSUMERS
          BY <1>1, <3>2, <5>1, ArraySizeAssumption
        <5> QED
          BY <1>4, <3>2, <5>1, <5>2
      <4>2. /\ used_ids' \in [Segments -> [Ids -> {0, 1}]]
            /\ consumer_id' \in [Procs -> Ids \cup {-1}]
        <5>1. /\ used_ids \in [Segments -> [Ids -> {0, 1}]]
              /\ consumer_id \in [Procs -> Ids \cup {-1}]
          BY <1>2 DEF ArrayTypeOK
        <5>2. [used_ids[s] EXCEPT ![k] = 1] \in [Ids -> {0, 1}]
          BY <5>1
        <5>3. used_ids' = [used_ids EXCEPT ![s] = [used_ids[s] EXCEPT ![k] = 1]]
          BY <1>4, <3>2
        <5> QED
          BY <1>3, <1>4, <3>2, <5>1, <5>2, <5>3
      <4>3. bitmap' \in [Segments -> [Ids -> [Indexes -> {0, 1}]]]
        <5>1. zero \in [Indexes -> {0, 1}]
          OBVIOUS
        <5>2. [bitmap[s] EXCEPT ![k] = zero] \in [Ids -> [Indexes -> {0, 1}]]
          BY <1>2, <5>1
        <5>3. bitmap' = [bitmap EXCEPT ![s] = [bitmap[s] EXCEPT ![k] = zero]]
          BY <1>4, <3>2
        <5> QED
          BY <1>2, <5>2, <5>3
      <4> QED
        BY <4>1, <4>2, <4>3
    <3> QED
      BY <3>1, <3>2
  <2> QED
    BY <1>1, <1>2, <2>1, <2>2, <2>3, <2>4 DEF ArrayTypeOK
<1>6. UsersAttached'
  BY <1>1, <1>2 DEF UsersAttached, Attached
<1>7. \A t \in Segments, j \in Ids, i \in Indexes :
         \/ bitmap'[t][j][i] = bitmap[t][j][i]
         \/ p \in Consumers /\ t = s /\ j = k /\ bitmap'[t][j][i] = 0
  BY <1>1, <1>2, <1>3, <1>4
<1>8. Produced'
  <2>1. \A c \in Consumers : handle'[c] = 0 => handle[c] = 0
    BY <1>1, <1>2, ArrayProcsAssumption DEF Segments
  <2> QED
    BY <1>1, <1>2, <1>7, <2>1 DEF Produced
<1>9. ASSUME NEW t \in Segments
      PROVE  /\ Slot(t)' = Slot(t) /\ Value(t)' = Value(t)
             /\ Members(t)' = Members(t) \/ (p \in Consumers /\ t = s)
  <2>1. ASSUME NEW c \in Members(t)
        PROVE  /\ consumer_id'[c] = consumer_id[c] /\ consumer_id[c] \in Ids
               /\ t = s /\ p \in Consumers => consumer_id[c] # k
    <3>1. p \notin Members(t)
      BY <1>2 DEF Members, Users, Attached
    <3>2. c \in Procs /\ consumer_id[c] \in Ids /\ used_ids[t][consumer_id[c]] # 0
      BY <1>2, MembersHaveIds
    <3> QED
      BY <1>3, <3>1, <3>2
  <2>2. ASSUME NEW c \in Consumers, NEW i \in Indexes
        PROVE  c \in Members(t)' /\ bitmap'[t][consumer_id'[c]][i] = 1
                  <=> c \in Members(t) /\ bitmap[t][consumer_id[c]][i] = 1
    <3>1. CASE c \in Members(t)
      <4>1. c \in Members(t)' /\ consumer_id[c] \in Ids
        BY <1>2, <1>3, <3>1, MembersHaveIds
      <4>2. bitmap'[t][consumer_id[c]][i] = bitmap[t][consumer_id[c]][i]
        <5>1. ~ (p \in Consumers /\ t = s /\ consumer_id[c] = k)
          BY <2>1, <3>1
        <5> QED
          BY <1>7, <4>1, <5>1
      <4>3. consumer_id'[c] = consumer_id[c]
        BY <2>1, <3>1
      <4> QED
        BY <3>1, <4>1, <4>2, <4>3
    <3>2. CASE c \notin Members(t) /\ c \in Members(t)'
      <4>1. t = s /\ c = p /\ p \in Consumers
        BY <1>3, <3>2
      <4>2. bitmap'[s][k][i] = 0
        BY <1>2, <1>3, <1>4, <4>1
      <4> QED
        BY <1>3, <3>2, <4>1, <4>2
    <3> QED
      BY <3>1, <3>2
  <2>3. Slot(t)' = Slot(t)
    BY <1>1, <2>2, SameSlots
  <2>4. Value(t)' = Value(t)
    <3>1. \A c \in Consumers : handle'[c] = handle[c] \/ (handle[c] = 0 /\ value[c] = NoValue)
      BY <1>1, <1>2, ArrayProcsAssumption DEF UsersAttached, Produced
    <3>2. t # 0
      BY DEF Segments
    <3> QED
      BY <1>1, <3>1, <3>2 DEF Value
  <2> QED
    BY <1>3, <2>3, <2>4
<1>10. p \in Consumers => Shared(s)!Join(p)
  BY <1>3, <1>9 DEF Shared!Join
<1> QED
  BY <1>3, <1>5, <1>6, <1>8, <1>9, <1>10 DEF ArrayInv, Shared!Next
-----------------------------------------------------------------------------
\* A table that differs from another one at one place.
LEMMA OneChanges ==
    ASSUME NEW A, NEW B, NEW F, NEW G, NEW a \in A, NEW b \in B, NEW v,
           F = [c \in A |-> [l \in B |-> F[c][l]]], G = [c \in A |-> [l \in B |-> G[c][l]]],
           \A c \in A, l \in B : G[c][l] = IF c = a /\ l = b THEN v ELSE F[c][l]
    PROVE  G = [F EXCEPT ![a][b] = v]
<1>1. \A c \in A : F[c] = [l \in B |-> F[c][l]] /\ G[c] = [l \in B |-> G[c][l]]
  OBVIOUS
<1>2. G[a] = [F[a] EXCEPT ![b] = v]
  BY <1>1
<1>3. \A c \in A : c # a => G[c] = F[c]
  BY <1>1
<1>4. G = [F EXCEPT ![a] = [F[a] EXCEPT ![b] = v]]
  BY <1>2, <1>3
<1> QED
  BY <1>4

\* Array_consume keeps the invariant, and is Consume of BroadcastArray.
LEMMA ConsumeStep ==
    ASSUME ArrayInv, NEW p \in Procs, Array_consume(p)
    PROVE  /\ ArrayInv'
           /\ \A t \in Segments : Shared(t)!Next \/ UNCHANGED <<Members(t), Slot(t), Value(t)>>
<1> PICK s, k, i : s = handle[p] /\ k = consumer_id[p] /\ i = index[p]
  OBVIOUS
<1>1. /\ ArrayTypeOK /\ RegistrationExact /\ UsersAttached /\ Produced
      /\ pc \in [Procs -> ArraySteps] /\ bitmap \in [Segments -> [Ids -> [Indexes -> {0, 1}]]]
      /\ array \in [Segments -> [Indexes -> Values \cup {NoValue}]]
      /\ value \in [Consumers -> Values \cup {NoValue}]
      /\ i \in Indexes
  BY DEF ArrayInv, ArrayTypeOK
<1>2. /\ pc[p] = "consume" /\ pc' = [pc EXCEPT ![p] = "leave"] /\ bitmap[s][k][i] = 1
      /\ value' = [value EXCEPT ![p] = array[s][i]]
      /\ bitmap' = [bitmap EXCEPT ![s][k][i] = 0]
      /\ UNCHANGED <<array, used_ids, n_consumers, counter, segment, created, removed, handle,
                     consumer_id, index>>
  BY DEF Array_consume, Inside, Dirty, Goto, keyVars
<1>3. p \in Consumers /\ Attached(p) /\ Attached(p)' /\ s \in Segments /\ p \in Members(s)
  BY <1>1, <1>2 DEF UsersAttached, Attached, Members, Users
<1>4. k \in Ids /\ \A c \in Members(s) : consumer_id[c] \in Ids /\ (c # p => consumer_id[c] # k)
  BY <1>1, <1>3, MembersHaveIds DEF RegistrationExact
<1>5. \A t \in Segments, j \in Ids, l \in Indexes :
         bitmap'[t][j][l] = IF t = s /\ j = k /\ l = i THEN 0 ELSE bitmap[t][j][l]
  BY <1>1, <1>2, <1>3, <1>4
<1>6. SameUsers
  BY <1>1, <1>2, <1>3 DEF SameUsers, Attached
<1>7. RegistrationExact' /\ \A t : Users(t)' = Users(t) /\ Members(t)' = Members(t)
  BY <1>1, <1>6, SameUsersExact
<1>8. ArrayTypeOK'
  <2>1. bitmap' \in [Segments -> [Ids -> [Indexes -> {0, 1}]]]
    <3>1. [bitmap[s][k] EXCEPT ![i] = 0] \in [Indexes -> {0, 1}]
      BY <1>1, <1>3, <1>4
    <3>2. [bitmap[s] EXCEPT ![k] = [bitmap[s][k] EXCEPT ![i] = 0]] \in [Ids -> [Indexes -> {0, 1}]]
      BY <1>1, <1>3, <3>1
    <3>3. bitmap' = [bitmap EXCEPT ![s] = [bitmap[s] EXCEPT ![k] = [bitmap[s][k] EXCEPT ![i] = 0]]]
      BY <1>2
    <3> QED
      BY <1>1, <3>2, <3>3
  <2>2. value' \in [Consumers -> Values \cup {NoValue}]
    BY <1>1, <1>2, <1>3
  <2>3. pc' \in [Procs -> ArraySteps]
    BY <1>1, <1>2 DEF ArraySteps, Leaving
  <2> QED
    BY <1>1, <1>2, <2>1, <2>2, <2>3 DEF ArrayTypeOK
<1>9. UsersAttached'
  BY <1>1, <1>2, <1>6 DEF UsersAttached, SameUsers
<1>10. Produced'
  <2>1. handle[p] # 0
    BY <1>3 DEF Segments
  <2> QED
    BY <1>1, <1>2, <1>5, <2>1 DEF Produced
<1>11. \A c \in Consumers : c # p => value'[c] = value[c]
  BY <1>1, <1>2
<1>12. ASSUME NEW t \in Segments, t # s
       PROVE  UNCHANGED <<Members(t), Slot(t), Value(t)>>
  <2>1. ASSUME NEW c \in Consumers, NEW l \in Indexes
        PROVE  c \in Members(t)' /\ bitmap'[t][consumer_id'[c]][l] = 1
                  <=> c \in Members(t) /\ bitmap[t][consumer_id[c]][l] = 1
    BY <1>1, <1>2, <1>5, <1>7, <1>12, MembersHaveIds
  <2>2. Slot(t)' = Slot(t)
    BY <1>2, <2>1, SameSlots
  <2>3. Value(t)' = Value(t)
    BY <1>2, <1>11, <1>12 DEF Value
  <2> QED
    BY <1>7, <2>2, <2>3
<1>13. Shared(s)!Consume(p, i)
  <2>1. Slot(s)[p][i] = array[s][i] /\ array[s][i] \in Values
    BY <1>1, <1>2, <1>3, <1>4 DEF Slot, Produced
  <2>2. Value(s)' = [Value(s) EXCEPT ![p] = Slot(s)[p][i]]
    BY <1>1, <1>2, <1>3, <1>11, <2>1 DEF Value
  <2>3. Slot(s)' = [Slot(s) EXCEPT ![p][i] = NoValue]
    <3>1. ASSUME NEW c \in Consumers, NEW l \in Indexes
          PROVE  Slot(s)'[c][l] = IF c = p /\ l = i THEN NoValue ELSE Slot(s)[c][l]
      <4>1. CASE c \in Members(s)
        <5>1. /\ c \in Members(s)' /\ consumer_id'[c] = consumer_id[c] /\ consumer_id[c] \in Ids
              /\ consumer_id[c] = k <=> c = p
          BY <1>2, <1>4, <1>7, <4>1
        <5>2. bitmap'[s][consumer_id[c]][l] = IF c = p /\ l = i THEN 0 ELSE bitmap[s][consumer_id[c]][l]
          BY <1>3, <1>5, <5>1
        <5> QED
          BY <1>2, <4>1, <5>1, <5>2 DEF Slot
      <4>2. CASE c \notin Members(s)
        <5>1. c # p /\ c \notin Members(s)'
          BY <1>3, <1>7, <4>2
        <5>2. Slot(s)[c][l] = NoValue /\ Slot(s)'[c][l] = NoValue
          BY <4>2, <5>1 DEF Slot
        <5> QED
          BY <5>1, <5>2
      <4> QED
        BY <4>1, <4>2
    <3>2. /\ Slot(s) = [c \in Consumers |-> [l \in Indexes |-> Slot(s)[c][l]]]
          /\ Slot(s)' = [c \in Consumers |-> [l \in Indexes |-> Slot(s)'[c][l]]]
      BY DEF Slot
    <3>3. p \in Consumers /\ i \in Indexes
      BY <1>1, <1>3
    <3> QED
      BY ONLY <3>1, <3>2, <3>3, OneChanges
  <2>4. Slot(s)[p][i] # NoValue
    BY <2>1, ArraySizeAssumption
  <2> QED
    BY <1>3, <1>7, <2>2, <2>3, <2>4 DEF Shared!Consume
<1>14. Shared(s)!Next
  BY <1>1, <1>3, <1>13 DEF Shared!Next
<1> QED
  BY <1>7, <1>8, <1>9, <1>10, <1>12, <1>14 DEF ArrayInv
-----------------------------------------------------------------------------
\* Array_produce keeps the invariant, and is Produce of BroadcastArray: the bits of the IDs in
\* use are those of the members.
LEMMA ProduceStep ==
    ASSUME ArrayInv, NEW p \in Procs, Array_produce(p)
    PROVE  /\ ArrayInv'
           /\ \A t \in Segments : Shared(t)!Next \/ UNCHANGED <<Members(t), Slot(t), Value(t)>>
<1> PICK s, i : s = handle[p] /\ i = index[p]
  OBVIOUS
<1>1. /\ ArrayTypeOK /\ RegistrationExact /\ UsersAttached /\ Produced
      /\ pc \in [Procs -> ArraySteps] /\ bitmap \in [Segments -> [Ids -> [Indexes -> {0, 1}]]]
      /\ array \in [Segments -> [Indexes -> Values \cup {NoValue}]]
      /\ i \in Indexes
  BY DEF ArrayInv, ArrayTypeOK
<1>2. /\ pc[p] = "produce" /\ pc' = [pc EXCEPT ![p] = "leave"]
      /\ \A j \in Ids : used_ids[s][j] # 0 => bitmap[s][j][i] # 1
      /\ bitmap' = [bitmap EXCEPT ![s] = [j \in Ids |->
                      IF used_ids[s][j] # 0 THEN [bitmap[s][j] EXCEPT ![i] = 1] ELSE bitmap[s][j]]]
      /\ UNCHANGED <<used_ids, n_consumers, counter, segment, created, removed, handle,
                     consumer_id, index, value>>
  BY DEF Array_produce, Inside, Clear, isDirty, Goto, keyVars, localVars
<1>3. PICK v \in Values : array' = [array EXCEPT ![s][i] = v]
  BY DEF Array_produce
<1>4. Attached(p) /\ Attached(p)' /\ s \in Segments
  BY <1>1, <1>2 DEF UsersAttached, Attached
<1>5. \A t \in Segments, l \in Indexes : array'[t][l] = IF t = s /\ l = i THEN v ELSE array[t][l]
  BY <1>1, <1>3, <1>4
<1>6. \A t \in Segments, j \in Ids, l \in Indexes :
         bitmap'[t][j][l] = IF t = s /\ used_ids[s][j] # 0 /\ l = i THEN 1 ELSE bitmap[t][j][l]
  <2>1. \A t \in Segments \ {s} : bitmap'[t] = bitmap[t]
    BY <1>1, <1>2, <1>4
  <2>2. \A j \in Ids : bitmap'[s][j] = IF used_ids[s][j] # 0 THEN [bitmap[s][j] EXCEPT ![i] = 1]
                                       ELSE bitmap[s][j]
    BY <1>1, <1>2, <1>4
  <2>3. \A j \in Ids : bitmap[s][j] \in [Indexes -> {0, 1}]
    BY <1>1, <1>4
  <2>4. \A j \in Ids, l \in Indexes :
           bitmap'[s][j][l] = IF used_ids[s][j] # 0 /\ l = i THEN 1 ELSE bitmap[s][j][l]
    BY <2>2, <2>3
  <2> QED
    BY <2>1, <2>4
<1>7. RegistrationExact' /\ \A t : Users(t)' = Users(t) /\ Members(t)' = Members(t)
  <2>1. SameUsers
    BY <1>1, <1>2, <1>4 DEF SameUsers, Attached
  <2> QED
    BY <1>1, <2>1, SameUsersExact
<1>8. ArrayTypeOK'
  <2>1. array' \in [Segments -> [Indexes -> Values \cup {NoValue}]]
    <3>1. [array[s] EXCEPT ![i] = v] \in [Indexes -> Values \cup {NoValue}]
      BY <1>1, <1>4
    <3> QED
      BY <1>1, <1>3, <3>1
  <2>2. bitmap' \in [Segments -> [Ids -> [Indexes -> {0, 1}]]]
    <3>1. \A j \in Ids : bitmap[s][j] \in [Indexes -> {0, 1}]
      BY <1>1, <1>4
    <3>2. \A j \in Ids : [bitmap[s][j] EXCEPT ![i] = 1] \in [Indexes -> {0, 1}]
      BY <3>1
    <3>3. [j \in Ids |-> IF used_ids[s][j] # 0 THEN [bitmap[s][j] EXCEPT ![i] = 1] ELSE bitmap[s][j]]
             \in [Ids -> [Indexes -> {0, 1}]]
      BY <3>1, <3>2
    <3> QED
      BY <1>1, <1>2, <3>3
  <2>3. pc' \in [Procs -> ArraySteps]
    BY <1>1, <1>2 DEF ArraySteps, Leaving
  <2> QED
    BY <1>1, <1>2, <2>1, <2>2, <2>3 DEF ArrayTypeOK
<1>9. UsersAttached'
  BY <1>1, <1>2, <1>4 DEF UsersAttached, Attached
<1>10. Produced'
  BY <1>1, <1>2, <1>5, <1>6 DEF Produced
<1>11. \A t : Value(t)' = Value(t)
  BY <1>2 DEF Value
<1>12. ASSUME NEW t \in Segments, t # s
       PROVE  UNCHANGED <<Members(t), Slot(t), Value(t)>>
  <2>1. ASSUME NEW c \in Consumers, NEW l \in Indexes
        PROVE  c \in Members(t)' /\ bitmap'[t][consumer_id'[c]][l] = 1
                  <=> c \in Members(t) /\ bitmap[t][consumer_id[c]][l] = 1
    BY <1>1, <1>2, <1>6, <1>7, <1>12, MembersHaveIds
  <2>2. \A l \in Indexes : array'[t][l] = array[t][l]
    BY <1>5, <1>12
  <2> QED
    BY <1>7, <1>11, <2>1, <2>2, SameSlots
<1>13. Shared(s)!Produce(i, v)
  <2>1. ASSUME NEW c \in Members(s)
        PROVE  Slot(s)[c][i] = NoValue
    BY <1>1, <1>2, <1>4, MembersHaveIds DEF Slot
  <2>2. ASSUME NEW c \in Consumers, NEW l \in Indexes
        PROVE  Slot(s)'[c][l] = IF c \in Members(s) /\ l = i THEN v ELSE Slot(s)[c][l]
    <3>1. CASE c \in Members(s)
      <4>1. /\ c \in Members(s)' /\ consumer_id'[c] = consumer_id[c] /\ consumer_id[c] \in Ids
            /\ used_ids[s][consumer_id[c]] # 0
        BY <1>1, <1>2, <1>4, <1>7, <3>1, MembersHaveIds
      <4>2. bitmap'[s][consumer_id[c]][l] = IF l = i THEN 1 ELSE bitmap[s][consumer_id[c]][l]
        BY <1>4, <1>6, <4>1
      <4> QED
        BY <1>4, <1>5, <3>1, <4>1, <4>2 DEF Slot
    <3>2. CASE c \notin Members(s)
      <4>1. c \notin Members(s)'
        BY <1>7, <3>2
      <4>2. Slot(s)[c][l] = NoValue /\ Slot(s)'[c][l] = NoValue
        BY <3>2, <4>1 DEF Slot
      <4> QED
        BY <3>2, <4>2
    <3> QED
      BY <3>1, <3>2
  <2>3. Slot(s)' = [c \in Consumers |-> IF c \in Members(s) THEN [Slot(s)[c] EXCEPT ![i] = v]
                                       ELSE Slot(s)[c]]
    <3>1. /\ \A c \in Consumers : Slot(s)[c] = [l \in Indexes |-> Slot(s)[c][l]]
          /\ Slot(s)' = [c \in Consumers |-> [l \in Indexes |-> Slot(s)'[c][l]]]
      BY DEF Slot
    <3>2. ASSUME NEW c \in Consumers
          PROVE  [l \in Indexes |-> Slot(s)'[c][l]]
                    = IF c \in Members(s) THEN [Slot(s)[c] EXCEPT ![i] = v] ELSE Slot(s)[c]
      BY <2>2, <3>1
    <3> QED
      BY ONLY <3>1, <3>2
  <2> QED
    BY <1>7, <1>11, <2>1, <2>3 DEF Shared!Produce
<1>14. Shared(s)!Next
  BY <1>1, <1>13 DEF Shared!Next
<1> QED
  BY <1>7, <1>8, <1>9, <1>10, <1>12, <1>14 DEF ArrayInv
-----------------------------------------------------------------------------
\* Array_remove takes p out of segment s: one user less, and its ID is free.
LEMMA RemoveExact ==
    ASSUME ArrayInv, NEW p \in Procs, Array_remove(p), NEW s, s = handle[p]
    PROVE  /\ RegistrationExact' /\ s \in Segments /\ counter[s] - 1 \in Nat
           /\ p \in Consumers => n_consumers[s] - 1 \in Nat
           /\ \A t \in Segments \ {s} : Members(t)' = Members(t)
           /\ Members(s)' = Members(s) \ {p}
           /\ p \in Consumers => p \in Members(s)
<1>1. /\ ArrayTypeOK /\ RegistrationExact /\ UsersAttached
      /\ pc \in [Procs -> ArraySteps] /\ counter \in [Segments -> Nat]
      /\ used_ids \in [Segments -> [Ids -> {0, 1}]]
      /\ n_consumers \in [Segments -> 0 .. MAX_CONSUMERS]
  BY DEF ArrayInv, ArrayTypeOK
<1>2. /\ pc[p] = "remove" /\ pc' = [pc EXCEPT ![p] = pc'[p]] /\ pc'[p] \in {"leave_last", "leave_first"}
      /\ counter' = [counter EXCEPT ![s] = @ - 1]
      /\ p \in Consumers => Unregister(p, s)
      /\ p \notin Consumers => UNCHANGED <<used_ids, n_consumers>>
      /\ UNCHANGED <<handle, consumer_id>>
  BY <1>1 DEF Array_remove, Inside, Goto, localVars
<1>3. Attached(p) /\ ~ Attached(p)' /\ s \in Segments /\ p \in Users(s)
  BY <1>1, <1>2 DEF UsersAttached, Attached, Users
<1>4. /\ \A t \in Segments \ {s} : Users(t)' = Users(t)
      /\ Users(s)' = Users(s) \ {p}
  BY <1>1, <1>2, <1>3 DEF Users, Attached
<1>5. /\ \A t \in Segments \ {s} : Members(t)' = Members(t)
      /\ Members(s)' = Members(s) \ {p}
      /\ p \in Consumers <=> p \in Members(s)
  BY <1>3, <1>4 DEF Members
<1>6. /\ \A t \in Segments : counter'[t] = Cardinality(Users(t)')
      /\ counter[s] - 1 \in Nat
  <2>1. Cardinality(Users(s) \ {p}) = Cardinality(Users(s)) - 1
    BY <1>3, UsersFinite, FS_RemoveElement
  <2>2. Cardinality(Users(s) \ {p}) \in Nat
    BY UsersFinite, FS_RemoveElement, FS_CardinalityType
  <2>3. counter[s] = Cardinality(Users(s)) /\ counter'[s] = counter[s] - 1
    BY <1>1, <1>2, <1>3 DEF RegistrationExact
  <2>4. \A t \in Segments \ {s} : counter'[t] = Cardinality(Users(t)')
    BY <1>1, <1>2, <1>4 DEF RegistrationExact
  <2> QED
    BY <1>4, <2>1, <2>2, <2>3, <2>4
<1>7. CASE p \notin Consumers
  <2>1. \A t \in Segments : Members(t)' = Members(t)
    BY <1>5, <1>7
  <2> QED
    BY <1>1, <1>2, <1>3, <1>5, <1>6, <1>7, <2>1 DEF RegistrationExact
<1>8. CASE p \in Consumers
  <2> PICK k : k = consumer_id[p]
    OBVIOUS
  <2>1. /\ n_consumers' = [n_consumers EXCEPT ![s] = @ - 1]
        /\ used_ids' = [used_ids EXCEPT ![s][k] = 0]
    BY <1>2, <1>8 DEF Unregister
  <2>2. k \in Ids /\ p \in Members(s)
    BY <1>1, <1>3, <1>5, <1>8, MembersHaveIds
  <2>3. /\ \A t \in Segments : n_consumers'[t] = Cardinality(Members(t)')
        /\ n_consumers[s] - 1 \in Nat
    <3>1. Cardinality(Members(s) \ {p}) = Cardinality(Members(s)) - 1
      BY <2>2, UsersFinite, FS_RemoveElement
    <3>2. Cardinality(Members(s) \ {p}) \in Nat
      BY UsersFinite, FS_RemoveElement, FS_CardinalityType
    <3>3. n_consumers[s] = Cardinality(Members(s)) /\ n_consumers'[s] = n_consumers[s] - 1
      BY <1>1, <1>3, <2>1 DEF RegistrationExact
    <3>4. \A t \in Segments \ {s} : n_consumers'[t] = Cardinality(Members(t)')
      BY <1>1, <1>5, <2>1 DEF RegistrationExact
    <3> QED
      BY <1>5, <3>1, <3>2, <3>3, <3>4
  <2>4. /\ \A t \in Segments \ {s} : used_ids'[t] = used_ids[t]
        /\ \A j \in Ids : used_ids'[s][j] # 0 <=> used_ids[s][j] # 0 /\ j # k
    BY <1>1, <1>3, <2>1, <2>2
  <2>5. ASSUME NEW t \in Segments
        PROVE  /\ {j \in Ids : used_ids'[t][j] # 0} = {consumer_id'[c] : c \in Members(t)'}
               /\ \A c, d \in Members(t)' : consumer_id'[c] = consumer_id'[d] => c = d
    <3>1. /\ {j \in Ids : used_ids[t][j] # 0} = {consumer_id[c] : c \in Members(t)}
          /\ \A c, d \in Members(t) : consumer_id[c] = consumer_id[d] => c = d
      BY <1>1 DEF RegistrationExact
    <3>2. CASE t # s
      BY <1>2, <1>5, <2>4, <3>1, <3>2
    <3>3. CASE t = s
      <4>1. \A c \in Members(s) : consumer_id[c] = k <=> c = p
        BY <2>2, <3>1, <3>3
      <4>2. {consumer_id[c] : c \in Members(s) \ {p}} = {consumer_id[c] : c \in Members(s)} \ {k}
        BY <4>1
      <4>3. {j \in Ids : used_ids'[s][j] # 0} = {j \in Ids : used_ids[s][j] # 0} \ {k}
        BY <2>4
      <4>4. {consumer_id'[c] : c \in Members(s)'} = {consumer_id[c] : c \in Members(s) \ {p}}
        BY <1>2, <1>5
      <4> QED
        BY <1>2, <1>5, <3>1, <3>3, <4>2, <4>3, <4>4
    <3> QED
      BY <3>2, <3>3
  <2> QED
    BY <1>3, <1>5, <1>6, <1>8, <2>2, <2>3, <2>5 DEF RegistrationExact
<1> QED
  BY <1>7, <1>8

\* Array_remove keeps the invariant, and is Leave of BroadcastArray when p is a consumer.
LEMMA RemoveStep ==
    ASSUME ArrayInv, NEW p \in Procs, Array_remove(p)
    PROVE  /\ ArrayInv'
           /\ \A t \in Segments : Shared(t)!Next \/ UNCHANGED <<Members(t), Slot(t), Value(t)>>
<1> PICK s, k : s = handle[p] /\ k = consumer_id[p]
  OBVIOUS
<1>1. /\ ArrayTypeOK /\ RegistrationExact /\ UsersAttached /\ Produced
      /\ pc \in [Procs -> ArraySteps] /\ counter \in [Segments -> Nat]
      /\ used_ids \in [Segments -> [Ids -> {0, 1}]]
      /\ n_consumers \in [Segments -> 0 .. MAX_CONSUMERS]
  BY DEF ArrayInv, ArrayTypeOK
<1>2. /\ pc[p] = "remove" /\ pc' = [pc EXCEPT ![p] = pc'[p]] /\ pc'[p] \in {"leave_last", "leave_first"}
      /\ counter' = [counter EXCEPT ![s] = @ - 1]
      /\ p \in Consumers => /\ used_ids' = [used_ids EXCEPT ![s][k] = 0]
                            /\ n_consumers' = [n_consumers EXCEPT ![s] = @ - 1]
      /\ p \notin Consumers => UNCHANGED <<used_ids, n_consumers>>
      /\ UNCHANGED <<array, bitmap, segment, created, removed, handle, consumer_id, index, value>>
  BY <1>1 DEF Array_remove, Inside, Goto, localVars, keyVars, Unregister
<1>3. /\ RegistrationExact' /\ s \in Segments /\ counter[s] - 1 \in Nat
      /\ p \in Consumers => n_consumers[s] - 1 \in Nat
      /\ \A t \in Segments \ {s} : Members(t)' = Members(t)
      /\ Members(s)' = Members(s) \ {p}
      /\ p \in Consumers => p \in Members(s)
  BY RemoveExact
<1>4. ArrayTypeOK'
  <2>1. counter' \in [Segments -> Nat] /\ pc' \in [Procs -> ArraySteps]
    BY <1>1, <1>2, <1>3 DEF ArraySteps, Leaving
  <2>2. n_consumers' \in [Segments -> 0 .. MAX_CONSUMERS]
    <3>1. CASE p \in Consumers
      <4>1. n_consumers[s] - 1 \in 0 .. MAX_CONSUMERS
        BY <1>1, <1>3, <3>1, ArraySizeAssumption
      <4> QED
        BY <1>1, <1>2, <3>1, <4>1
    <3>2. CASE p \notin Consumers
      BY <1>1, <1>2, <3>2
    <3> QED
      BY <3>1, <3>2
  <2>3. used_ids' \in [Segments -> [Ids -> {0, 1}]]
    <3>1. CASE p \in Consumers
      <4>1. [used_ids[s] EXCEPT ![k] = 0] \in [Ids -> {0, 1}]
        BY <1>1, <1>3
      <4>2. used_ids' = [used_ids EXCEPT ![s] = [used_ids[s] EXCEPT ![k] = 0]]
        BY <1>2, <3>1
      <4> QED
        BY <1>1, <4>1, <4>2
    <3>2. CASE p \notin Consumers
      BY <1>1, <1>2, <3>2
    <3> QED
      BY <3>1, <3>2
  <2> QED
    BY <1>1, <1>2, <2>1, <2>2, <2>3 DEF ArrayTypeOK
<1>5. UsersAttached' /\ Produced'
  BY <1>1, <1>2 DEF UsersAttached, Attached, Produced
<1>6. \A t : Value(t)' = Value(t)
  BY <1>2 DEF Value
<1>7. ASSUME NEW t \in Segments, t # s \/ p \notin Consumers
      PROVE  UNCHANGED <<Members(t), Slot(t), Value(t)>>
  <2>1. Members(t)' = Members(t)
    BY <1>3, <1>7 DEF Members
  <2> QED
    BY <1>2, <1>6, <2>1, SameSlots
<1>8. CASE p \in Consumers
  <2>1. ASSUME NEW c \in Consumers
        PROVE  Slot(s)'[c] = IF c = p THEN [l \in Indexes |-> NoValue] ELSE Slot(s)[c]
    <3>1. c \in Members(s)' <=> c \in Members(s) /\ c # p
      BY <1>3
    <3> QED
      BY <1>2, <3>1 DEF Slot
  <2>2. Slot(s)' = [Slot(s) EXCEPT ![p] = [l \in Indexes |-> NoValue]]
    <3>1. /\ Slot(s) = [c \in Consumers |-> Slot(s)[c]]
          /\ Slot(s)' = [c \in Consumers |-> Slot(s)'[c]]
      BY DEF Slot
    <3> QED
      BY <1>8, <2>1, <3>1
  <2>3. Shared(s)!Leave(p)
    BY <1>3, <1>6, <1>8, <2>2 DEF Shared!Leave
  <2> QED
    BY <1>3, <1>4, <1>5, <1>7, <1>8, <2>3 DEF ArrayInv, Shared!Next
<1> QED
  BY <1>3, <1>4, <1>5, <1>7, <1>8 DEF ArrayInv
-----------------------------------------------------------------------------
\* Every step of the programs keeps the invariant, and is a step of each segment or none of it.
LEMMA ArrayStep ==
    ASSUME ArrayInv, [ArrayNext]_allVars
    PROVE  /\ ArrayInv'
           /\ \A t \in Segments : Shared(t)!Next \/ UNCHANGED <<Members(t), Slot(t), Value(t)>>
<1>1. ASSUME Elsewhere
      PROVE  /\ ArrayInv'
             /\ \A t \in Segments : Shared(t)!Next \/ UNCHANGED <<Members(t), Slot(t), Value(t)>>
  BY <1>1, ElsewhereInv
<1>2. CASE UNCHANGED arrayVars
  <2>1. CASE Procs = {}
    <3>1. Elsewhere
      BY <1>2, <2>1
         DEF Elsewhere, SameUsers, UsersAttached, ArrayInv, ArrayTypeOK, arrayVars, segmentVars,
             keyVars, localVars
    <3> QED
      BY <1>1, <3>1
  <2>2. CASE Procs # {}
    BY <1>1, <1>2, <2>2, StepElsewhere
  <2> QED
    BY <2>1, <2>2
<1>3. CASE ~ UNCHANGED arrayVars
  <2>1. PICK p \in Procs :
           \/ Call_init(p) \/ Call_getLen(p) \/ Call_operation(p) \/ Call_remove(p)
           \/ get_shm_exists(p) \/ Array_init_fails(p) \/ Array_getLen(p) \/ Array_leave(p)
           \/ Array_rm(p)
           \/ Array_init_creates(p) \/ Array_init_attaches(p)
           \/ Array_consume(p) \/ Array_produce(p) \/ Array_remove(p)
    BY <1>3 DEF ArrayNext, Run, Array_wait, allVars
  <2>2. CASE \/ Call_init(p) \/ Call_getLen(p) \/ Call_operation(p) \/ Call_remove(p)
             \/ get_shm_exists(p) \/ Array_init_fails(p) \/ Array_getLen(p) \/ Array_leave(p)
             \/ Array_rm(p)
    BY <1>1, <2>2, StepElsewhere
  <2>3. created \in 0 .. MaxSegments /\ segment \in 0 .. created /\ MaxSegments \in Nat
    BY ArraySizeAssumption DEF ArrayInv, ArrayTypeOK
  <2>4. CASE Array_init_creates(p)
    <3> PICK s : s = created + 1
      OBVIOUS
    <3>1. /\ pc[p] = "init" /\ s \in Segments /\ Join(p, s)
          /\ created' = s /\ segment' = s
      BY <2>3, <2>4 DEF Array_init_creates, Inside, Segments
    <3>2. /\ created' \in 0 .. MaxSegments /\ created <= created' /\ s <= created'
          /\ segment' \in 0 .. created'
      BY <2>3, <3>1 DEF Segments
    <3> QED
      BY <3>1, <3>2, JoinStep
  <2>5. CASE Array_init_attaches(p)
    <3> PICK s : s = segment
      OBVIOUS
    <3>1. /\ pc[p] = "attach" /\ s \in Segments /\ Join(p, s)
          /\ created' = created /\ segment' = s
      BY <2>3, <2>5 DEF Array_init_attaches, Inside, Segments
    <3>2. /\ created' \in 0 .. MaxSegments /\ created <= created' /\ s <= created'
          /\ segment' \in 0 .. created'
      BY <2>3, <3>1
    <3> QED
      BY <3>1, <3>2, JoinStep
  <2> QED
    BY <2>1, <2>2, <2>4, <2>5, ConsumeStep, ProduceStep, RemoveStep
<1> QED
  BY <1>2, <1>3

LEMMA ArrayInvariant == ArraySpec => []ArrayInv
<1>1. ArrayInv /\ [ArrayNext]_allVars => ArrayInv'
  BY ArrayStep
<1> QED
  BY <1>1, ArrayInitInv, PTL DEF ArraySpec

\* The fields of array.c's segments keep to their types: counter and n_consumers never go below
\* 0, and n_consumers never exceeds MAX_CONSUMERS.
THEOREM ArrayTypes == ArraySpec => []ArrayTypeOK
BY ArrayInvariant, PTL DEF ArrayInv

\* The counters and the IDs that Array_init and Array_remove keep are exactly those of the
\* registered users, whoever removes the key and creates another segment in between.
THEOREM RegisteredExactly == ArraySpec => []RegistrationExact
BY ArrayInvariant, PTL DEF ArrayInv

\* A segment that cannot be created has no members.
LEMMA AbsentSegment ==
    ASSUME ArrayTypeOK, NEW s \in Nat \ {0}, s \notin Segments
    PROVE  /\ Members(s) = {}
           /\ Slot(s) = [c \in Consumers |-> [i \in Indexes |-> NoValue]]
           /\ Value(s) = [c \in Consumers |-> NoValue]
<1>1. \A q \in Procs : handle[q] # s
  BY ArraySizeAssumption DEF ArrayTypeOK, Segments
<1>2. Members(s) = {}
  BY <1>1 DEF Members, Users
<1> QED
  BY <1>1, <1>2, ArrayProcsAssumption DEF Slot, Value

\* Segment s begins as an array that nobody uses, and every step is one of BroadcastArray.
LEMMA SegmentImplements ==
    ASSUME NEW s \in Nat \ {0}
    PROVE  /\ ArrayInit => Shared(s)!Init
           /\ ArrayInv /\ [ArrayNext]_allVars =>
                 Shared(s)!Next \/ UNCHANGED <<Members(s), Slot(s), Value(s)>>
<1>1. ASSUME ArrayInit PROVE Shared(s)!Init
  <2>1. Members(s) = {}
    BY <1>1 DEF ArrayInit, Members, Users, Attached
  <2>2. /\ Slot(s) = [c \in Consumers |-> [i \in Indexes |-> NoValue]]
        /\ Value(s) = [c \in Consumers |-> NoValue]
    BY <1>1, <2>1 DEF ArrayInit, Slot, Value
  <2> QED
    BY <2>1, <2>2 DEF Shared!Init
<1>2. ASSUME ArrayInv, [ArrayNext]_allVars, s \notin Segments
      PROVE  UNCHANGED <<Members(s), Slot(s), Value(s)>>
  <2>1. ArrayTypeOK /\ ArrayTypeOK'
    BY <1>2, ArrayStep DEF ArrayInv
  <2>2. /\ Members(s) = {}
        /\ Slot(s) = [c \in Consumers |-> [i \in Indexes |-> NoValue]]
        /\ Value(s) = [c \in Consumers |-> NoValue]
    BY <1>2, <2>1, AbsentSegment
  <2>3. /\ Members(s)' = {}
        /\ Slot(s)' = [c \in Consumers |-> [i \in Indexes |-> NoValue]]
        /\ Value(s)' = [c \in Consumers |-> NoValue]
    <3>1. \A q \in Procs : handle'[q] # s
      BY <1>2, <2>1, ArraySizeAssumption DEF ArrayTypeOK, Segments
    <3>2. Members(s)' = {}
      BY <3>1 DEF Members, Users
    <3> QED
      BY <3>1, <3>2, ArrayProcsAssumption DEF Slot, Value
  <2> QED
    BY <2>2, <2>3
<1> QED
  BY <1>1, <1>2, ArrayStep

\* Each segment is a BroadcastArray: a value that is produced is delivered once to every consumer
\* registered then and to no other, and is not overwritten before.
THEOREM ArrayDelivers == ArraySpec => SegmentsDeliver
<1>1. ArrayInit => First!Init /\ Second!Init
  BY SegmentImplements DEF First!Init, Second!Init, Shared!Init
<1>2. ArrayInv /\ [ArrayNext]_allVars => [First!Next]_(First!vars) /\ [Second!Next]_(Second!vars)
  <2>1. ASSUME ArrayInv, [ArrayNext]_allVars PROVE [First!Next]_(First!vars)
    BY <2>1, SegmentImplements
       DEF First!Next, First!Join, First!Leave, First!Produce, First!Consume, First!vars,
           Shared!Next, Shared!Join, Shared!Leave, Shared!Produce, Shared!Consume
  <2>2. ASSUME ArrayInv, [ArrayNext]_allVars PROVE [Second!Next]_(Second!vars)
    BY <2>2, SegmentImplements
       DEF Second!Next, Second!Join, Second!Leave, Second!Produce, Second!Consume, Second!vars,
           Shared!Next, Shared!Join, Shared!Leave, Shared!Produce, Shared!Consume
  <2> QED
    BY <2>1, <2>2
<1> QED
  BY <1>1, <1>2, ArrayInvariant, PTL
     DEF ArraySpec, SegmentsDeliver, First!Spec, Second!Spec

\* The functions of array.c call the monitor as its own functions ask.
THEOREM ArrayUsesMonitor == ArraySpec => Spec
<1>1. ArrayInit => Init
  BY DEF ArrayInit
<1>2. ASSUME ArrayNext PROVE [Next]_vars
  <2>1. PICK p \in Procs :
           \/ Call_init(p) \/ Call_getLen(p) \/ Call_operation(p) \/ Call_remove(p)
           \/ Run(p)
           \/ Interrupted(p) /\ UNCHANGED arrayVars
    BY <1>2 DEF ArrayNext
  <2>2. CASE \/ Call_init(p) \/ Call_getLen(p) \/ Call_operation(p) \/ Call_remove(p)
             \/ Interrupted(p) /\ UNCHANGED arrayVars
    BY <2>2 DEF Call_init, Call_getLen, Call_operation, Call_remove, Array_call, Next, Step
  <2>3. CASE Run(p)
    <3>1. \/ UNCHANGED vars \/ leave_monitor(p) \/ Continue(p)
          \/ \E c \in Conds : wait_cond(p, c) \/ broadcast_cond(p, c)
      BY <2>3, ArrayCondsAssumption
         DEF Run, get_shm_exists, Array_init_creates, Array_init_attaches, Array_init_fails, Join,
             Array_getLen, Array_wait, Array_consume, Array_produce, Array_remove, Array_leave,
             Array_rm
    <3> QED
      BY <3>1, ArrayCondsAssumption DEF Next, Step, Wait, Broadcast
  <2> QED
    BY <2>1, <2>2, <2>3
<1>3. [ArrayNext]_allVars => [Next]_vars
  <2>1. UNCHANGED allVars => UNCHANGED vars
    BY DEF allVars
  <2> QED
    BY <1>2, <2>1
<1> QED
  BY <1>1, <1>3, PTL DEF ArraySpec, Spec

\* No two processes are inside the functions of array.c at once, on whichever segments: what a
\* process does between two calls of the monitor is one step for the others.
THEOREM ArrayExcludes == ArraySpec => []MutualExclusion
BY ArrayUsesMonitor, MonitorExcludes, PTL
=============================================================================
