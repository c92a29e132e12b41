---------------------------- MODULE SystemVProofs ----------------------------
(***************************************************************************)
(* The programs that use the semaphores and the message queues of System V *)
(* without the monitor and each in its own way: the dining philosophers,   *)
(* for any number above one; the producer and the consumer of one          *)
(* variable, for any number of programs, starts and kills; and synchronous *)
(* messages, for any number of senders and receivers.                      *)
(***************************************************************************)
EXTENDS Philosophers, ProdConsVar, SyncMsg, FiniteSetTheorems, TLAPS

(***************************************************************************)
(* The sticks of dining_philosophers.c are never shared and somebody can   *)
(* always go on: with an odd number of philosophers too, although two      *)
(* neighbours then take their sticks in the same order.                    *)
(***************************************************************************)
\* The chairs are those that nobody sits on: what JoinTable and LeaveTable keep.
Seated == {p \in Phils : pc[p] \in {"first", "second", "eat", "put_right", "leave"}}
ChairsCounted == sem[Chairs] = N - Cardinality(Seated)

IInv == TypeOK /\ StickInOneHand /\ ChairsCounted

\* Left and right are the two sticks of a philosopher, and differ.
LEMMA Sides ==
    ASSUME NEW p \in Phils
    PROVE  /\ Right(p) \in Phils /\ Right(p) # p
           /\ First(p) \in Phils /\ Second(p) \in Phils /\ First(p) # Second(p)
           /\ {First(p), Second(p)} = {p, Right(p)}
           /\ p # Chairs /\ First(p) # Chairs /\ Second(p) # Chairs /\ Right(p) # Chairs
<1>1. Right(p) \in Phils /\ Right(p) # p /\ p # Chairs
  BY NAssumption DEF Right, Phils, Chairs
<1>2. Right(p) # Chairs
  BY <1>1, NAssumption DEF Phils, Chairs
<1> QED
  BY <1>1, <1>2 DEF First, Second

\* The chairs and the sticks are the semaphores.
LEMMA Indices == Phils \subseteq Sems /\ Chairs \in Sems /\ Chairs \notin Phils
BY NAssumption DEF Phils, Sems, Chairs

\* Nobody is seated at first.
LEMMA InitIInv == Init => IInv
<1> SUFFICES ASSUME Init PROVE IInv
  OBVIOUS
<1>1. TypeOK
  BY NAssumption DEF Init, TypeOK, Steps, Sems
<1>2. StickInOneHand
  BY Indices DEF Init, StickInOneHand, Holds
<1>3. ChairsCounted
  <2>1. Seated = {}
    BY DEF Init, Seated
  <2>2. sem[Chairs] = N
    BY Indices, NAssumption DEF Init
  <2> QED
    BY <2>1, <2>2, FS_EmptySet, NAssumption DEF ChairsCounted
<1> QED
  BY <1>1, <1>2, <1>3 DEF IInv

\* Who is seated stays countable.
LEMMA SeatedFinite == IsFiniteSet(Seated) /\ Cardinality(Seated) \in Nat
<1>1. IsFiniteSet(Phils)
  BY FS_Interval, NAssumption DEF Phils
<1>2. Seated \in SUBSET Phils
  BY DEF Seated
<1> QED
  BY <1>1, <1>2, FS_Subset, FS_CardinalityType

\* A step of p that takes a stick that it does not hold.
LEMMA TakesStick ==
    ASSUME IInv, NEW p \in Phils, NEW s \in Phils, NEW from \in Steps, NEW to \in Steps,
           Take(p, s, from, to),
           from \in {"first", "second"}, to \in {"second", "eat"},
           from = "first" => to = "second" /\ s = First(p),
           from = "second" => to = "eat" /\ s = Second(p)
    PROVE  IInv'
<1> USE DEF IInv
<1>1. TypeOK'
  BY Indices DEF Take, TypeOK, Steps
<1>2. \A q \in Phils, t \in Phils : Holds(q, t)' <=> (Holds(q, t) \/ (q = p /\ t = s))
  <2> SUFFICES ASSUME NEW q \in Phils, NEW t \in Phils
               PROVE  Holds(q, t)' <=> (Holds(q, t) \/ (q = p /\ t = s))
    OBVIOUS
  <2>1. CASE q # p
    BY <2>1 DEF Take, Holds, TypeOK
  <2>2. CASE q = p
    <3>1. pc[p] = from /\ pc'[p] = to
      BY DEF Take, TypeOK
    <3> QED
      BY <2>2, <3>1, Sides DEF Holds
  <2> QED
    BY <2>1, <2>2
<1>3. \A q \in Phils : ~ Holds(q, s)
  BY DEF Take, StickInOneHand
<1>4. sem[s] = 1 /\ sem'[s] = 0 /\ \A t \in Phils \ {s} : sem'[t] = sem[t]
  <2>1. sem[s] = 1
    BY <1>3 DEF StickInOneHand
  <2> QED
    BY <2>1, Indices DEF Take, TypeOK
<1>5. StickInOneHand'
  BY <1>2, <1>3, <1>4 DEF StickInOneHand
<1>6. ChairsCounted'
  <2>1. Seated' = Seated
    BY DEF Take, Seated, TypeOK
  <2>2. sem'[Chairs] = sem[Chairs]
    BY Indices DEF Take, TypeOK
  <2> QED
    BY <2>1, <2>2 DEF ChairsCounted
<1> QED
  BY <1>1, <1>5, <1>6

\* A step of p that puts a stick that it holds.
LEMMA PutsStick ==
    ASSUME IInv, NEW p \in Phils, NEW s \in Phils, NEW from \in Steps, NEW to \in Steps,
           Put(p, s, from, to),
           from \in {"eat", "put_right"},
           from = "eat" => to = "put_right" /\ s = p,
           from = "put_right" => to = "leave" /\ s = Right(p)
    PROVE  IInv'
<1> USE DEF IInv
<1>1. TypeOK'
  BY Indices DEF Put, TypeOK, Steps
<1>2. \A q \in Phils, t \in Phils : Holds(q, t)' <=> (Holds(q, t) /\ ~ (q = p /\ t = s))
  <2> SUFFICES ASSUME NEW q \in Phils, NEW t \in Phils
               PROVE  Holds(q, t)' <=> (Holds(q, t) /\ ~ (q = p /\ t = s))
    OBVIOUS
  <2>1. CASE q # p
    BY <2>1 DEF Put, Holds, TypeOK
  <2>2. CASE q = p
    <3>1. pc[p] = from /\ pc'[p] = to
      BY DEF Put, TypeOK
    <3> QED
      BY <2>2, <3>1, Sides DEF Holds
  <2> QED
    BY <2>1, <2>2
<1>3. Holds(p, s)
  BY DEF Put, Holds
<1>4. sem[s] = 0 /\ sem'[s] = 1 /\ \A t \in Phils \ {s} : sem'[t] = sem[t]
  <2>1. sem[s] = 0
    BY <1>3 DEF StickInOneHand
  <2> QED
    BY <2>1, Indices DEF Put, TypeOK
<1>5. StickInOneHand'
  BY <1>2, <1>3, <1>4 DEF StickInOneHand
<1>6. ChairsCounted'
  <2>1. Seated' = Seated
    BY DEF Put, Seated, TypeOK
  <2>2. sem'[Chairs] = sem[Chairs]
    BY Indices DEF Put, TypeOK
  <2> QED
    BY <2>1, <2>2 DEF ChairsCounted
<1> QED
  BY <1>1, <1>5, <1>6

\* p sits down, or gets up.
LEMMA ChangesSeat ==
    ASSUME IInv, NEW p \in Phils, JoinTable(p) \/ LeaveTable(p)
    PROVE  IInv'
<1> USE DEF IInv
<1>1. TypeOK'
  BY Indices DEF JoinTable, LeaveTable, Take, Put, TypeOK, Steps
<1>2. StickInOneHand'
  <2>1. \A q \in Phils, t \in Phils : Holds(q, t)' <=> Holds(q, t)
    BY DEF JoinTable, LeaveTable, Take, Put, Holds, TypeOK
  <2>2. \A t \in Phils : sem'[t] = sem[t]
    BY Indices DEF JoinTable, LeaveTable, Take, Put, TypeOK
  <2> QED
    BY <2>1, <2>2 DEF StickInOneHand
<1>3. ChairsCounted'
  <2>1. CASE JoinTable(p)
    <3>1. Seated' = Seated \cup {p} /\ p \notin Seated
      BY <2>1 DEF JoinTable, Take, Seated, TypeOK
    <3>2. sem'[Chairs] = sem[Chairs] - 1
      BY <2>1, Indices DEF JoinTable, Take, TypeOK
    <3>3. Cardinality(Seated') = Cardinality(Seated) + 1 /\ Cardinality(Seated) \in Nat
      BY <3>1, SeatedFinite, FS_AddElement
    <3> QED
      BY <3>2, <3>3, NAssumption DEF ChairsCounted
  <2>2. CASE LeaveTable(p)
    <3>1. Seated' = Seated \ {p} /\ p \in Seated
      BY <2>2 DEF LeaveTable, Put, Seated, TypeOK
    <3>2. sem'[Chairs] = sem[Chairs] + 1
      BY <2>2, Indices DEF LeaveTable, Put, TypeOK
    <3>3. Cardinality(Seated') = Cardinality(Seated) - 1 /\ Cardinality(Seated) \in Nat
      BY <3>1, SeatedFinite, FS_RemoveElement
    <3> QED
      BY <3>2, <3>3, NAssumption DEF ChairsCounted
  <2> QED
    BY <2>1, <2>2
<1> QED
  BY <1>1, <1>2, <1>3

\* Every step keeps the invariant.
LEMMA NextIInv == IInv /\ [Next]_vars => IInv'
<1> SUFFICES ASSUME IInv, [Next]_vars PROVE IInv'
  OBVIOUS
<1>1. ASSUME NEW p \in Phils, JoinTable(p) \/ LeaveTable(p) PROVE IInv'
  BY <1>1, ChangesSeat
<1>2. ASSUME NEW p \in Phils, TakeFirst(p) PROVE IInv'
  BY <1>2, TakesStick, Sides DEF TakeFirst, Steps
<1>3. ASSUME NEW p \in Phils, TakeSecond(p) PROVE IInv'
  BY <1>3, TakesStick, Sides DEF TakeSecond, Steps
<1>4. ASSUME NEW p \in Phils, PutLeft(p) PROVE IInv'
  BY <1>4, PutsStick DEF PutLeft, Steps
<1>5. ASSUME NEW p \in Phils, PutRight(p) PROVE IInv'
  BY <1>5, PutsStick, Sides DEF PutRight, Steps
<1>6. CASE End \/ UNCHANGED vars
  BY <1>6 DEF End, vars, IInv, TypeOK, StickInOneHand, Holds, ChairsCounted, Seated
<1> QED
  BY <1>1, <1>2, <1>3, <1>4, <1>5, <1>6 DEF Next, philosopher, Terminated

\* The invariant holds in every reachable state.
LEMMA Invariance == Spec => []IInv
BY InitIInv, NextIInv, PTL DEF Spec

\* The types of the semaphores and of the steps: no semaphore becomes negative.
THEOREM DinnerTypes == Spec => []TypeOK
<1>1. IInv => TypeOK
  BY DEF IInv
<1> QED
  BY <1>1, Invariance, PTL

\* A stick is in one hand at most, and on the table exactly when in none.
THEOREM SticksAreNotShared == Spec => []StickInOneHand
<1>1. IInv => StickInOneHand
  BY DEF IInv
<1> QED
  BY <1>1, Invariance, PTL

\* Neighbours do not eat at once: both would hold the stick between them.
THEOREM NeighboursDoNotEat == Spec => []NeighboursExclude
<1>1. IInv => NeighboursExclude
  <2> SUFFICES ASSUME IInv, NEW p \in Phils, pc[p] = "eat", pc[Right(p)] = "eat" PROVE FALSE
    BY DEF NeighboursExclude
  <2>1. Right(p) \in Phils /\ Right(p) # p
    BY Sides
  <2>2. Holds(p, Right(p)) /\ Holds(Right(p), Right(p))
    BY DEF Holds
  <2> QED
    BY <2>1, <2>2 DEF IInv, StickInOneHand
<1> QED
  BY <1>1, Invariance, PTL

\* Of three neighbours, the one in the middle and another have different parity, but for the
\* first and the last of an odd number.
LEMMA Parity ==
    ASSUME NEW p \in Phils
    PROVE  /\ LeftFirst(p) => ~ LeftFirst(Right(p))
           /\ ~ LeftFirst(p) /\ p # N - 1 => LeftFirst(Right(p))
BY NAssumption DEF LeftFirst, Right, Phils

\* Whoever cannot take a stick is kept waiting by somebody who holds it.
LEMMA SomebodyHolds ==
    ASSUME IInv, NEW s \in Phils, ~ (sem[s] > 0)
    PROVE  \E q \in Phils : Holds(q, s)
BY DEF IInv, StickInOneHand

\* Two neighbours want the same stick second only if they are the last and the first: a chain of
\* philosophers that hold one stick and want the next ends there.
LEMMA SecondIsTaken ==
    ASSUME IInv, \A q \in Phils : pc[q] \notin {"eat", "put_right"},
           NEW p \in Phils, pc[p] = "second", ~ (sem[Second(p)] > 0)
    PROVE  ~ LeftFirst(p) /\ p = 0 /\ ~ LeftFirst(N - 1) /\ pc[N - 1] = "second"
<1>1. PICK q \in Phils : pc[q] = "second" /\ First(q) = Second(p)
  BY SomebodyHolds, Sides DEF Holds
<1>2. ~ LeftFirst(p)
  <2> SUFFICES ASSUME LeftFirst(p) PROVE FALSE
    OBVIOUS
  <2>1. First(q) = Right(p)
    BY <1>1 DEF Second
  <2>2. ~ LeftFirst(Right(p)) /\ Right(p) \in Phils
    BY Parity, Sides
  <2>3. ~ LeftFirst(q) /\ Right(q) = Right(p)
    BY <2>1, <2>2 DEF First
  <2>4. q = p
    BY <2>3, NAssumption DEF Right, Phils
  <2> QED
    BY <2>3, <2>4
<1>3. First(q) = p
  BY <1>1, <1>2 DEF Second
<1>4. ~ LeftFirst(q) /\ Right(q) = p
  BY <1>2, <1>3 DEF First
<1>5. q = N - 1
  BY <1>2, <1>4, Parity
<1> QED
  BY <1>1, <1>2, <1>4, <1>5 DEF Right

\* Whatever they hold and wait for, somebody can go on: there is no deadlock.
THEOREM NoDeadlock == Spec => []SomebodyCanGoOn
<1>1. IInv => SomebodyCanGoOn
  <2> SUFFICES ASSUME IInv, ~ SomebodyCanGoOn PROVE FALSE
    OBVIOUS
  <2>1. \A p \in Phils : /\ pc[p] = "first" => ~ (sem[First(p)] > 0)
                         /\ pc[p] = "second" => ~ (sem[Second(p)] > 0)
                         /\ pc[p] \notin {"eat", "put_right", "leave"}
    BY DEF SomebodyCanGoOn
  <2>2. PICK p \in Phils : pc[p] # "done"
    BY DEF SomebodyCanGoOn
  <2>3. \A q \in Phils : pc[q] # "join"
    <3> SUFFICES ASSUME NEW q \in Phils, pc[q] = "join" PROVE FALSE
      OBVIOUS
    <3>1. Seated \in SUBSET Phils /\ Seated # Phils
      BY DEF Seated
    <3>2. IsFiniteSet(Phils) /\ Cardinality(Phils) = N
      BY FS_Interval, NAssumption DEF Phils
    <3>3. Cardinality(Seated) < N
      BY <3>1, <3>2, FS_Subset, SeatedFinite, NAssumption
    <3>4. sem[Chairs] > 0
      BY <3>3, SeatedFinite, NAssumption DEF IInv, ChairsCounted
    <3> QED
      BY <3>4 DEF SomebodyCanGoOn
  <2>4. \A q \in Phils : pc[q] \in {"first", "second", "done"}
    BY <2>1, <2>3 DEF IInv, TypeOK, Steps
  <2>5. PICK q \in Phils : pc[q] = "second"
    <3>1. CASE pc[p] = "second"
      BY <3>1
    <3>2. CASE pc[p] = "first"
      <4>1. PICK r \in Phils : Holds(r, First(p))
        BY <2>1, <3>2, SomebodyHolds, Sides
      <4> QED
        BY <2>1, <4>1 DEF Holds
    <3> QED
      BY <2>2, <2>4, <3>1, <3>2
  <2>6. pc[N - 1] = "second" /\ N - 1 \in Phils
    BY <2>1, <2>5, SecondIsTaken, NAssumption DEF Phils
  <2>7. N - 1 = 0
    BY <2>1, <2>6, SecondIsTaken
  <2> QED
    BY <2>7, NAssumption
<1> QED
  BY <1>1, Invariance, PTL
-----------------------------------------------------------------------------
(***************************************************************************)
(* The right to the variable of main_prod.c and main_cons.c is one token   *)
(* of the three objects that a program works with.  Programs share all of  *)
(* their objects or none (~ Mixed), so that each triple has its own token; *)
(* it is made by the SETALL of notfull and moved by the semops.            *)
(***************************************************************************)
VarSteps ==
    {"create", "get", "setall", "attach", "read", "wait", "access", "signal", "remove", "off"}

\* The types of the variables, but those of starts and triples.
VarTypeOK ==
    /\ created \in [Keys -> Nat]
    /\ named \in [Keys -> Nat] /\ \A k \in Keys : named[k] <= created[k]
    /\ val \in [SemKeys -> Nat]
    /\ program \in [Procs -> {"prod", "cons"}]
    /\ ids \in [Procs -> [Keys -> Nat]] /\ \A p \in Procs, k \in Keys : ids[p][k] <= created[k]
    /\ todo \in [Procs -> VarSteps \X Keys]
    /\ kills \in Nat
    /\ late \in BOOLEAN

\* The semaphore that a program waits for, and the one that it signals.
waits(p) == IF program[p] = "prod" THEN "notfull" ELSE "notempty"
signals(p) == IF program[p] = "prod" THEN "notempty" ELSE "notfull"

\* What program p has when it makes a call.
Has(p) ==
    /\ At(p, "setall") => key(p) \in SemKeys /\ ids[p][key(p)] # 0
    /\ At(p, "attach") => key(p) = "shared" /\ ids[p]["shared"] # 0
    /\ At(p, "wait") => key(p) = waits(p)
    /\ At(p, "signal") => key(p) = signals(p)
    /\ todo[p][1] \in {"create", "get", "setall", "attach"} =>
          /\ key(p) # "notfull" => ids[p]["notfull"] # 0
          /\ key(p) = "shared" => ids[p]["notempty"] # 0
    /\ todo[p][1] \in {"read", "wait", "access", "signal"} => ids[p] \in triples

Equipped == \A p \in Procs : Has(p)

\* The objects that programs have worked with, and their segments.
Recorded ==
    /\ \A t \in triples : t \in [Keys -> Nat] /\ \A k \in Keys : t[k] # 0 /\ t[k] <= created[k]
    /\ \A s \in fresh : \E t \in triples : t["shared"] = s

\* A set is initialised by the program that has created it.
OneCreator ==
    \A p, q \in Procs :
        At(p, "setall") /\ At(q, "setall") /\ key(p) = key(q) /\ ids[p][key(p)] = ids[q][key(q)]
        => p = q

\* The program that has created the set of k has still to make SETALL; the programs between
\* their wait and their signal on the objects t.
Pending(k) == \E p \in Procs : At(p, "setall") /\ key(p) = k /\ Alive(p, k)
Working(t) == {p \in Procs : ids[p] = t /\ todo[p][1] \in {"access", "signal"}}

\* A set that no program has worked with is as its creation or its initialisation has left it;
\* only a kill in between leaves it 0 for good.
Unused ==
    \A k \in SemKeys :
        named[k] # 0 /\ (\A t \in triples : t[k] # named[k]) =>
            /\ val[k] = 0 \/ (val[k] = initsem[k] /\ ~ Pending(k))
            /\ kills = 0 => Pending(k) \/ val[k] = initsem[k]

\* A program with the objects t gets past its wait on k.
Ready(t, k) == t[k] = named[k] /\ val[k] > 0

\* The right to the variable of t is in at most one place: with a program, in notfull or in
\* notempty, and not yet anywhere while notfull is not initialised. Where it is says whether the
\* value is fresh. It is lost only with a program that is killed or a set that is removed.
OneToken(t) ==
    /\ \A p, q \in Working(t) : p = q
    /\ \A k \in SemKeys : Ready(t, k) => val[k] = 1 /\ Working(t) = {}
    /\ ~ (Ready(t, "notfull") /\ Ready(t, "notempty"))
    /\ t["notfull"] = named["notfull"] /\ Pending("notfull") =>
          /\ val["notfull"] = 0 /\ Working(t) = {} /\ ~ Ready(t, "notempty")
          /\ t["shared"] \notin fresh
    /\ Ready(t, "notfull") => t["shared"] \notin fresh
    /\ Ready(t, "notempty") => t["shared"] \in fresh
    /\ \A p \in Working(t) :
          (t["shared"] \in fresh) = (At(p, "access") <=> program[p] = "cons")
    /\ kills = 0 /\ (\A k \in SemKeys : t[k] = named[k]) /\ ~ Pending("notfull") =>
          Ready(t, "notfull") \/ Ready(t, "notempty") \/ Working(t) # {}

Tokens == ~ late /\ ~ Mixed => \A t \in triples : OneToken(t)

\* exit_procedure of p is past the object of k.
Removed(p, k) ==
    \/ At(p, "off")
    \/ At(p, "remove") /\ key(p) = "notempty" /\ k # "notempty"
    \/ At(p, "remove") /\ key(p) = "notfull" /\ k = "shared"

\* Every object that a key names is known to a program that has still to remove it.
Owned ==
    kills = 0 => \A k \in Keys :
        named[k] # 0 => \E p \in Procs : ids[p][k] = named[k] /\ ~ Removed(p, k)

VarInv ==
    VarTypeOK /\ Equipped /\ Recorded /\ OneCreator /\ Unused /\ Tokens /\ Owned

\* The step of p leaves the others where they are.
LEMMA Frame ==
    ASSUME VarTypeOK, NEW p \in Procs, Start(p) \/ Run(p) \/ Kill(p)
    PROVE  \A q \in Procs \ {p} :
               todo'[q] = todo[q] /\ ids'[q] = ids[q] /\ program'[q] = program[q]
BY DEF VarTypeOK, Start, Run, Kill, create, get, setall, attach, read, wait_sem, access, signal_sem,
       exit_procedure, To, Got, Exit

\* Ids are those of objects that have been created.
LEMMA VarTypeStep ==
    ASSUME VarTypeOK, Equipped, NEW p \in Procs, Start(p) \/ Run(p) \/ Kill(p)
    PROVE  VarTypeOK'
<1> USE DEF VarTypeOK, Keys, SemKeys, VarSteps, To, At, key, Alive, Exit
<1>0. todo[p] = <<todo[p][1], todo[p][2]>> /\ todo[p][1] \in VarSteps /\ todo[p][2] \in Keys
  OBVIOUS
<1>20. ASSUME NEW k \in Keys, NEW n \in 0 .. created[k], ids' = [ids EXCEPT ![p][k] = n],
              created' = created
       PROVE  /\ ids' \in [Procs -> [Keys -> Nat]]
              /\ \A q \in Procs, l \in Keys : ids'[q][l] <= created'[l]
  <2>1. ids[p] \in [Keys -> Nat] /\ n \in Nat
    OBVIOUS
  <2>2. ids'[p] = [ids[p] EXCEPT ![k] = n] /\ \A q \in Procs \ {p} : ids'[q] = ids[q]
    BY <1>20
  <2> QED
    BY <1>20, <2>1, <2>2
<1>1. CASE Start(p)
  BY <1>1 DEF Start
<1>2. CASE create(p)
  <2>1. CASE named[key(p)] # 0
    BY <1>0, <1>2, <2>1 DEF create
  <2>2. CASE named[key(p)] = 0
    <3> DEFINE k == todo[p][2]
    <3>1. /\ created' = [created EXCEPT ![k] = @ + 1]
          /\ named' = [named EXCEPT ![k] = created[k] + 1]
          /\ ids' = [ids EXCEPT ![p][k] = created[k] + 1]
          /\ k \in Keys
      BY <1>0, <1>2, <2>2 DEF create
    <3>2. /\ created' \in [Keys -> Nat] /\ named' \in [Keys -> Nat]
          /\ ids' \in [Procs -> [Keys -> Nat]]
          /\ \A l \in Keys : created[l] <= created'[l] /\ named'[l] <= created'[l]
      BY <3>1
    <3>3. \A q \in Procs, l \in Keys : ids'[q][l] <= created'[l]
      BY <3>1, <3>2
    <3>4. /\ val' \in [SemKeys -> Nat]
          /\ todo' \in [Procs -> VarSteps \X Keys]
          /\ UNCHANGED <<program, kills, late>>
      BY <1>0, <1>2, <2>2 DEF create
    <3> QED
      BY <3>2, <3>3, <3>4
  <2> QED
    BY <2>1, <2>2
<1>3. CASE get(p)
  <2>1. CASE named[key(p)] = 0
    BY <1>0, <1>3, <2>1 DEF get
  <2>2. CASE named[key(p)] # 0
    <3>1. ids' = [ids EXCEPT ![p][key(p)] = named[key(p)]] /\ UNCHANGED created
      BY <1>3, <2>2 DEF get
    <3>2. /\ ids' \in [Procs -> [Keys -> Nat]]
          /\ \A q \in Procs, l \in Keys : ids'[q][l] <= created'[l]
      BY <1>0, <1>20, <3>1
    <3>3. todo' \in [Procs -> VarSteps \X Keys]
      BY <1>3, <2>2 DEF get, Got
    <3> QED
      BY <1>3, <3>2, <3>3 DEF get
  <2> QED
    BY <2>1, <2>2
<1>4. CASE setall(p)
  <2>1. /\ val' \in [SemKeys -> Nat]
        /\ UNCHANGED <<named, created, program, kills>>
    BY <1>0, <1>4 DEF setall, initsem
  <2>2. late' \in BOOLEAN
    <3>1. late' = (late \/ val[key(p)] # 0) \/ late' = late
      BY <1>4 DEF setall
    <3> QED
      BY <3>1
  <2>4. UNCHANGED ids \/ ids' = [ids EXCEPT ![p][todo[p][2]] = 0]
    BY <1>0, <1>4 DEF setall
  <2>5. /\ ids' \in [Procs -> [Keys -> Nat]]
        /\ \A q \in Procs, k \in Keys : ids'[q][k] <= created'[k]
    <3>1. 0 \in 0 .. created[todo[p][2]]
      BY <1>0
    <3> QED
      BY <1>0, <1>20, <2>1, <2>4, <3>1
  <2>3. todo' \in [Procs -> VarSteps \X Keys]
    BY <1>0, <1>4 DEF setall, Got
  <2> QED
    BY <2>1, <2>2, <2>3, <2>5
<1>5. CASE attach(p)
  <2>0. PICK k \in Keys : UNCHANGED ids \/ ids' = [ids EXCEPT ![p][k] = 0]
    BY <1>5 DEF attach
  <2>1. /\ ids' \in [Procs -> [Keys -> Nat]]
        /\ \A q \in Procs, l \in Keys : ids'[q][l] <= created'[l]
    <3>1. 0 \in 0 .. created[k] /\ created' = created
      BY <1>5 DEF attach
    <3> QED
      BY <1>20, <2>0, <3>1
  <2>2. todo' \in [Procs -> VarSteps \X Keys]
    BY <1>0, <1>5 DEF attach
  <2> QED
    BY <1>5, <2>1, <2>2 DEF attach
<1>6. CASE read(p)
  BY <1>6 DEF read
<1>7. CASE wait_sem(p)
  BY <1>0, <1>7 DEF wait_sem, Equipped, Has, waits
<1>8. CASE access(p)
  BY <1>8 DEF access
<1>9. CASE signal_sem(p)
  <2>1. key(p) \in SemKeys
    BY <1>9 DEF signal_sem, Equipped, Has, signals
  <2>2. val' \in [SemKeys -> Nat]
    BY <1>9, <2>1 DEF signal_sem
  <2> QED
    BY <1>9, <2>2 DEF signal_sem
<1>10. CASE exit_procedure(p)
  BY <1>0, <1>10 DEF exit_procedure, NoIds
<1>11. CASE Kill(p)
  BY <1>11 DEF Kill, NoIds
<1> QED
  BY <1>1, <1>2, <1>3, <1>4, <1>5, <1>6, <1>7, <1>8, <1>9, <1>10, <1>11 DEF Run

\* main goes from one object to the next only with a result.
LEMMA EquippedStep ==
    ASSUME VarTypeOK, Equipped, NEW p \in Procs, Start(p) \/ Run(p) \/ Kill(p)
    PROVE  Equipped'
<1>0. /\ todo[p] = <<todo[p][1], todo[p][2]>> /\ todo[p][1] \in VarSteps /\ todo[p][2] \in Keys
      /\ Has(p)
  BY DEF VarTypeOK, Equipped
<1>20. \A q \in Procs \ {p} : Has(q)'
  <2>1. triples \subseteq triples'
    BY DEF Start, Run, Kill, create, get, setall, attach, read, wait_sem, access, signal_sem,
       exit_procedure
  <2> QED
    BY <2>1, Frame DEF Equipped, Has, At, key, waits, signals
<1> USE DEF To, At, key, Keys, SemKeys, Exit
<1>21. Has(p)'
  <2>1. CASE Start(p)
    BY <2>1 DEF Start, Has, VarTypeOK
  <2>2. CASE create(p)
    <3>1. CASE named[key(p)] # 0
      BY <1>0, <2>2, <3>1 DEF create, Has, VarTypeOK
    <3>2. CASE named[key(p)] = 0
      BY <1>0, <2>2, <3>2 DEF create, Has, VarTypeOK
    <3> QED
      BY <3>1, <3>2
  <2>3. CASE get(p)
    BY <1>0, <2>3 DEF get, Got, Has, VarTypeOK
  <2>4. CASE setall(p)
    BY <1>0, <2>4 DEF setall, Got, Has, VarTypeOK
  <2>5. CASE attach(p)
    BY <1>0, <2>5 DEF attach, Has, VarTypeOK
  <2>6. CASE read(p)
    BY <1>0, <2>6 DEF read, Has, VarTypeOK, waits
  <2>7. CASE wait_sem(p)
    BY <1>0, <2>7 DEF wait_sem, Has, VarTypeOK
  <2>8. CASE access(p)
    BY <1>0, <2>8 DEF access, Has, VarTypeOK, signals
  <2>9. CASE signal_sem(p)
    BY <1>0, <2>9 DEF signal_sem, Has, VarTypeOK
  <2>10. CASE exit_procedure(p)
    BY <1>0, <2>10 DEF exit_procedure, Has, VarTypeOK
  <2>11. CASE Kill(p)
    BY <2>11 DEF Kill, Has, VarTypeOK
  <2> QED
    BY <2>1, <2>2, <2>3, <2>4, <2>5, <2>6, <2>7, <2>8, <2>9, <2>10, <2>11 DEF Run
<1> QED
  BY <1>20, <1>21 DEF Equipped

\* A program records its objects when it has all three.
LEMMA RecordedStep ==
    ASSUME VarTypeOK, Equipped, Recorded, NEW p \in Procs, Start(p) \/ Run(p) \/ Kill(p)
    PROVE  Recorded'
<1>1. \A k \in Keys : created[k] <= created'[k]
  BY DEF VarTypeOK, Start, Run, Kill, create, get, setall, attach, read, wait_sem, access,
         signal_sem, exit_procedure, key
<1>2. triples' \subseteq triples \cup {ids[p]} /\ triples \subseteq triples'
  BY DEF Start, Run, Kill, create, get, setall, attach, read, wait_sem, access, signal_sem,
         exit_procedure
<1>3. fresh' \subseteq fresh \cup {ids[p]["shared"]} /\ (fresh' # fresh => access(p))
  BY DEF Start, Run, Kill, create, get, setall, attach, read, wait_sem, access, signal_sem,
         exit_procedure
<1>4. ids[p] \in triples' /\ ids[p] \notin triples => attach(p)
  BY DEF Start, Run, Kill, create, get, setall, attach, read, wait_sem, access, signal_sem,
         exit_procedure
<1>5. \A t \in triples' : t \in [Keys -> Nat] /\ \A k \in Keys : t[k] # 0 /\ t[k] <= created'[k]
  <2> SUFFICES ASSUME NEW t \in triples'
               PROVE  t \in [Keys -> Nat] /\ \A k \in Keys : t[k] # 0 /\ t[k] <= created'[k]
    OBVIOUS
  <2>0. \A k \in Keys : created'[k] \in Nat /\ created[k] \in Nat
    BY VarTypeStep DEF VarTypeOK
  <2>1. CASE t \in triples
    BY <1>1, <2>0, <2>1 DEF Recorded
  <2>2. CASE t = ids[p] /\ attach(p)
    BY <1>1, <2>0, <2>2 DEF VarTypeOK, Equipped, Has, attach, At, key, Keys, SemKeys
  <2> QED
    BY <1>2, <1>4, <2>1, <2>2
<1>6. \A s \in fresh' : \E t \in triples' : t["shared"] = s
  BY <1>2, <1>3 DEF Recorded, access, Equipped, Has, At
<1> QED
  BY <1>5, <1>6 DEF Recorded

\* Only semget with IPC_EXCL leads to SETALL.
LEMMA OneCreatorStep ==
    ASSUME VarTypeOK, Equipped, OneCreator, NEW p \in Procs, Start(p) \/ Run(p) \/ Kill(p)
    PROVE  OneCreator'
<1>1. CASE todo'[p][1] # "setall"
  BY <1>1, Frame DEF OneCreator, At, key
<1>2. CASE todo'[p][1] = "setall"
  <2>1. create(p) /\ todo'[p][2] = todo[p][2] /\ ids'[p][todo[p][2]] = created[todo[p][2]] + 1
    BY <1>2 DEF VarTypeOK, Start, Run, Kill, create, get, setall, attach, read, wait_sem, access,
         signal_sem, exit_procedure, key, To, Got, Exit
  <2>2. \A q \in Procs : ids[q][todo[p][2]] # created[todo[p][2]] + 1
    BY DEF VarTypeOK
  <2> QED
    BY <1>2, <2>1, <2>2, Frame DEF OneCreator, At, key
<1> QED
  BY <1>1, <1>2

\* What the step of p does to the object of k, and what no step undoes.
LEMMA VarStepOf ==
    ASSUME VarTypeOK, Equipped, NEW p \in Procs, Start(p) \/ Run(p) \/ Kill(p), NEW k \in Keys
    PROVE  /\ \/ named'[k] = named[k]
              \/ named'[k] = 0
              \/ /\ create(p) /\ key(p) = k /\ named[k] = 0 /\ named'[k] = created[k] + 1
                 /\ ids'[p][k] = named'[k] /\ (k \in SemKeys => val'[k] = 0)
                 /\ (k \in SemKeys => todo'[p] = <<"setall", k>>)
           /\ todo'[p][1] = "setall" =>
                 create(p) /\ todo'[p] = <<"setall", key(p)>> /\ named'[key(p)] # named[key(p)]
           /\ late => late'
           /\ triples \subseteq triples'
           /\ kills' = IF Kill(p) THEN kills + 1 ELSE kills
<1>0. /\ todo[p] = <<todo[p][1], todo[p][2]>> /\ todo[p][1] \in VarSteps /\ todo[p][2] \in Keys
      /\ Has(p)
  BY DEF VarTypeOK, Equipped
<1>1. \/ named'[k] = named[k]
      \/ named'[k] = 0
      \/ create(p) /\ key(p) = k /\ named[k] = 0 /\ named'[k] = created[k] + 1
  BY <1>0 DEF VarTypeOK, Start, Run, Kill, create, get, setall, attach, read, wait_sem, access,
          signal_sem, exit_procedure, key
<1>2. ASSUME create(p), key(p) = k, named[k] = 0
      PROVE  /\ ids'[p][k] = named'[k] /\ (k \in SemKeys => val'[k] = 0)
             /\ (k \in SemKeys => todo'[p] = <<"setall", k>>)
  BY <1>0, <1>2 DEF VarTypeOK, create, key, To
<1>3. ASSUME todo'[p][1] = "setall"
      PROVE  create(p) /\ todo'[p] = <<"setall", key(p)>> /\ named'[key(p)] # named[key(p)]
  <2>1. create(p)
    BY <1>3 DEF VarTypeOK, Start, Run, Kill, get, setall, attach, read, wait_sem, access,
         signal_sem, exit_procedure, To, Got, Exit
  <2>2. named[key(p)] = 0 /\ named'[key(p)] = created[key(p)] + 1
    BY <1>0, <1>3, <2>1 DEF VarTypeOK, create, To, key
  <2>3. todo'[p] = <<"setall", key(p)>>
    BY <1>0, <1>3, <2>1 DEF VarTypeOK, create, To, key
  <2> QED
    BY <1>0, <2>1, <2>2, <2>3 DEF VarTypeOK, key
<1>4. /\ late => late'
      /\ triples \subseteq triples'
  <2>1. late' = late \/ late' = (late \/ val[key(p)] # 0)
    BY DEF Start, Run, Kill, create, get, setall, attach, read, wait_sem, access, signal_sem,
           exit_procedure
  <2>2. late => late'
    BY <2>1
  <2>3. triples \subseteq triples'
    BY DEF Start, Run, Kill, create, get, setall, attach, read, wait_sem, access, signal_sem,
           exit_procedure
  <2> QED
    BY <2>2, <2>3
<1>5. kills' = IF Kill(p) THEN kills + 1 ELSE kills
  BY DEF Start, Run, Kill, create, get, setall, attach, read, wait_sem, access, signal_sem,
         exit_procedure
<1> QED
  BY <1>1, <1>2, <1>3, <1>4, <1>5

\* The initialisation of a set goes on until its program makes it or is killed.
LEMMA PendingStep ==
    ASSUME VarTypeOK, Equipped, NEW p \in Procs, Start(p) \/ Run(p) \/ Kill(p), NEW k \in SemKeys,
           named'[k] = named[k], ~ (setall(p) /\ key(p) = k /\ Alive(p, k))
    PROVE  (Pending(k)' => Pending(k)) /\ (Pending(k) /\ ~ Kill(p) => Pending(k)')
<1>0. k \in Keys
  BY DEF Keys
<1>1. ASSUME NEW q \in Procs, (At(q, "setall") /\ key(q) = k /\ Alive(q, k))' PROVE Pending(k)
  <2>1. CASE q = p
    BY <1>0, <1>1, <2>1, VarStepOf DEF At, key
  <2>2. CASE q # p
    BY <1>1, <2>2, Frame DEF Pending, At, key, Alive
  <2> QED
    BY <2>1, <2>2
<1>2. ASSUME NEW q \in Procs, At(q, "setall"), key(q) = k, Alive(q, k), ~ Kill(p) PROVE Pending(k)'
  <2>1. CASE q = p
    <3>1. setall(p)
      BY <1>2, <2>1 DEF At, Start, Run, create, get, attach, read, wait_sem, access, signal_sem,
         exit_procedure
    <3> QED
      BY <1>2, <2>1, <3>1
  <2>2. CASE q # p
    BY <1>2, <2>2, Frame DEF Pending, At, key, Alive
  <2> QED
    BY <2>1, <2>2
<1> QED
  BY <1>1, <1>2 DEF Pending

\* Then it is not made again.
LEMMA PendingEnds ==
    ASSUME VarTypeOK, Equipped, OneCreator, NEW p \in Procs, NEW k \in SemKeys,
           setall(p), key(p) = k, Alive(p, k)
    PROVE  ~ Pending(k)' /\ ids' = ids /\ named' = named
<1>1. ids' = ids /\ named' = named /\ todo'[p][1] # "setall"
  BY DEF VarTypeOK, setall, Got, To
<1>2. \A q \in Procs \ {p} : todo'[q] = todo[q]
  BY Frame DEF Run
<1>3. ASSUME NEW q \in Procs \ {p}, todo[q][1] = "setall", todo[q][2] = k
      PROVE  ids[q][k] # named[k]
  BY <1>3 DEF OneCreator, At, key, Alive, setall
<1> QED
  BY <1>1, <1>2, <1>3 DEF Pending, At, key, Alive

\* A semop on a set is that of a program that has worked with it.
LEMMA UnusedStep ==
    ASSUME VarTypeOK, Equipped, OneCreator, Unused, NEW p \in Procs, Start(p) \/ Run(p) \/ Kill(p)
    PROVE  Unused'
<1> SUFFICES ASSUME NEW k \in SemKeys, named'[k] # 0, \A t \in triples' : t[k] # named'[k]
             PROVE  /\ val'[k] = 0 \/ (val'[k] = initsem[k] /\ ~ Pending(k)')
                    /\ kills' = 0 => Pending(k)' \/ val'[k] = initsem[k]
  BY DEF Unused
<1>0. k \in Keys /\ kills \in Nat
  BY DEF Keys, VarTypeOK
<1>1. CASE create(p) /\ key(p) = k /\ named[k] = 0
  <2>1. named'[k] # named[k]
    BY <1>1
  <2>2. ids'[p][k] = named'[k] /\ val'[k] = 0 /\ todo'[p] = <<"setall", k>>
    BY <1>0, <2>1, VarStepOf
  <2> QED
    BY <2>2 DEF Pending, Alive, At, key
<1>2. CASE ~ (create(p) /\ key(p) = k /\ named[k] = 0)
  <2>1. named'[k] = named[k] /\ \A t \in triples : t[k] # named[k]
    BY <1>0, <1>2, VarStepOf
  <2>2. /\ val[k] = 0 \/ (val[k] = initsem[k] /\ ~ Pending(k))
        /\ kills = 0 => Pending(k) \/ val[k] = initsem[k]
    BY <2>1 DEF Unused
  <2>3. CASE setall(p) /\ key(p) = k /\ Alive(p, k)
    <3>1. ~ Pending(k)'
      BY <2>3, PendingEnds
    <3>2. val'[k] = initsem[k]
      BY <2>3 DEF setall, VarTypeOK
    <3> QED
      BY <3>1, <3>2
  <2>4. CASE ~ (setall(p) /\ key(p) = k /\ Alive(p, k))
    <3>1. val'[k] = val[k]
      <4>1. CASE wait_sem(p)
        BY <2>1, <4>1 DEF wait_sem, VarTypeOK, Equipped, Has, Alive, At
      <4>2. CASE signal_sem(p)
        BY <2>1, <4>2 DEF signal_sem, VarTypeOK, Equipped, Has, Alive, At
      <4>3. CASE setall(p)
        BY <2>4, <4>3 DEF setall, VarTypeOK
      <4>4. CASE create(p)
        BY <1>0, <1>2, <4>4 DEF create, VarTypeOK
      <4> QED
        BY <4>1, <4>2, <4>3, <4>4 DEF Start, Run, Kill, get, attach, read, access, exit_procedure
    <3>2. (Pending(k)' => Pending(k)) /\ (Pending(k) /\ ~ Kill(p) => Pending(k)')
      BY <2>1, <2>4, PendingStep
    <3>3. kills' = 0 => kills = 0 /\ ~ Kill(p)
      BY <1>0, VarStepOf
    <3> QED
      BY <2>2, <3>1, <3>2, <3>3
  <2> QED
    BY <2>3, <2>4
<1> QED
  BY <1>1, <1>2

\* A step after which the right of t is where it was, or is gone.
FewerRights(t) ==
    /\ \A k \in SemKeys : named'[k] = t[k] => named[k] = t[k] /\ val'[k] = val[k]
    /\ \A q \in Working(t)' : q \in Working(t) /\ todo'[q] = todo[q] /\ program'[q] = program[q]
    /\ t["shared"] \in fresh' <=> t["shared"] \in fresh
    /\ named'["notfull"] = t["notfull"] /\ Pending("notfull")' => Pending("notfull")
    /\ kills' = 0 /\ (\A k \in SemKeys : named'[k] = t[k]) =>
          /\ kills = 0
          /\ Pending("notfull") => Pending("notfull")'
          /\ Working(t) \subseteq Working(t)'

LEMMA FewerRightsToken ==
    ASSUME NEW t, OneToken(t), FewerRights(t), Working(t)' \subseteq Procs
    PROVE  OneToken(t)'
<1>1. \A k \in SemKeys : Ready(t, k)' => Ready(t, k) /\ val'[k] = val[k]
  BY DEF FewerRights, Ready
<1>2. Working(t)' \subseteq Working(t)
  BY DEF FewerRights
<1>3. /\ \A p, q \in Working(t)' : p = q
      /\ \A k \in SemKeys : Ready(t, k)' => val'[k] = 1 /\ Working(t)' = {}
      /\ ~ (Ready(t, "notfull")' /\ Ready(t, "notempty")')
      /\ Ready(t, "notfull")' => t["shared"] \notin fresh'
      /\ Ready(t, "notempty")' => t["shared"] \in fresh'
  BY <1>1, <1>2 DEF OneToken, FewerRights, SemKeys
<1>4. t["notfull"] = named'["notfull"] /\ Pending("notfull")' =>
          /\ val'["notfull"] = 0 /\ Working(t)' = {} /\ ~ Ready(t, "notempty")'
          /\ t["shared"] \notin fresh'
  BY <1>1, <1>2 DEF OneToken, FewerRights, SemKeys
<1>5. \A p \in Working(t)' :
          (t["shared"] \in fresh') = (todo'[p][1] = "access" <=> program'[p] = "cons")
  BY <1>1, <1>2 DEF OneToken, FewerRights, At
<1>6. kills' = 0 /\ (\A k \in SemKeys : t[k] = named'[k]) /\ ~ Pending("notfull")' =>
          Ready(t, "notfull")' \/ Ready(t, "notempty")' \/ Working(t)' # {}
  <2> SUFFICES ASSUME kills' = 0, \A k \in SemKeys : t[k] = named'[k], ~ Pending("notfull")'
               PROVE  Ready(t, "notfull")' \/ Ready(t, "notempty")' \/ Working(t)' # {}
    OBVIOUS
  <2>1. /\ kills = 0 /\ ~ Pending("notfull") /\ Working(t) = Working(t)'
        /\ \A k \in SemKeys : t[k] = named[k] /\ val'[k] = val[k]
    BY <1>2 DEF FewerRights
  <2>2. Ready(t, "notfull") \/ Ready(t, "notempty") \/ Working(t) # {}
    BY <2>1 DEF OneToken
  <2> QED
    BY <2>1, <2>2 DEF Ready, SemKeys
<1> QED
  BY <1>3, <1>4, <1>5, <1>6 DEF OneToken, At

\* The objects that p begins to work with are new when another program has not worked with them.
LEMMA NewToken ==
    ASSUME VarTypeOK, Equipped, Recorded, Unused, NEW p \in Procs, attach(p),
           ids[p] \in triples', ids[p] \notin triples, ~ Mixed', NEW t, t = ids[p]
    PROVE  OneToken(t)'
<1>1. /\ triples' = triples \cup {t}
      /\ UNCHANGED <<named, created, val, fresh, program, kills, ids>>
  BY DEF attach
<1>2. \A u \in triples, k \in Keys : u[k] # t[k]
  BY <1>1 DEF Mixed
<1>3. t \in [Keys -> Nat] /\ \A k \in SemKeys : t[k] # 0
  BY DEF VarTypeOK, Equipped, Has, attach, At, SemKeys
<1>4. Working(t)' = {}
  <2>1. todo'[p][1] \notin {"access", "signal"}
    BY DEF attach, To, Exit, VarTypeOK
  <2>2. \A q \in Procs \ {p} : todo'[q] = todo[q] /\ ids'[q] = ids[q]
    BY Frame DEF Run
  <2> QED
    BY <2>1, <2>2 DEF Working, Equipped, Has
<1>5. t["shared"] \notin fresh'
  BY <1>1, <1>2 DEF Recorded, Keys
<1>6. ASSUME NEW k \in SemKeys, t[k] = named[k]
      PROVE  /\ val[k] = 0 \/ (val[k] = initsem[k] /\ ~ Pending(k)')
             /\ kills = 0 => Pending(k)' \/ val[k] = initsem[k]
  <2>1. named[k] # 0 /\ \A u \in triples : u[k] # named[k]
    BY <1>2, <1>3, <1>6 DEF Keys
  <2>2. (Pending(k)' => Pending(k)) /\ (Pending(k) => Pending(k)')
    <3>1. ~ setall(p) /\ ~ Kill(p)
      BY <1>1 DEF attach, setall, Kill, At, VarTypeOK
    <3> QED
      BY <1>1, <3>1, PendingStep DEF Run
  <2> QED
    BY <2>1, <2>2 DEF Unused
<1>7. /\ "notfull" \in SemKeys /\ "notempty" \in SemKeys
      /\ initsem["notempty"] = 0 /\ initsem["notfull"] = 1
  BY DEF SemKeys, initsem
<1> QED
  BY <1>1, <1>4, <1>5, <1>6, <1>7 DEF OneToken, Ready, SemKeys

\* wait_sem takes the right from a set, access changes the value, signal_sem hands the right on.
LEMMA TokenStep ==
    ASSUME VarTypeOK, Equipped, Recorded, OneCreator, Unused, Tokens,
           NEW p \in Procs, Start(p) \/ Run(p) \/ Kill(p)
    PROVE  Tokens'
<1> SUFFICES ASSUME ~ late', ~ Mixed', NEW t \in triples' PROVE OneToken(t)'
  BY DEF Tokens
<1>0. /\ todo[p] = <<todo[p][1], todo[p][2]>> /\ todo[p][1] \in VarSteps /\ todo[p][2] \in Keys
      /\ Has(p) /\ Working(t)' \subseteq Procs /\ kills \in Nat
      /\ "notfull" \in SemKeys /\ "notempty" \in SemKeys /\ SemKeys \subseteq Keys
  BY DEF VarTypeOK, Equipped, Working, SemKeys, Keys
<1>1. ~ late /\ ~ Mixed
  <2>1. triples \subseteq triples' /\ (late => late')
    BY <1>0, VarStepOf
  <2> QED
    BY <2>1 DEF Mixed
<1>2. \A u \in triples', k \in Keys : u[k] = t[k] => u = t
  BY DEF Mixed
<1>3. CASE t \notin triples
  <2>1. attach(p) /\ t = ids[p]
    BY <1>3 DEF Start, Run, Kill, create, get, setall, attach, read, wait_sem, access, signal_sem,
         exit_procedure
  <2> QED
    BY <1>3, <2>1, NewToken
<1>4. CASE t \in triples
  <2>1. OneToken(t)
    BY <1>1, <1>4 DEF Tokens
  <2>2. t \in [Keys -> Nat] /\ \A k \in Keys : t[k] # 0 /\ t[k] <= created[k]
    BY <1>4 DEF Recorded
  <2>3. \A k \in SemKeys : named'[k] = t[k] => named[k] = t[k]
    BY <1>0, <2>2, VarStepOf DEF VarTypeOK
  <2>4. kills' = 0 => kills = 0 /\ ~ Kill(p)
    BY <1>0, VarStepOf
  \* A step that touches neither the sets nor the segment of t.
  <2>5. ASSUME \A k \in SemKeys : named'[k] = t[k] => val'[k] = val[k],
               \A q \in Working(t)' :
                   q \in Working(t) /\ todo'[q] = todo[q] /\ program'[q] = program[q],
               t["shared"] \in fresh' <=> t["shared"] \in fresh,
               kills' = 0 /\ (\A k \in SemKeys : named'[k] = t[k]) =>
                   Working(t) \subseteq Working(t)',
               ~ (/\ setall(p) /\ key(p) = "notfull" /\ Alive(p, "notfull")
                  /\ named["notfull"] = t["notfull"])
        PROVE  OneToken(t)'
    <3>1. named'["notfull"] = t["notfull"] =>
              /\ Pending("notfull")' => Pending("notfull")
              /\ Pending("notfull") /\ ~ Kill(p) => Pending("notfull")'
      BY <1>0, <2>3, <2>5, PendingStep
    <3>2. FewerRights(t)
      BY <1>0, <2>3, <2>4, <2>5, <3>1 DEF FewerRights
    <3> QED
      BY <1>0, <2>1, <3>2, FewerRightsToken
  <2>6. \A q \in Procs \ {p} : (q \in Working(t))' = (q \in Working(t))
    BY Frame DEF Working
  <2>7. CASE Start(p) \/ create(p) \/ get(p) \/ attach(p) \/ read(p) \/ exit_procedure(p) \/ Kill(p)
    <3>1. ASSUME NEW k \in SemKeys, named'[k] = t[k] PROVE val'[k] = val[k]
      <4>1. CASE create(p)
        <5>1. named'[k] = named[k]
          BY <1>0, <2>2, <2>3, <3>1
        <5> QED
          BY <1>0, <2>2, <3>1, <4>1, <5>1 DEF create, VarTypeOK, key
      <4> QED
        BY <2>7, <4>1 DEF Start, get, attach, read, exit_procedure, Kill
    <3>2. p \notin Working(t)' /\ (Kill(p) \/ p \notin Working(t))
      <4>1. todo'[p][1] \notin {"access", "signal"}
        BY <1>0, <2>7 DEF Start, create, get, attach, read, exit_procedure, Kill, To, Got, Exit,
           VarTypeOK
      <4>2. Kill(p) \/ todo[p][1] \notin {"access", "signal"}
        BY <2>7 DEF Start, create, get, attach, read, exit_procedure, At
      <4> QED
        BY <4>1, <4>2 DEF Working
    <3>3. fresh' = fresh /\ ~ setall(p)
      BY <1>0, <2>7 DEF Start, create, get, attach, read, exit_procedure, Kill, setall, At
    <3> QED
      BY <2>4, <2>5, <2>6, <3>1, <3>2, <3>3, Frame DEF Working
  <2>8. CASE setall(p)
    <3> DEFINE k == todo[p][2]
    <3>1. /\ UNCHANGED <<named, fresh, program, kills>> /\ k \in SemKeys /\ k = key(p)
          /\ todo'[p][1] \notin {"access", "signal"} /\ todo[p][1] \notin {"access", "signal"}
      BY <1>0, <2>8 DEF setall, At, key, To, Got, Exit, VarTypeOK, Has
    <3>2. Working(t)' = Working(t) /\ \A q \in Working(t)' : todo'[q] = todo[q]
      BY <2>6, <3>1, Frame DEF Working
    <3>3. CASE k = "notfull" /\ Alive(p, k) /\ named[k] = t[k]
      <4>1. /\ val["notfull"] = 0 /\ Working(t) = {} /\ ~ Ready(t, "notempty")
            /\ t["shared"] \notin fresh
        BY <2>1, <2>8, <3>1, <3>3 DEF OneToken, Pending, setall
      <4>2. val' = [val EXCEPT !["notfull"] = initsem["notfull"]] /\ initsem["notfull"] = 1
        BY <2>8, <3>1, <3>3 DEF setall, initsem
      <4>3. val'["notfull"] = 1 /\ val'["notempty"] = val["notempty"]
        BY <1>0, <4>2 DEF VarTypeOK
      <4>4. ~ Pending("notfull")'
        BY <2>8, <3>1, <3>3, PendingEnds
      <4> QED
        BY <3>1, <3>2, <3>3, <4>1, <4>3, <4>4 DEF OneToken, Ready, SemKeys
    <3>4. CASE ~ (k = "notfull" /\ Alive(p, k) /\ named[k] = t[k])
      <4>1. ASSUME NEW l \in SemKeys, named'[l] = t[l] PROVE val'[l] = val[l]
        <5>1. CASE l = k /\ Alive(p, k)
          <6>1. k = "notempty" /\ val[k] = 0
            BY <2>8, <3>1, <3>4, <4>1, <5>1 DEF setall, SemKeys, VarTypeOK
          <6>2. val'[k] = initsem[k]
            BY <2>8, <3>1, <5>1 DEF setall, VarTypeOK
          <6> QED
            BY <5>1, <6>1, <6>2 DEF initsem
        <5>2. CASE ~ (l = k /\ Alive(p, k))
          BY <2>8, <3>1, <5>2 DEF setall, VarTypeOK
        <5> QED
          BY <5>1, <5>2
      <4> QED
        BY <2>5, <3>1, <3>2, <3>4, <4>1
    <3> QED
      BY <3>3, <3>4
  <2>9. CASE wait_sem(p)
    <3> DEFINE k == todo[p][2]
    <3>1. /\ UNCHANGED <<named, fresh, program, kills, ids>> /\ k \in SemKeys /\ k = key(p)
          /\ todo[p][1] \notin {"access", "signal"} /\ ids[p] \in triples' /\ ~ setall(p)
          /\ k = waits(p)
      BY <1>0, <2>9 DEF wait_sem, setall, At, key, Has, waits, SemKeys
    <3>2. CASE Alive(p, k) /\ named[k] = t[k]
      <4>1. /\ ids[p] = t /\ Ready(t, k)
            /\ val' = [val EXCEPT ![k] = @ - 1] /\ todo'[p] = <<"access", "shared">>
        BY <1>0, <1>2, <2>9, <3>1, <3>2 DEF wait_sem, Alive, Ready, To, VarTypeOK
      <4>2. val[k] = 1 /\ Working(t) = {} /\ \A l \in SemKeys : Ready(t, l) => l = k
        BY <2>1, <3>1, <4>1 DEF OneToken, SemKeys
      <4>3. \A l \in SemKeys : ~ Ready(t, l)'
        BY <3>1, <4>1, <4>2 DEF Ready, VarTypeOK
      <4>4. Working(t)' = {p}
        BY <2>6, <3>1, <4>1, <4>2 DEF Working
      <4>5. ~ (t["notfull"] = named["notfull"] /\ Pending("notfull"))
        BY <2>1, <3>1, <4>1, <4>2 DEF OneToken, SemKeys, Ready
      <4>6. ~ (t["notfull"] = named'["notfull"] /\ Pending("notfull")')
        BY <1>0, <3>1, <4>5, PendingStep
      <4>7. (t["shared"] \in fresh') = (todo'[p][1] = "access" <=> program'[p] = "cons")
        BY <2>1, <3>1, <4>1 DEF OneToken, waits, VarTypeOK
      <4> QED
        BY <1>0, <4>3, <4>4, <4>6, <4>7 DEF OneToken, At
    <3>3. CASE ~ (Alive(p, k) /\ named[k] = t[k])
      <4>1. ASSUME NEW l \in SemKeys, named'[l] = t[l] PROVE val'[l] = val[l]
        BY <2>9, <3>1, <3>3, <4>1 DEF wait_sem, VarTypeOK
      <4>2. p \notin Working(t)'
        <5>1. CASE Alive(p, k)
          BY <3>1, <3>3, <5>1 DEF Working, Alive
        <5>2. CASE ~ Alive(p, k)
          BY <1>0, <2>9, <3>1, <5>2 DEF wait_sem, Exit, To, VarTypeOK, Working
        <5> QED
          BY <5>1, <5>2
      <4> QED
        BY <2>5, <2>6, <3>1, <4>1, <4>2, Frame DEF Working
    <3> QED
      BY <3>2, <3>3
  <2>10. CASE access(p)
    <3>1. /\ UNCHANGED <<named, val, program, kills, ids>> /\ ~ setall(p)
          /\ todo[p][1] = "access" /\ todo'[p][1] = "signal" /\ ids[p] \in triples'
          /\ fresh' = IF program[p] = "prod" THEN fresh \cup {ids[p]["shared"]}
                      ELSE fresh \ {ids[p]["shared"]}
      BY <1>0, <2>10 DEF access, setall, At, To, Has, VarTypeOK
    <3>2. CASE ids[p] # t
      <4>1. ids[p]["shared"] # t["shared"] /\ p \notin Working(t) /\ p \notin Working(t)'
        BY <1>2, <3>1, <3>2 DEF Working, Keys
      <4> QED
        BY <2>5, <2>6, <3>1, <4>1, Frame DEF Working
    <3>3. CASE ids[p] = t
      <4>1. p \in Working(t) /\ Working(t)' = Working(t)
        BY <2>6, <3>1, <3>3 DEF Working
      <4>2. Working(t)' = {p} /\ \A k \in SemKeys : ~ Ready(t, k)'
        BY <2>1, <3>1, <4>1 DEF OneToken, Ready
      <4>3. ~ (t["notfull"] = named["notfull"] /\ Pending("notfull"))
        BY <2>1, <4>1 DEF OneToken
      <4>4. ~ (t["notfull"] = named'["notfull"] /\ Pending("notfull")')
        BY <1>0, <3>1, <4>3, PendingStep
      <4>5. (t["shared"] \in fresh') = (todo'[p][1] = "access" <=> program'[p] = "cons")
        BY <3>1, <3>3 DEF VarTypeOK
      <4> QED
        BY <1>0, <4>2, <4>4, <4>5 DEF OneToken, At
    <3> QED
      BY <3>2, <3>3
  <2>11. CASE signal_sem(p)
    <3> DEFINE k == todo[p][2]
    <3>1. /\ UNCHANGED <<named, fresh, program, kills, ids>> /\ k \in SemKeys /\ k = key(p)
          /\ todo[p][1] = "signal" /\ ids[p] \in triples' /\ ~ setall(p)
          /\ k = signals(p) /\ todo'[p][1] \notin {"access", "signal"}
      BY <1>0, <2>11 DEF signal_sem, setall, At, key, Has, signals, SemKeys, To, Exit, VarTypeOK
    <3>2. CASE Alive(p, k) /\ named[k] = t[k]
      <4>1. ids[p] = t /\ val' = [val EXCEPT ![k] = @ + 1]
        BY <1>0, <1>2, <2>11, <3>1, <3>2 DEF signal_sem, Alive
      <4>2. p \in Working(t)
        BY <3>1, <4>1 DEF Working
      <4>3. Working(t) = {p} /\ \A l \in SemKeys : ~ Ready(t, l)
        BY <2>1, <4>2 DEF OneToken
      <4>4. Working(t)' = {}
        BY <2>6, <3>1, <4>3 DEF Working
      <4>5. val'[k] = 1 /\ \A l \in SemKeys : Ready(t, l)' <=> l = k
        BY <3>1, <3>2, <4>1, <4>3 DEF Ready, VarTypeOK
      <4>6. ~ (t["notfull"] = named["notfull"] /\ Pending("notfull"))
        BY <2>1, <4>2 DEF OneToken
      <4>7. ~ (t["notfull"] = named'["notfull"] /\ Pending("notfull")')
        BY <1>0, <3>1, <4>6, PendingStep
      <4>8. t["shared"] \in fresh' <=> k = "notempty"
        BY <2>1, <3>1, <4>2 DEF OneToken, At, signals, VarTypeOK
      <4> QED
        <5>1. /\ \A l \in SemKeys : Ready(t, l)' => val'[l] = 1 /\ Working(t)' = {}
              /\ ~ (Ready(t, "notfull")' /\ Ready(t, "notempty")')
              /\ Ready(t, "notfull")' => t["shared"] \notin fresh'
              /\ Ready(t, "notempty")' => t["shared"] \in fresh'
              /\ Ready(t, "notfull")' \/ Ready(t, "notempty")'
          BY <1>0, <3>1, <4>4, <4>5, <4>8 DEF SemKeys
        <5> QED
          BY <4>4, <4>7, <5>1 DEF OneToken
    <3>3. CASE ~ (Alive(p, k) /\ named[k] = t[k])
      <4>1. ASSUME NEW l \in SemKeys, named'[l] = t[l] PROVE val'[l] = val[l]
        BY <2>11, <3>1, <3>3, <4>1 DEF signal_sem, VarTypeOK
      <4>2. p \notin Working(t)'
        BY <3>1 DEF Working
      <4>3. named[k] = t[k] => p \notin Working(t)
        BY <1>0, <2>2, <3>1, <3>3 DEF Working, Alive
      <4> QED
        BY <2>5, <2>6, <3>1, <4>1, <4>2, <4>3, Frame DEF Working
    <3> QED
      BY <3>2, <3>3
  <2> QED
    BY <2>7, <2>8, <2>9, <2>10, <2>11 DEF Run
<1> QED
  BY <1>3, <1>4

\* exit_procedure removes what it knows before it forgets it.
LEMMA OwnedStep ==
    ASSUME VarTypeOK, Equipped, Owned, NEW p \in Procs, Start(p) \/ Run(p) \/ Kill(p)
    PROVE  Owned'
<1> SUFFICES ASSUME kills' = 0, NEW k \in Keys, named'[k] # 0
             PROVE  \E q \in Procs : ids'[q][k] = named'[k] /\ ~ Removed(q, k)'
  BY DEF Owned
<1>0. /\ todo[p] = <<todo[p][1], todo[p][2]>> /\ todo[p][1] \in VarSteps /\ todo[p][2] \in Keys
      /\ Has(p) /\ kills \in Nat
  BY DEF VarTypeOK, Equipped
<1>1. CASE create(p) /\ key(p) = k /\ named[k] = 0
  <2>1. ids'[p][k] = named'[k]
    BY <1>1, VarStepOf
  <2>2. todo'[p][1] \in {"setall", "attach"}
    BY <1>0, <1>1 DEF create, key, To, VarTypeOK
  <2> QED
    BY <2>1, <2>2 DEF Removed, At
<1>2. CASE ~ (create(p) /\ key(p) = k /\ named[k] = 0)
  <2>1. named'[k] = named[k] /\ kills = 0 /\ ~ Kill(p)
    BY <1>0, <1>2, VarStepOf
  <2>2. PICK q \in Procs : ids[q][k] = named[k] /\ ~ Removed(q, k)
    BY <2>1 DEF Owned
  <2>3. CASE q # p
    BY <2>1, <2>2, <2>3, Frame DEF Removed, At, key
  <2>4. CASE q = p
    <3>1. ~ Start(p)
      BY <2>2, <2>4 DEF Start, Removed
    <3>2. CASE exit_procedure(p)
      <4>1. key(p) # k
        BY <1>0, <2>1, <2>2, <2>4, <3>2 DEF exit_procedure, Alive, key, VarTypeOK
      <4>2. CASE key(p) = "notempty"
        BY <2>2, <2>4, <3>2, <4>1, <4>2 DEF exit_procedure, Removed
      <4>3. CASE key(p) # "notempty"
        <5>1. /\ ids' = ids
              /\ todo'[p] = <<"remove", IF key(p) = "shared" THEN "notfull" ELSE "notempty">>
          BY <1>0, <3>2, <4>3 DEF exit_procedure, To, VarTypeOK
        <5> QED
          BY <1>0, <2>1, <2>2, <2>4, <3>2, <4>1, <4>3, <5>1
             DEF Removed, At, key, Keys, SemKeys, exit_procedure
      <4> QED
        BY <4>2, <4>3
    <3>3. CASE ~ exit_procedure(p)
      <4>1. todo[p][1] \notin {"off", "remove"}
        BY <2>1, <2>2, <2>4, <3>1, <3>3 DEF Run, create, get, setall, attach, read, wait_sem,
           access, signal_sem, Removed, At
      <4>2. todo'[p][1] # "off" /\ (todo'[p][1] = "remove" => todo'[p][2] = "shared")
        BY <1>0, <2>1, <3>1, <3>3 DEF Run, create, get, setall, attach, read, wait_sem, access,
           signal_sem, To, Got, Exit, VarTypeOK
      <4>3. ids'[p][k] = ids[p][k]
        <5>1. CASE create(p)
          BY <1>0, <1>2, <5>1 DEF create, key, VarTypeOK
        <5>2. CASE get(p)
          BY <1>0, <2>1, <2>2, <2>4, <5>2 DEF get, key, VarTypeOK
        <5>3. CASE setall(p)
          BY <1>0, <2>1, <2>2, <2>4, <5>3 DEF setall, key, Alive, VarTypeOK
        <5>4. CASE attach(p)
          BY <1>0, <2>1, <2>2, <2>4, <5>4 DEF attach, key, Alive, VarTypeOK
        <5> QED
          BY <2>1, <3>1, <3>3, <5>1, <5>2, <5>3, <5>4 DEF Run, read, wait_sem, access, signal_sem
      <4> QED
        BY <2>1, <2>2, <2>4, <4>2, <4>3 DEF Removed, At, key
    <3> QED
      BY <3>2, <3>3
  <2> QED
    BY <2>3, <2>4
<1> QED
  BY <1>1, <1>2
-----------------------------------------------------------------------------
\* Nothing has been created and nobody runs.
LEMMA VarInitInv == VarInit => VarInv
<1> SUFFICES ASSUME VarInit PROVE VarInv
  OBVIOUS
<1>1. VarTypeOK
  <2>1. /\ NoIds \in [Keys -> Nat] /\ \A k \in Keys : NoIds[k] = 0
        /\ <<"off", "notempty">> \in VarSteps \X Keys
    BY DEF NoIds, VarSteps, Keys, SemKeys
  <2>2. /\ created \in [Keys -> Nat] /\ named \in [Keys -> Nat]
        /\ \A k \in Keys : named[k] <= created[k]
    BY <2>1 DEF VarInit
  <2>3. ids \in [Procs -> [Keys -> Nat]] /\ \A p \in Procs, k \in Keys : ids[p][k] <= created[k]
    BY <2>1 DEF VarInit
  <2>4. /\ val \in [SemKeys -> Nat] /\ program \in [Procs -> {"prod", "cons"}]
        /\ todo \in [Procs -> VarSteps \X Keys] /\ kills \in Nat /\ late \in BOOLEAN
    BY <2>1 DEF VarInit
  <2> QED
    BY <2>2, <2>3, <2>4 DEF VarTypeOK
<1>2. \A p \in Procs : todo[p][1] = "off"
  BY DEF VarInit
<1>3. Equipped /\ OneCreator
  BY <1>2 DEF Equipped, Has, OneCreator, At
<1>4. Recorded /\ Tokens
  BY DEF VarInit, Recorded, Tokens
<1>5. Unused /\ Owned
  BY DEF VarInit, Unused, Owned, NoIds, Keys
<1> QED
  BY <1>1, <1>3, <1>4, <1>5 DEF VarInv

\* Every step preserves the invariant.
LEMMA VarStep == VarInv /\ [VarNext]_varVars => VarInv'
<1>1. ASSUME VarInv, NEW p \in Procs, Start(p) \/ Run(p) \/ Kill(p) PROVE VarInv'
  BY <1>1, VarTypeStep, EquippedStep, RecordedStep, OneCreatorStep, UnusedStep, TokenStep, OwnedStep
     DEF VarInv
<1>2. ASSUME VarInv, UNCHANGED varVars PROVE VarInv'
  BY <1>2 DEF varVars, VarInv, VarTypeOK, Equipped, Has, Recorded, OneCreator, Unused, Tokens,
     OneToken, Owned, At, key, Alive, waits, signals, Pending, Working, Ready, Removed, Mixed
<1> QED
  BY <1>1, <1>2 DEF VarNext

\* It holds in every reachable state.
LEMMA VarInvariant == VarSpec => []VarInv
BY VarInitInv, VarStep, PTL DEF VarSpec

\* The right of t is in exactly one place when it has been initialised and nobody was killed.
LEMMA OneRightHolds == VarInv => OneRight
<1> SUFFICES ASSUME VarInv, NEW t \in triples, ~ late, ~ Mixed, kills = 0,
                    \A k \in SemKeys : named[k] = t[k],
                    \A p \in Procs : At(p, "setall") => ~ Alive(p, key(p))
             PROVE  val["notfull"] + val["notempty"] + Cardinality(Working(t)) = 1
  BY DEF OneRight, Working
<1>1. OneToken(t) /\ ~ Pending("notfull")
  BY DEF VarInv, Tokens, Pending
<1>2. /\ "notfull" \in SemKeys /\ "notempty" \in SemKeys
      /\ val["notfull"] \in Nat /\ val["notempty"] \in Nat
      /\ \A k \in SemKeys : ~ Ready(t, k) => val[k] = 0
  BY DEF VarInv, VarTypeOK, SemKeys, Ready
<1>3. CASE Working(t) = {}
  <2>1. \/ val["notfull"] = 1 /\ val["notempty"] = 0
        \/ val["notfull"] = 0 /\ val["notempty"] = 1
    BY <1>1, <1>2, <1>3 DEF OneToken
  <2> QED
    BY <1>3, <2>1, FS_EmptySet
<1>4. CASE Working(t) # {}
  <2>1. PICK p \in Working(t) : Working(t) = {p}
    BY <1>1, <1>4 DEF OneToken
  <2>2. val["notfull"] = 0 /\ val["notempty"] = 0
    BY <1>1, <1>2, <1>4 DEF OneToken
  <2>3. Cardinality(Working(t)) = 1
    BY <2>1, FS_Singleton
  <2> QED
    BY <2>2, <2>3
<1> QED
  BY <1>3, <1>4

\* Of the programs that work with the same two sets exactly one has the right to the variable, or
\* it is in one of the sets, whoever else creates and removes objects of these keys meanwhile.
THEOREM OneProgramHasTheVariable == VarSpec => []OneRight
BY VarInvariant, OneRightHolds, PTL

\* exit_procedure leaves nothing in the kernel: the last program that ends removes what is left.
THEOREM NothingIsLeft == VarSpec => []NothingLeft
<1>1. VarInv => NothingLeft
  BY DEF VarInv, Owned, Removed, NothingLeft
<1> QED
  BY <1>1, VarInvariant, PTL

\* Every value is consumed once and none is overwritten before, also when programs are killed.
THEOREM EachValuePassedOnce == VarSpec => ValuePassedOnce
<1>1. ASSUME VarInv
      PROVE  \A p \in Procs : At(p, "access") /\ ~ late /\ ~ Mixed
                => (ids[p]["shared"] \in fresh) = (program[p] = "cons")
  <2> SUFFICES ASSUME NEW p \in Procs, At(p, "access"), ~ late, ~ Mixed
               PROVE  (ids[p]["shared"] \in fresh) = (program[p] = "cons")
    OBVIOUS
  <2>1. ids[p] \in triples /\ p \in Working(ids[p])
    BY <1>1 DEF VarInv, Equipped, Has, At, Working
  <2> QED
    BY <1>1, <2>1 DEF VarInv, Tokens, OneToken
<1>2. VarInv => [\A p \in Procs :
                    /\ At(p, "access") /\ todo'[p][1] = "signal"
                    /\ ~ late /\ ~ Mixed
                    => (ids[p]["shared"] \in fresh) = (program[p] = "cons")]_varVars
  BY <1>1
<1> QED
  BY <1>2, VarInvariant, PTL DEF ValuePassedOnce
-----------------------------------------------------------------------------
(***************************************************************************)
(* The result of send_sync of libsp.c, for any numbers of senders,         *)
(* receivers and retries.                                                  *)
(*                                                                         *)
(* An element of the queue is a message or an acknowledgement, and stays   *)
(* one in its first field whatever the senders reinsert: only a receiver   *)
(* that has the message in its hands makes an acknowledgement of it.       *)
(***************************************************************************)
Parties == Senders \cup Receivers
Hashes == {Text(s) : s \in Senders}
Pids == {Pid(s) : s \in Senders}
Digits == {Digit(n) : n \in 0 .. MAX_RETRY}

\* What passes through the queue: the retry counts that are written stay within MAX_RETRY.
Elements == (Hashes \cup Digits \cup Pids) \X (Hashes \cup Digits)

\* The senders whose message a receiver has, or has returned.
Taken ==
    {s \in Senders : \E r \in Receivers :
        \/ got[r] = <<Pid(s), Text(s)>>
        \/ \E k \in DOMAIN received[r] : received[r][k] = Text(s)}

\* A text travels with the process ID of its sender only, and comes back in an
\* acknowledgement only when a receiver has taken it.
Genuine(e, taken) ==
    \A s \in Senders : /\ e[2] = Text(s) => e[1] = Pid(s)
                       /\ e[1] = Text(s) => s \in taken

Typed ==
    /\ at \in [Parties -> SenderSteps \cup ReceiverSteps]
    /\ \A s \in Senders : at[s] \in SenderSteps
    /\ \A r \in Receivers : at[r] \in ReceiverSteps
    /\ got \in [Parties -> Elements \cup {<<>>}]
    /\ \A s \in Senders : at[s] \in {"check", "ok"} => got[s] \in Elements
    /\ \A r \in Receivers : at[r] \in {"acknowledge", "continue"} => got[r] \in Elements
    /\ received \in [Receivers -> Seq(Hashes \cup Digits)]
    /\ channel \in Seq(Elements)
    /\ stopped \subseteq Senders
    /\ retry \in [Senders -> [msg : 0 .. MAX_RETRY, my : 0 .. MAX_RETRY]]

\* The own retry count grows only below MAX_RETRY.
RetriesBounded == \A s \in Senders : at[s] = "again" => retry[s].my < MAX_RETRY

AllGenuine ==
    /\ \A k \in DOMAIN channel : Genuine(channel[k], Taken)
    /\ \A p \in Parties : got[p] # <<>> => Genuine(got[p], Taken)
    /\ \A r \in Receivers : at[r] = "receive" =>
         \A s \in Senders : got[r] = <<Pid(s), Text(s)>> =>
             \E k \in DOMAIN received[r] : received[r][k] = Text(s)
    /\ \A s \in Senders : at[s] = "ok" => Mine(s)

SyncInv == Typed /\ RetriesBounded /\ AllGenuine

\* Adding an element at the end of the queue, taking one from its head.
LEMMA AppendKeeps ==
    ASSUME NEW S, NEW q \in Seq(S), NEW e \in S
    PROVE  /\ Append(q, e) \in Seq(S)
           /\ \A k \in DOMAIN Append(q, e) :
                Append(q, e)[k] = e \/ \E j \in DOMAIN q : Append(q, e)[k] = q[j]
           /\ \A j \in DOMAIN q : j \in DOMAIN Append(q, e) /\ Append(q, e)[j] = q[j]
           /\ \E k \in DOMAIN Append(q, e) : Append(q, e)[k] = e
<1>1. /\ Append(q, e) \in Seq(S)
      /\ Len(Append(q, e)) = Len(q) + 1 /\ Len(q) \in Nat
      /\ DOMAIN q = 1 .. Len(q) /\ DOMAIN Append(q, e) = 1 .. Len(q) + 1
  OBVIOUS
<1>2. \A k \in 1 .. Len(q) + 1 : Append(q, e)[k] = IF k = Len(q) + 1 THEN e ELSE q[k]
  OBVIOUS
<1> QED
  BY <1>1, <1>2

LEMMA TailKeeps ==
    ASSUME NEW S, NEW q \in Seq(S), q # <<>>
    PROVE  /\ Tail(q) \in Seq(S) /\ Head(q) \in S
           /\ \E j \in DOMAIN q : Head(q) = q[j]
           /\ \A k \in DOMAIN Tail(q) : \E j \in DOMAIN q : Tail(q)[k] = q[j]
<1>1. /\ Len(q) \in Nat \ {0} /\ DOMAIN q = 1 .. Len(q)
      /\ Tail(q) \in Seq(S) /\ Len(Tail(q)) = Len(q) - 1
      /\ DOMAIN Tail(q) = 1 .. Len(q) - 1
      /\ Head(q) = q[1] /\ Head(q) \in S
  OBVIOUS
<1>2. \A k \in 1 .. Len(q) - 1 : Tail(q)[k] = q[k + 1]
  OBVIOUS
<1> QED
  BY <1>1, <1>2

\* The same of the channel, and of what a receiver has returned.
LEMMA ChannelAppend ==
    ASSUME NEW q \in Seq(Elements), NEW e \in Elements
    PROVE  /\ Append(q, e) \in Seq(Elements)
           /\ \A k \in DOMAIN Append(q, e) :
                Append(q, e)[k] = e \/ \E j \in DOMAIN q : Append(q, e)[k] = q[j]
BY AppendKeeps

LEMMA ReceivedAppend ==
    ASSUME NEW q \in Seq(Hashes \cup Digits), NEW e \in Hashes \cup Digits
    PROVE  /\ Append(q, e) \in Seq(Hashes \cup Digits)
           /\ \A j \in DOMAIN q : j \in DOMAIN Append(q, e) /\ Append(q, e)[j] = q[j]
           /\ \E k \in DOMAIN Append(q, e) : Append(q, e)[k] = e
BY AppendKeeps

LEMMA ChannelTail ==
    ASSUME NEW q \in Seq(Elements), q # <<>>
    PROVE  /\ Tail(q) \in Seq(Elements) /\ Head(q) \in Elements
           /\ \E j \in DOMAIN q : Head(q) = q[j]
           /\ \A k \in DOMAIN Tail(q) : \E j \in DOMAIN q : Tail(q)[k] = q[j]
BY TailKeeps

\* The three kinds of fields differ, and name the sender that they are of.
LEMMA Kinds ==
    /\ \A s, t \in Senders : Text(s) = Text(t) \/ Pid(s) = Pid(t) => s = t
    /\ \A s, t \in Senders : Text(s) # Pid(t)
    /\ \A s \in Senders, d \in Digits : Text(s) # d /\ Pid(s) # d
    /\ \A d \in Digits : d[2] \in 0 .. MAX_RETRY
    /\ \A t \in Hashes \cup Digits : IsNumber(t) => t \in Digits
BY DEF Text, Pid, Digit, Digits, Hashes, IsNumber

LEMMA ElementFields ==
    ASSUME NEW e \in Elements
    PROVE  /\ e[1] \in Hashes \cup Digits \cup Pids /\ e[2] \in Hashes \cup Digits
           /\ e = <<e[1], e[2]>> /\ e # <<>>
BY DEF Elements

LEMMA NewElement ==
    ASSUME NEW a \in Hashes \cup Digits \cup Pids, NEW b \in Hashes \cup Digits
    PROVE  <<a, b>> \in Elements /\ <<a, b>>[1] = a /\ <<a, b>>[2] = b
BY DEF Elements

\* The initial state.
LEMMA SyncInitInv == SyncInit => SyncInv
<1> SUFFICES ASSUME SyncInit PROVE SyncInv
  OBVIOUS
<1>1. Typed
  BY SyncProcsAssumption, SyncBoundsAssumption
     DEF SyncInit, Typed, Parties, SenderSteps, ReceiverSteps
<1>2. RetriesBounded
  BY DEF SyncInit, RetriesBounded
<1>3. AllGenuine
  BY SyncProcsAssumption DEF SyncInit, AllGenuine, Parties
<1> QED
  BY <1>1, <1>2, <1>3 DEF SyncInv
-----------------------------------------------------------------------------
\* The steps of the senders keep the types and the bounds.
LEMMA SenderTyped ==
    ASSUME SyncInv, NEW s \in Senders, send_sync(s)
    PROVE  Typed' /\ RetriesBounded'
<1> USE SyncProcsAssumption, SyncBoundsAssumption DEF SyncInv
<1>1. s \in Parties /\ s \notin Receivers
  BY DEF Parties
<1>2. CASE Send(s)
  <2>1. Pid(s) \in Pids /\ Text(s) \in Hashes
    BY DEF Pids, Hashes
  <2>2. channel' \in Seq(Elements)
    BY <1>2, <2>1, NewElement, ChannelAppend DEF Send, Typed
  <2> QED
    BY <1>1, <1>2, <2>2 DEF Send, MoveTo, Typed, RetriesBounded, SenderSteps, ReceiverSteps
<1>3. CASE Stop(s)
  BY <1>1, <1>3 DEF Stop, MoveTo, Typed, RetriesBounded, SenderSteps, ReceiverSteps
<1>4. CASE ReceiveAck(s)
  <2>1. Tail(channel) \in Seq(Elements) /\ Head(channel) \in Elements
    BY <1>4, ChannelTail DEF ReceiveAck, Typed
  <2>2. IsNumber(Head(channel)[2]) => Head(channel)[2][2] \in 0 .. MAX_RETRY
    BY <2>1, ElementFields, Kinds
  <2>3. at[s] = "again" => retry[s].my + 1 \in 0 .. MAX_RETRY
    BY DEF Typed, RetriesBounded
  <2>4. retry' \in [Senders -> [msg : 0 .. MAX_RETRY, my : 0 .. MAX_RETRY]]
    BY <1>4, <2>2, <2>3 DEF ReceiveAck, Typed
  <2>5. got' \in [Parties -> Elements \cup {<<>>}] /\ got'[s] \in Elements
    BY <1>1, <1>4, <2>1 DEF ReceiveAck, Typed
  <2>6. /\ \A t \in Senders : at'[t] \in {"check", "ok"} => got'[t] \in Elements
        /\ \A r \in Receivers : at'[r] \in {"acknowledge", "continue"} => got'[r] \in Elements
    BY <1>1, <1>4, <2>5 DEF ReceiveAck, MoveTo, Typed, Parties
  <2>7. /\ at' \in [Parties -> SenderSteps \cup ReceiverSteps]
        /\ \A t \in Senders : at'[t] \in SenderSteps
        /\ \A r \in Receivers : at'[r] \in ReceiverSteps
    BY <1>1, <1>4 DEF ReceiveAck, MoveTo, Typed, SenderSteps, ReceiverSteps
  <2>8. RetriesBounded'
    BY <1>1, <1>4 DEF ReceiveAck, MoveTo, Typed, RetriesBounded, Parties
  <2> QED
    BY <1>4, <2>1, <2>4, <2>5, <2>6, <2>7, <2>8 DEF ReceiveAck, Typed
<1>5. CASE CheckAck(s)
  <2>1. got[s] \in Elements
    BY <1>5 DEF CheckAck, Typed
  <2>2. ASSUME retry[s].msg < MAX_RETRY
        PROVE  <<got[s][1], Digit(retry[s].msg + 1)>> \in Elements
    <3>1. retry[s].msg + 1 \in 0 .. MAX_RETRY
      BY <2>2 DEF Typed
    <3>2. Digit(retry[s].msg + 1) \in Digits
      BY <3>1 DEF Digits
    <3> QED
      BY <2>1, <3>2, ElementFields, NewElement
  <2>3. channel' \in Seq(Elements)
    BY <1>5, <2>2, ChannelAppend DEF CheckAck, Typed
  <2>4. at'[s] \in {"ok", "failed", "again"}
    BY <1>1, <1>5 DEF CheckAck, MoveTo, Typed
  <2>5. at'[s] = "again" => retry[s].my < MAX_RETRY
    BY <1>1, <1>5 DEF CheckAck, MoveTo, Typed
  <2>6. /\ at' \in [Parties -> SenderSteps \cup ReceiverSteps]
        /\ \A q \in Parties \ {s} : at'[q] = at[q]
    BY <1>1, <1>5 DEF CheckAck, MoveTo, Typed, SenderSteps
  <2>7. RetriesBounded'
    BY <1>5, <2>5, <2>6 DEF CheckAck, RetriesBounded, Parties
  <2> QED
    BY <1>1, <1>5, <2>1, <2>3, <2>4, <2>6, <2>7 DEF CheckAck, Typed, SenderSteps, Parties
<1> QED
  BY <1>2, <1>3, <1>4, <1>5 DEF send_sync

\* The steps of the receivers.
LEMMA ReceiverTyped ==
    ASSUME SyncInv, NEW r \in Receivers, receive_sync(r)
    PROVE  Typed' /\ RetriesBounded'
<1> USE SyncProcsAssumption, SyncBoundsAssumption DEF SyncInv
<1>1. r \in Parties /\ r \notin Senders
  BY DEF Parties
<1>2. CASE Receive(r)
  <2>1. Tail(channel) \in Seq(Elements) /\ Head(channel) \in Elements
    BY <1>2, ChannelTail DEF Receive, Typed
  <2> QED
    BY <1>1, <1>2, <2>1
       DEF Receive, MoveTo, Typed, RetriesBounded, Parties, SenderSteps, ReceiverSteps
<1>3. CASE Acknowledge(r)
  <2>1. Digit(0) \in Digits
    BY DEF Digits
  <2>2. got[r] \in Elements
    BY <1>3 DEF Acknowledge, Typed
  <2>3. <<got[r][2], Digit(0)>> \in Elements
    BY <2>1, <2>2, ElementFields, NewElement
  <2>4. channel' \in Seq(Elements)
    BY <1>3, <2>3, ChannelAppend DEF Acknowledge, Typed
  <2> QED
    BY <1>1, <1>3, <2>2, <2>4
       DEF Acknowledge, MoveTo, Typed, RetriesBounded, Parties, SenderSteps, ReceiverSteps
<1>4. CASE Wake(r)
  <2>1. got[r][2] \in Hashes \cup Digits
    BY <1>4, ElementFields DEF Wake, Typed
  <2>2. Append(received[r], got[r][2]) \in Seq(Hashes \cup Digits)
    BY <2>1, ReceivedAppend DEF Typed
  <2>3. received' \in [Receivers -> Seq(Hashes \cup Digits)]
    BY <1>4, <2>2 DEF Wake, Typed
  <2> QED
    BY <1>1, <1>4, <2>3
       DEF Wake, MoveTo, Typed, RetriesBounded, Parties, SenderSteps, ReceiverSteps
<1> QED
  BY <1>2, <1>3, <1>4 DEF receive_sync
-----------------------------------------------------------------------------
\* A message that has been taken stays so.
LEMMA TakenStays ==
    ASSUME SyncInv, [SyncNext]_syncVars, NEW s \in Senders, s \in Taken
    PROVE  s \in Taken'
<1> USE SyncProcsAssumption DEF SyncInv
<1>1. CASE UNCHANGED syncVars
  BY <1>1 DEF syncVars, Taken
<1>2. ASSUME NEW t \in Senders, send_sync(t) PROVE s \in Taken'
  <2>1. received' = received /\ \A r \in Receivers : got'[r] = got[r]
    BY <1>2 DEF send_sync, Send, Stop, ReceiveAck, CheckAck, Typed, Parties
  <2> QED
    BY <2>1 DEF Taken
<1>3. ASSUME NEW q \in Receivers, receive_sync(q) PROVE s \in Taken'
  <2>1. PICK r \in Receivers :
          \/ got[r] = <<Pid(s), Text(s)>>
          \/ \E k \in DOMAIN received[r] : received[r][k] = Text(s)
    BY DEF Taken
  <2>2. ASSUME NEW k \in DOMAIN received[r], received[r][k] = Text(s) PROVE s \in Taken'
    <3>1. CASE Wake(q) /\ q = r
      <4>1. got[r][2] \in Hashes \cup Digits
        BY <3>1, ElementFields DEF Wake, Typed
      <4>2. received'[r] = Append(received[r], got[r][2])
        BY <3>1 DEF Wake, Typed
      <4>3. k \in DOMAIN received'[r] /\ received'[r][k] = Text(s)
        BY <2>2, <4>1, <4>2, ReceivedAppend DEF Typed
      <4> QED
        BY <4>3 DEF Taken
    <3>2. CASE ~ (Wake(q) /\ q = r)
      <4>1. received'[r] = received[r]
        BY <1>3, <3>2 DEF receive_sync, Receive, Acknowledge, Wake, Typed
      <4> QED
        BY <2>2, <4>1 DEF Taken
    <3> QED
      BY <3>1, <3>2
  <2>3. CASE got[r] = <<Pid(s), Text(s)>>
    <3>1. CASE Receive(q) /\ q = r
      <4>1. \E k \in DOMAIN received[r] : received[r][k] = Text(s)
        BY <2>3, <3>1 DEF AllGenuine, Receive
      <4> QED
        BY <2>2, <4>1
    <3>2. CASE ~ (Receive(q) /\ q = r)
      <4>1. got'[r] = got[r]
        BY <1>3, <3>2 DEF receive_sync, Receive, Acknowledge, Wake, Typed, Parties
      <4> QED
        BY <2>3, <4>1 DEF Taken
    <3> QED
      BY <3>1, <3>2
  <2> QED
    BY <2>1, <2>2, <2>3
<1> QED
  BY <1>1, <1>2, <1>3 DEF SyncNext

LEMMA GenuineStays ==
    ASSUME SyncInv, [SyncNext]_syncVars
    PROVE  \A e : Genuine(e, Taken) => Genuine(e, Taken')
<1>1. Taken \subseteq Taken'
  BY TakenStays DEF Taken
<1> QED
  BY <1>1 DEF Genuine

\* The steps of the senders: what they reinsert is a genuine acknowledgement or message.
LEMMA SenderGenuine ==
    ASSUME SyncInv, NEW s \in Senders, send_sync(s)
    PROVE  AllGenuine'
<1> USE SyncProcsAssumption, SyncBoundsAssumption DEF SyncInv
<1>1. s \in Parties /\ s \notin Receivers /\ [SyncNext]_syncVars
  BY DEF Parties, SyncNext
<1>2. /\ \A r \in Receivers : at'[r] = at[r] /\ got'[r] = got[r] /\ received'[r] = received[r]
      /\ \A t \in Senders \ {s} : at'[t] = at[t] /\ got'[t] = got[t]
  BY DEF send_sync, Send, Stop, ReceiveAck, CheckAck, MoveTo, Typed, Parties
<1>3. \A r \in Receivers : at'[r] = "receive" =>
        \A t \in Senders : got'[r] = <<Pid(t), Text(t)>> =>
             \E k \in DOMAIN received'[r] : received'[r][k] = Text(t)
  BY <1>2 DEF AllGenuine
<1>4. \A k \in DOMAIN channel' : Genuine(channel'[k], Taken')
  <2>1. ASSUME NEW e \in Elements, Genuine(e, Taken'), channel' = Append(channel, e)
        PROVE  \A k \in DOMAIN channel' : Genuine(channel'[k], Taken')
    <3>1. \A j \in DOMAIN channel : Genuine(channel[j], Taken')
      BY <1>1, GenuineStays DEF AllGenuine
    <3>2. \A k \in DOMAIN channel' : channel'[k] = e \/ \E j \in DOMAIN channel : channel'[k] = channel[j]
      BY <2>1, ChannelAppend DEF Typed
    <3> QED
      BY <2>1, <3>1, <3>2
  <2>2. CASE Send(s)
    <3>1. <<Pid(s), Text(s)>> \in Elements /\ channel' = Append(channel, <<Pid(s), Text(s)>>)
      BY <2>2, NewElement DEF Send, Pids, Hashes
    <3>2. Genuine(<<Pid(s), Text(s)>>, Taken')
      BY Kinds DEF Genuine
    <3> QED
      BY <2>1, <3>1, <3>2
  <2>3. CASE Stop(s)
    BY <1>1, <2>3, GenuineStays DEF Stop, AllGenuine
  <2>4. CASE ReceiveAck(s)
    <3>1. channel \in Seq(Elements) /\ channel # <<>> /\ channel' = Tail(channel)
      BY <2>4 DEF ReceiveAck, Typed
    <3>2. \A k \in DOMAIN channel' : \E j \in DOMAIN channel : channel'[k] = channel[j]
      BY <3>1, ChannelTail
    <3> QED
      BY <1>1, <3>2, GenuineStays DEF AllGenuine
  <2>5. CASE CheckAck(s)
    <3>1. CASE channel' = channel
      BY <1>1, <3>1, GenuineStays DEF AllGenuine
    <3>2. CASE /\ retry[s].msg < MAX_RETRY
               /\ channel' = Append(channel, <<got[s][1], Digit(retry[s].msg + 1)>>)
      <4> DEFINE e == <<got[s][1], Digit(retry[s].msg + 1)>>
      <4>0. got[s] \in Elements /\ retry[s].msg + 1 \in 0 .. MAX_RETRY
        BY <2>5, <3>2 DEF CheckAck, Typed
      <4>1. got[s] \in Elements /\ Digit(retry[s].msg + 1) \in Digits
        BY <4>0 DEF Digits
      <4>2. e \in Elements /\ e[1] = got[s][1] /\ e[2] \in Digits
        BY <4>1, ElementFields, NewElement
      <4>3. Genuine(got[s], Taken)
        BY <1>1, <4>1, ElementFields DEF AllGenuine
      <4> HIDE DEF e
      <4>4. Genuine(e, Taken)
        BY <4>2, <4>3, Kinds DEF Genuine
      <4> QED
        BY <1>1, <2>1, <3>2, <4>2, <4>4, GenuineStays DEF e
    <3> QED
      BY <2>5, <3>1, <3>2 DEF CheckAck
  <2> QED
    BY <2>2, <2>3, <2>4, <2>5 DEF send_sync
<1>5. got'[s] # <<>> => Genuine(got'[s], Taken')
  <2>1. CASE ReceiveAck(s)
    <3>1. got'[s] = Head(channel) /\ Genuine(Head(channel), Taken)
      BY <1>1, <2>1, ChannelTail DEF ReceiveAck, Typed, AllGenuine
    <3> QED
      BY <1>1, <3>1, GenuineStays
  <2>2. CASE ~ ReceiveAck(s)
    BY <1>1, <2>2, GenuineStays DEF send_sync, Send, Stop, CheckAck, AllGenuine
  <2> QED
    BY <2>1, <2>2
<1>6. \A p \in Parties : got'[p] # <<>> => Genuine(got'[p], Taken')
  BY <1>1, <1>2, <1>5, GenuineStays DEF AllGenuine, Parties
<1>7. \A t \in Senders : at'[t] = "ok" => Mine(t)'
  <2>1. at'[s] = "ok" => Mine(s)'
    BY <1>1 DEF send_sync, Send, Stop, ReceiveAck, CheckAck, MoveTo, Typed, Mine, AllGenuine
  <2> QED
    BY <1>2, <2>1 DEF AllGenuine, Mine
<1> QED
  BY <1>3, <1>4, <1>6, <1>7 DEF AllGenuine

\* The steps of the receivers: an acknowledgement is of what they have.
LEMMA ReceiverGenuine ==
    ASSUME SyncInv, NEW r \in Receivers, receive_sync(r)
    PROVE  AllGenuine'
<1> USE SyncProcsAssumption, SyncBoundsAssumption DEF SyncInv
<1>1. r \in Parties /\ r \notin Senders /\ [SyncNext]_syncVars
  BY DEF Parties, SyncNext
<1>2. \A p \in Parties \ {r} : at'[p] = at[p] /\ got'[p] = got[p]
  BY DEF receive_sync, Receive, Acknowledge, Wake, MoveTo, Typed
<1>3. \A q \in Receivers \ {r} : received'[q] = received[q]
  BY DEF receive_sync, Receive, Acknowledge, Wake, Typed
<1>4. \A k \in DOMAIN channel' : Genuine(channel'[k], Taken')
  <2>1. CASE Receive(r)
    <3>1. channel \in Seq(Elements) /\ channel # <<>> /\ channel' = Tail(channel)
      BY <2>1 DEF Receive, Typed
    <3>2. \A k \in DOMAIN channel' : \E j \in DOMAIN channel : channel'[k] = channel[j]
      BY <3>1, ChannelTail
    <3> QED
      BY <1>1, <3>2, GenuineStays DEF AllGenuine
  <2>2. CASE Acknowledge(r)
    <3> DEFINE e == <<got[r][2], Digit(0)>>
    <3>1. got[r] \in Elements /\ Digit(0) \in Digits
      BY <2>2 DEF Acknowledge, Typed, Digits
    <3>2. e \in Elements /\ e[1] = got[r][2] /\ e[2] \in Digits
      BY <3>1, ElementFields, NewElement
    <3>3. Genuine(got[r], Taken) /\ got[r] = <<got[r][1], got[r][2]>>
      BY <1>1, <3>1, ElementFields DEF AllGenuine
    <3>4. channel' = Append(channel, e)
      BY <2>2 DEF Acknowledge
    <3> HIDE DEF e
    <3>5. Genuine(e, Taken)
      <4>1. ASSUME NEW s \in Senders, e[1] = Text(s) PROVE s \in Taken
        BY <3>2, <3>3, <4>1 DEF Genuine, Taken
      <4> QED
        BY <3>2, <4>1, Kinds DEF Genuine
    <3> QED
      <4>1. channel \in Seq(Elements) /\ \A k \in DOMAIN channel : Genuine(channel[k], Taken')
        BY <1>1, GenuineStays DEF Typed, AllGenuine
      <4>2. Genuine(e, Taken')
        BY <1>1, <3>5, GenuineStays
      <4> QED
        BY <3>2, <3>4, <4>1, <4>2, ChannelAppend
  <2>3. CASE Wake(r)
    BY <1>1, <2>3, GenuineStays DEF Wake, AllGenuine
  <2> QED
    BY <2>1, <2>2, <2>3 DEF receive_sync
<1>5. got'[r] # <<>> => Genuine(got'[r], Taken')
  <2>1. CASE Receive(r)
    <3>1. got'[r] = Head(channel) /\ Genuine(Head(channel), Taken)
      BY <1>1, <2>1, ChannelTail DEF Receive, Typed, AllGenuine
    <3> QED
      BY <1>1, <3>1, GenuineStays
  <2>2. CASE Acknowledge(r) \/ Wake(r)
    BY <1>1, <2>2, GenuineStays DEF Acknowledge, Wake, AllGenuine
  <2> QED
    BY <2>1, <2>2 DEF receive_sync
<1>6. \A p \in Parties : got'[p] # <<>> => Genuine(got'[p], Taken')
  BY <1>2, <1>5, GenuineStays, <1>1 DEF AllGenuine
<1>7. \A q \in Receivers : at'[q] = "receive" =>
        \A s \in Senders : got'[q] = <<Pid(s), Text(s)>> =>
             \E k \in DOMAIN received'[q] : received'[q][k] = Text(s)
  <2>1. ASSUME at'[r] = "receive", NEW s \in Senders, got'[r] = <<Pid(s), Text(s)>>
        PROVE  \E k \in DOMAIN received'[r] : received'[r][k] = Text(s)
    <3>1. Wake(r)
      BY <1>1, <2>1 DEF receive_sync, Receive, Acknowledge, MoveTo, Typed
    <3>2. got[r] = <<Pid(s), Text(s)>> /\ got[r][2] = Text(s) /\ Text(s) \in Hashes \cup Digits
      BY <2>1, <3>1 DEF Wake, Hashes
    <3>3. received'[r] = Append(received[r], Text(s))
      BY <3>1, <3>2 DEF Wake, Typed
    <3> QED
      BY <3>2, <3>3, ReceivedAppend DEF Typed
  <2> QED
    BY <1>2, <1>3, <2>1 DEF AllGenuine, Parties
<1>8. \A s \in Senders : at'[s] = "ok" => Mine(s)'
  BY <1>1, <1>2 DEF AllGenuine, Mine, Parties
<1> QED
  BY <1>4, <1>6, <1>7, <1>8 DEF AllGenuine

LEMMA SyncNextInv == SyncInv /\ [SyncNext]_syncVars => SyncInv'
<1> SUFFICES ASSUME SyncInv, [SyncNext]_syncVars PROVE SyncInv'
  OBVIOUS
<1>1. CASE UNCHANGED syncVars
  <2>1. Typed' /\ RetriesBounded'
    BY <1>1 DEF syncVars, SyncInv, Typed, RetriesBounded
  <2>2. Taken' = Taken
    BY <1>1 DEF syncVars, Taken
  <2>3. AllGenuine'
    BY <1>1, <2>2 DEF syncVars, SyncInv, AllGenuine, Genuine, Mine
  <2> QED
    BY <2>1, <2>3 DEF SyncInv
<1>2. ASSUME NEW s \in Senders, send_sync(s) PROVE SyncInv'
  BY <1>2, SenderTyped, SenderGenuine DEF SyncInv
<1>3. ASSUME NEW r \in Receivers, receive_sync(r) PROVE SyncInv'
  BY <1>3, ReceiverTyped, ReceiverGenuine DEF SyncInv
<1> QED
  BY <1>1, <1>2, <1>3 DEF SyncNext

LEMMA SyncInvariance == SyncSpec => []SyncInv
BY SyncInitInv, SyncNextInv, PTL DEF SyncSpec

\* Whatever is taken for an acknowledgement and reinserted, the retry counts stay within
\* MAX_RETRY and the queue holds messages and acknowledgements only.
THEOREM RetriesAreBounded == SyncSpec => []SyncTypeOK
<1>1. SyncInv => SyncTypeOK
  <2> SUFFICES ASSUME SyncInv PROVE SyncTypeOK
    OBVIOUS
  <2>1. Hashes \cup Digits \subseteq Texts
    BY SyncBoundsAssumption DEF Hashes, Digits, Digit, Texts, Retries
  <2>2. Elements \subseteq Items
    BY <2>1 DEF Elements, Items, Pids
  <2>3. channel \in Seq(Items) /\ \A r \in Receivers : received[r] \in Seq(Texts)
    BY <2>1, <2>2 DEF SyncInv, Typed
  <2> QED
    BY <2>2, <2>3 DEF SyncInv, Typed, SyncTypeOK, Parties
<1> QED
  BY <1>1, SyncInvariance, PTL

\* send_sync returns 0 only when a receiver has taken this very message.
THEOREM OkIsReceived == SyncSpec => []OkMeansReceived
<1>1. SyncInv => OkMeansReceived
  <2> SUFFICES ASSUME SyncInv, NEW s \in Senders, at[s] = "ok" PROVE s \in Taken
    BY DEF OkMeansReceived, Taken
  <2>1. got[s] \in Elements /\ got[s][1] = Text(s)
    BY DEF SyncInv, Typed, AllGenuine, Mine
  <2>2. Genuine(got[s], Taken)
    BY <2>1, ElementFields DEF SyncInv, AllGenuine, Parties
  <2> QED
    BY <2>1, <2>2 DEF Genuine
<1> QED
  BY <1>1, SyncInvariance, PTL
=============================================================================
