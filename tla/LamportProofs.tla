---------------------------- MODULE LamportProofs ----------------------------
(***************************************************************************)
(* Mutual exclusion and first-come-first-served order of the bakery lock   *)
(* of lamport.c on sequentially consistent memory, for any number of       *)
(* processes.                                                              *)
(***************************************************************************)
EXTENDS Lamport, TLAPS

Choosing == {"compare", "copy", "ticket"}

\* Process j, in the doorway, has not missed the number of i: what it has scanned
\* of it is in its maximum, even if it is about to copy an element once more.
HasSeen(j, i) ==
    /\ pc[j] \in {"compare", "copy"} /\ i < scan[j] => max[j] >= number[i]
    /\ pc[j] = "copy" /\ i < scan[j] => number[scan[j]] > max[j]
    /\ pc[j] = "ticket" => max[j] >= number[i]
    /\ pc[j] = "ready" => number[j] > number[i]

\* The customer with the lower number goes first, the lower id among equals.
Precedes(i, j) == number[i] < number[j] \/ (number[i] = number[j] /\ i < j)

\* In the loop of Lamport_lock, i is done with customer j; i has seen entering[j] = 0.
Passed(i, j) == pc[i] = "critical" \/ (pc[i] \in Waiting /\ j < scan[i])
Facing(i, j) == pc[i] \in {"zero", "less", "equal"} /\ scan[i] = j

Types ==
    /\ entering \in [Procs -> {0, 1}]
    /\ number \in [Procs -> Nat]
    /\ pc \in [Procs -> Steps]
    /\ max \in [Procs -> Nat]
    /\ scan \in [Procs -> Procs]
    /\ ahead \in [Procs -> SUBSET Procs]
    /\ pending \in [Procs -> {<<>>}]

NumberInv == \A i \in Procs : number[i] = 0 <=> pc[i] \in Choosing \cup {"out"}
EnteringInv == \A i \in Procs : entering[i] = 1 <=> pc[i] \in Choosing \cup {"ready"}
ScanInv == \A i \in Procs : pc[i] \in {"ticket", "ready"} => scan[i] = 0
OrderInv(i, j) ==
    /\ Passed(i, j) \/ Facing(i, j) => HasSeen(j, i)
    /\ Facing(i, j) /\ pc[i] = "equal" => number[j] = 0 \/ number[j] >= number[i]
    /\ Passed(i, j) => number[j] = 0 \/ Precedes(i, j)
AheadInv(i, j) ==
    j \in ahead[i] =>
        /\ j # i /\ pc[j] \in Waiting /\ pc[i] # "out"
        /\ HasSeen(i, j)
        /\ pc[i] \in Waiting \cup {"critical"} => number[i] > number[j]

\* The inductive invariant.
IInv ==
    /\ Types
    /\ NumberInv
    /\ EnteringInv
    /\ ScanInv
    /\ \A i, j \in Procs : i # j => OrderInv(i, j)
    /\ \A i, j \in Procs : AheadInv(i, j)
-----------------------------------------------------------------------------
(* Without buffers a load sees memory and a store changes it at once. *)

LEMMA LoadsMemory ==
    ASSUME NEW i \in Procs, NEW j \in Procs, pending[i] = <<>>
    PROVE  LoadNumber(i, j) = number[j] /\ LoadEntering(i, j) = entering[j]
<1>1. DOMAIN pending[i] = {}
  OBVIOUS
<1>2. \A array, v : Stored(i, array, v) = v
  BY <1>1 DEF Stored
<1> QED
  BY <1>2 DEF LoadNumber, LoadEntering

LEMMA StoresMemory ==
    ASSUME BufferSize = 0, NEW i, NEW v
    PROVE  /\ Store(i, "number", v) =>
                number' = [number EXCEPT ![i] = v] /\ UNCHANGED <<entering, pending>>
           /\ Store(i, "entering", v) =>
                entering' = [entering EXCEPT ![i] = v] /\ UNCHANGED <<number, pending>>
BY DEF Store, ToMemory

LEMMA NextIndex == ASSUME NEW x \in Procs, x + 1 # N PROVE x + 1 \in Procs
BY NAssumption DEF Procs

\* Going on to the next element keeps the index within the array.
LEMMA NextElementType ==
    ASSUME Types, NEW k \in Procs, NextElement(k)
    PROVE  scan' \in [Procs -> Procs] /\ pc' \in [Procs -> Steps]
<1>1. scan[k] \in Procs /\ (scan[k] + 1 # N => scan[k] + 1 \in Procs) /\ 0 \in Procs
  <2>1. scan[k] \in Procs
    BY DEF Types
  <2> QED
    BY <2>1, NAssumption DEF Procs
<1>2. scan' \in [Procs -> Procs]
  BY <1>1 DEF Types, NextElement
<1>3. pc' \in [Procs -> Steps]
  BY DEF Types, NextElement, Steps
<1> QED
  BY <1>2, <1>3
-----------------------------------------------------------------------------
(* One lemma for each step of the lock. *)

LEMMA LockStep ==
    ASSUME BufferSize = 0, IInv, NEW k \in Procs, Lamport_lock(k)
    PROVE  IInv'
<1> USE DEF IInv, Types
<1>1. /\ pc[k] = "out"
      /\ entering' = [entering EXCEPT ![k] = 1]
      /\ pc' = [pc EXCEPT ![k] = "compare"]
      /\ max' = [max EXCEPT ![k] = 0]
      /\ scan' = [scan EXCEPT ![k] = 0]
      /\ ahead' = [ahead EXCEPT ![k] = {j \in Procs : pc[j] \in Waiting}]
      /\ UNCHANGED <<number, pending>>
  BY StoresMemory DEF Lamport_lock
<1>2. Types'
  <2>1. {j \in Procs : pc[j] \in Waiting} \in SUBSET Procs
    OBVIOUS
  <2>2. ahead' \in [Procs -> SUBSET Procs]
    BY <1>1, <2>1
  <2>3. 0 \in Procs
    BY NAssumption DEF Procs
  <2>4. scan' \in [Procs -> Procs] /\ pc' \in [Procs -> Steps]
    BY <1>1, <2>3 DEF Steps
  <2> QED
    BY <1>1, <2>2, <2>4
<1>3. NumberInv' /\ EnteringInv' /\ ScanInv'
  BY <1>1 DEF NumberInv, EnteringInv, ScanInv, Choosing
<1>4. ASSUME NEW i \in Procs, NEW j \in Procs, i # j PROVE OrderInv(i, j)'
  BY <1>1, <1>4 DEF OrderInv, HasSeen, Passed, Facing, Precedes, Waiting, Procs
<1>5. ASSUME NEW i \in Procs, NEW j \in Procs PROVE AheadInv(i, j)'
  BY <1>1 DEF AheadInv, HasSeen, Waiting, Procs
<1> QED
  BY <1>2, <1>3, <1>4, <1>5

LEMMA CompareStep ==
    ASSUME BufferSize = 0, IInv, NEW k \in Procs, Compare(k)
    PROVE  IInv'
<1> USE DEF IInv, Types
<1>1. /\ pc[k] = "compare"
      /\ UNCHANGED <<entering, number, pending, max, ahead>>
      /\ \/ /\ number[scan[k]] > max[k]
            /\ pc' = [pc EXCEPT ![k] = "copy"]
            /\ UNCHANGED scan
         \/ /\ ~ (number[scan[k]] > max[k])
            /\ NextElement(k)
  BY LoadsMemory DEF Compare
<1>2. CASE number[scan[k]] > max[k] /\ pc' = [pc EXCEPT ![k] = "copy"] /\ UNCHANGED scan
  <2>1. Types'
    BY <1>1, <1>2 DEF Steps
  <2>2. NumberInv' /\ EnteringInv' /\ ScanInv'
    BY <1>1, <1>2 DEF NumberInv, EnteringInv, ScanInv, Choosing
  <2>3. ASSUME NEW i \in Procs, NEW j \in Procs, i # j PROVE OrderInv(i, j)'
    BY <1>1, <1>2, <2>3 DEF OrderInv, HasSeen, Passed, Facing, Precedes, Waiting, Procs
  <2>4. ASSUME NEW i \in Procs, NEW j \in Procs PROVE AheadInv(i, j)'
    BY <1>1, <1>2 DEF AheadInv, HasSeen, Waiting, Procs
  <2> QED
    BY <2>1, <2>2, <2>3, <2>4
<1>3. CASE ~ (number[scan[k]] > max[k]) /\ NextElement(k)
  <2>1. Types'
    BY <1>1, <1>3, NextElementType
  <2>2. NumberInv' /\ EnteringInv' /\ ScanInv'
    BY <1>1, <1>3 DEF NumberInv, EnteringInv, ScanInv, Choosing, NextElement
  <2>3. ASSUME NEW i \in Procs, NEW j \in Procs, i # j PROVE OrderInv(i, j)'
    BY <1>1, <1>3, <2>3
       DEF OrderInv, HasSeen, Passed, Facing, Precedes, Waiting, Procs, NextElement
  <2>4. ASSUME NEW i \in Procs, NEW j \in Procs PROVE AheadInv(i, j)'
    BY <1>1, <1>3 DEF AheadInv, HasSeen, Waiting, Procs, NextElement
  <2> QED
    BY <2>1, <2>2, <2>3, <2>4
<1> QED
  BY <1>1, <1>2, <1>3

LEMMA CopyStep ==
    ASSUME BufferSize = 0, IInv, NEW k \in Procs, Copy(k)
    PROVE  IInv'
<1> USE DEF IInv, Types
<1>1. /\ pc[k] = "copy"
      /\ max' = [max EXCEPT ![k] = number[scan[k]]]
      /\ NextElement(k)
      /\ UNCHANGED <<entering, number, pending, ahead>>
  BY LoadsMemory DEF Copy
<1>2. Types'
  BY <1>1, NextElementType
<1>3. NumberInv' /\ EnteringInv' /\ ScanInv'
  BY <1>1 DEF NumberInv, EnteringInv, ScanInv, Choosing, NextElement
<1>4. ASSUME NEW i \in Procs, HasSeen(k, i) PROVE HasSeen(k, i)'
  \* The element copied is the number of i, or above one that k has seen before.
  <2>1. i <= scan[k] => number[scan[k]] >= number[i]
    <3>1. scan[k] \in Procs /\ i \in Int /\ scan[k] \in Int
      BY DEF Procs
    <3>2. number[i] \in Nat /\ number[scan[k]] \in Nat /\ max[k] \in Nat
      BY <3>1
    <3>3. i < scan[k] => max[k] >= number[i] /\ number[scan[k]] > max[k]
      BY <1>1, <1>4 DEF HasSeen
    <3>4. i = scan[k] => number[scan[k]] >= number[i]
      BY <3>2
    <3> QED
      BY <3>1, <3>2, <3>3, <3>4
  <2>2. i < scan'[k] \/ pc'[k] = "ticket" => i <= scan[k]
    BY <1>1 DEF NextElement, Procs
  <2>3. max'[k] = number[scan[k]] /\ pc'[k] \in {"compare", "ticket"}
    BY <1>1 DEF NextElement
  <2> QED
    BY <1>1, <2>1, <2>2, <2>3 DEF HasSeen
<1>5. ASSUME NEW i \in Procs, NEW j \in Procs, i # k, HasSeen(i, j) PROVE HasSeen(i, j)'
  BY <1>1, <1>5 DEF HasSeen, NextElement
<1>6. ASSUME NEW i \in Procs, NEW j \in Procs, i # j PROVE OrderInv(i, j)'
  BY <1>1, <1>4, <1>5, <1>6 DEF OrderInv, Passed, Facing, Precedes, Waiting, NextElement
<1>7. ASSUME NEW i \in Procs, NEW j \in Procs PROVE AheadInv(i, j)'
  BY <1>1, <1>4, <1>5 DEF AheadInv, Waiting, NextElement
<1> QED
  BY <1>2, <1>3, <1>6, <1>7

LEMMA TakeTicketStep ==
    ASSUME BufferSize = 0, IInv, NEW k \in Procs, TakeTicket(k)
    PROVE  IInv'
<1> USE DEF IInv, Types
<1>1. /\ pc[k] = "ticket"
      /\ number' = [number EXCEPT ![k] = 1 + max[k]]
      /\ pc' = [pc EXCEPT ![k] = "ready"]
      /\ max' = [max EXCEPT ![k] = 0]
      /\ UNCHANGED <<entering, pending, scan, ahead>>
  BY StoresMemory DEF TakeTicket
<1>2. Types'
  BY <1>1 DEF Steps
<1>3. NumberInv' /\ EnteringInv' /\ ScanInv'
  BY <1>1 DEF NumberInv, EnteringInv, ScanInv, Choosing
<1>4. ASSUME NEW i \in Procs, NEW j \in Procs, i # j PROVE OrderInv(i, j)'
  BY <1>1, <1>4
     DEF OrderInv, HasSeen, Passed, Facing, Precedes, Waiting, Procs, NumberInv, Choosing
<1>5. ASSUME NEW i \in Procs, NEW j \in Procs PROVE AheadInv(i, j)'
  BY <1>1 DEF AheadInv, HasSeen, Waiting, Procs, NumberInv, Choosing
<1> QED
  BY <1>2, <1>3, <1>4, <1>5

LEMMA ReadyStep ==
    ASSUME BufferSize = 0, IInv, NEW k \in Procs, Ready(k)
    PROVE  IInv'
<1> USE DEF IInv, Types
<1>1. /\ pc[k] = "ready"
      /\ entering' = [entering EXCEPT ![k] = 0]
      /\ pc' = [pc EXCEPT ![k] = "entering"]
      /\ UNCHANGED <<number, pending, max, scan, ahead>>
  BY StoresMemory DEF Ready
<1>2. Types'
  BY <1>1 DEF Steps, Waiting
<1>3. NumberInv' /\ EnteringInv' /\ ScanInv'
  BY <1>1 DEF NumberInv, EnteringInv, ScanInv, Choosing
<1>4. ASSUME NEW i \in Procs, NEW j \in Procs, i # j PROVE OrderInv(i, j)'
  BY <1>1, <1>4
     DEF OrderInv, HasSeen, Passed, Facing, Precedes, Waiting, Procs, NumberInv, ScanInv, Choosing
<1>5. ASSUME NEW i \in Procs, NEW j \in Procs PROVE AheadInv(i, j)'
  BY <1>1 DEF AheadInv, HasSeen, Waiting, Procs, NumberInv, Choosing
<1> QED
  BY <1>2, <1>3, <1>4, <1>5

LEMMA WaitEnteringStep ==
    ASSUME BufferSize = 0, IInv, NEW k \in Procs, WaitEntering(k)
    PROVE  IInv'
<1> USE DEF IInv, Types
<1>1. /\ pc[k] = "entering" /\ entering[scan[k]] = 0
      /\ pc' = [pc EXCEPT ![k] = "zero"]
      /\ UNCHANGED <<entering, number, pending, max, scan, ahead>>
  BY LoadsMemory DEF WaitEntering
<1>2. Types'
  BY <1>1 DEF Steps, Waiting
<1>3. NumberInv' /\ EnteringInv' /\ ScanInv'
  BY <1>1 DEF NumberInv, EnteringInv, ScanInv, Choosing
<1>4. ASSUME NEW i \in Procs, NEW j \in Procs, i # j PROVE OrderInv(i, j)'
  BY <1>1, <1>4
     DEF OrderInv, HasSeen, Passed, Facing, Precedes, Waiting, EnteringInv, Choosing
<1>5. ASSUME NEW i \in Procs, NEW j \in Procs PROVE AheadInv(i, j)'
  BY <1>1 DEF AheadInv, HasSeen, Waiting
<1> QED
  BY <1>2, <1>3, <1>4, <1>5

\* A step of the second while loop that stays with the same customer.
LEMMA SameWaitStep ==
    ASSUME IInv, NEW k \in Procs, NEW step \in {"zero", "less", "equal"},
           pc[k] \in {"zero", "less", "equal"},
           pc' = [pc EXCEPT ![k] = step],
           step = "equal" => number[scan[k]] >= number[k],
           UNCHANGED <<entering, number, pending, max, scan, ahead>>
    PROVE  IInv'
<1> USE DEF IInv, Types
<1>1. Types'
  BY DEF Steps, Waiting
<1>2. NumberInv' /\ EnteringInv' /\ ScanInv'
  BY DEF NumberInv, EnteringInv, ScanInv, Choosing
<1>3. ASSUME NEW i \in Procs, NEW j \in Procs, i # j PROVE OrderInv(i, j)'
  BY <1>3 DEF OrderInv, HasSeen, Passed, Facing, Precedes, Waiting
<1>4. ASSUME NEW i \in Procs, NEW j \in Procs PROVE AheadInv(i, j)'
  BY DEF AheadInv, HasSeen, Waiting
<1> QED
  BY <1>1, <1>2, <1>3, <1>4

\* The loop of Lamport_lock goes on to the next customer when the one it faces
\* has no number or does not precede it.
LEMMA NextCustomerStep ==
    ASSUME IInv, NEW k \in Procs, pc[k] \in {"zero", "equal"}, NextCustomer(k),
           number[scan[k]] = 0 \/ scan[k] = k \/ Precedes(k, scan[k]),
           UNCHANGED <<entering, number, pending, max>>
    PROVE  IInv'
<1> USE DEF IInv, Types
<1> DEFINE s == scan[k]
<1>1. s \in Procs /\ Facing(k, s) /\ k \in Int /\ s \in Int
  BY DEF Facing, Procs
<1>2. CASE s + 1 = N
  <2>1. /\ pc' = [pc EXCEPT ![k] = "critical"]
        /\ scan' = [scan EXCEPT ![k] = 0]
        /\ ahead' = [j \in Procs |-> IF j = k THEN ahead[k] ELSE ahead[j] \ {k}]
    BY <1>2 DEF NextCustomer
  <2>2. Types'
    <3>1. 0 \in Procs
      BY NAssumption DEF Procs
    <3> QED
      BY <2>1, <3>1 DEF Steps
  <2>3. NumberInv' /\ EnteringInv' /\ ScanInv'
    BY <2>1 DEF NumberInv, EnteringInv, ScanInv, Choosing
  <2>4. \A j \in Procs : j < s \/ j = s
    BY <1>2 DEF Procs
  <2>5. ASSUME NEW j \in Procs, j # k
        PROVE  HasSeen(j, k) /\ (number[j] = 0 \/ Precedes(k, j))
    BY <1>1, <2>4, <2>5 DEF OrderInv, Passed, Facing, Waiting
  <2>6. ASSUME NEW i \in Procs, NEW j \in Procs, i # j PROVE OrderInv(i, j)'
    BY <2>1, <2>5, <2>6 DEF OrderInv, HasSeen, Passed, Facing, Precedes, Waiting
  <2>7. ASSUME NEW i \in Procs, NEW j \in Procs PROVE AheadInv(i, j)'
    BY <2>1 DEF AheadInv, HasSeen, Waiting
  <2> QED
    BY <2>2, <2>3, <2>6, <2>7
<1>3. CASE s + 1 # N
  <2>1. /\ pc' = [pc EXCEPT ![k] = "entering"]
        /\ scan' = [scan EXCEPT ![k] = s + 1]
        /\ UNCHANGED ahead
    BY <1>3 DEF NextCustomer
  <2>2. Types'
    <3>1. s + 1 \in Procs
      BY <1>1, <1>3, NextIndex
    <3> QED
      BY <2>1, <3>1 DEF Steps, Waiting
  <2>3. NumberInv' /\ EnteringInv' /\ ScanInv'
    BY <2>1 DEF NumberInv, EnteringInv, ScanInv, Choosing
  <2>4. \A j \in Procs : j < s + 1 => j < s \/ j = s
    BY <1>1 DEF Procs
  <2>5. ASSUME NEW j \in Procs, j # k, j < s + 1
        PROVE  HasSeen(j, k) /\ (number[j] = 0 \/ Precedes(k, j))
    BY <1>1, <2>4, <2>5 DEF OrderInv, Passed, Facing, Waiting
  <2>6. ASSUME NEW i \in Procs, NEW j \in Procs, i # j PROVE OrderInv(i, j)'
    BY <2>1, <2>5, <2>6 DEF OrderInv, HasSeen, Passed, Facing, Precedes, Waiting
  <2>7. ASSUME NEW i \in Procs, NEW j \in Procs PROVE AheadInv(i, j)'
    BY <2>1 DEF AheadInv, HasSeen, Waiting
  <2> QED
    BY <2>2, <2>3, <2>6, <2>7
<1> QED
  BY <1>2, <1>3

LEMMA WaitZeroStep ==
    ASSUME BufferSize = 0, IInv, NEW k \in Procs, WaitZero(k)
    PROVE  IInv'
<1> USE DEF IInv, Types
<1>1. /\ pc[k] = "zero"
      /\ IF number[scan[k]] = 0 THEN NextCustomer(k) ELSE Goto(k, "less")
      /\ UNCHANGED <<entering, number, pending, max>>
  BY LoadsMemory DEF WaitZero
<1>2. CASE number[scan[k]] = 0
  BY <1>1, <1>2, NextCustomerStep
<1>3. CASE number[scan[k]] # 0
  <2>1. pc' = [pc EXCEPT ![k] = "less"] /\ UNCHANGED <<scan, ahead>>
    BY <1>1, <1>3 DEF Goto
  <2> QED
    BY <1>1, <2>1, SameWaitStep
<1> QED
  BY <1>2, <1>3

LEMMA WaitLessStep ==
    ASSUME BufferSize = 0, IInv, NEW k \in Procs, WaitLess(k)
    PROVE  IInv'
<1> USE DEF IInv, Types
<1>1. /\ pc[k] = "less"
      /\ Goto(k, IF number[scan[k]] < number[k] THEN "zero" ELSE "equal")
      /\ UNCHANGED <<entering, number, pending, max>>
  BY LoadsMemory DEF WaitLess
<1>2. scan[k] \in Procs /\ number[scan[k]] \in Nat /\ number[k] \in Nat
  OBVIOUS
<1>3. CASE number[scan[k]] < number[k]
  BY <1>1, <1>3, SameWaitStep DEF Goto
<1>4. CASE ~ (number[scan[k]] < number[k])
  <2>1. number[scan[k]] >= number[k]
    BY <1>2, <1>4
  <2> QED
    BY <1>1, <1>4, <2>1, SameWaitStep DEF Goto
<1> QED
  BY <1>3, <1>4

LEMMA WaitEqualStep ==
    ASSUME BufferSize = 0, IInv, NEW k \in Procs, WaitEqual(k)
    PROVE  IInv'
<1> USE DEF IInv, Types
<1>1. /\ pc[k] = "equal"
      /\ IF number[scan[k]] = number[k] /\ scan[k] < k
         THEN Goto(k, "zero") ELSE NextCustomer(k)
      /\ UNCHANGED <<entering, number, pending, max>>
  BY LoadsMemory DEF WaitEqual
<1>2. /\ scan[k] \in Procs /\ number[scan[k]] \in Nat /\ number[k] \in Nat
      /\ scan[k] \in Int /\ k \in Int /\ Facing(k, scan[k])
  BY <1>1 DEF Facing, Procs
<1>3. CASE number[scan[k]] = number[k] /\ scan[k] < k
  BY <1>1, <1>3, SameWaitStep DEF Goto
<1>4. CASE ~ (number[scan[k]] = number[k] /\ scan[k] < k)
  <2>1. scan[k] # k => number[scan[k]] = 0 \/ number[scan[k]] >= number[k]
    BY <1>1, <1>2 DEF OrderInv
  <2>2. number[scan[k]] = 0 \/ scan[k] = k \/ Precedes(k, scan[k])
    BY <1>2, <1>4, <2>1 DEF Precedes
  <2> QED
    BY <1>1, <1>4, <2>2, NextCustomerStep
<1> QED
  BY <1>3, <1>4

LEMMA UnlockStep ==
    ASSUME BufferSize = 0, IInv, NEW k \in Procs, Lamport_unlock(k)
    PROVE  IInv'
<1> USE DEF IInv, Types
<1>1. /\ pc[k] = "critical"
      /\ number' = [number EXCEPT ![k] = 0]
      /\ pc' = [pc EXCEPT ![k] = "out"]
      /\ ahead' = [ahead EXCEPT ![k] = {}]
      /\ UNCHANGED <<entering, pending, max, scan>>
  BY StoresMemory DEF Lamport_unlock
<1>2. Types'
  BY <1>1 DEF Steps
<1>3. NumberInv' /\ EnteringInv' /\ ScanInv'
  BY <1>1 DEF NumberInv, EnteringInv, ScanInv, Choosing
\* k, in its critical section, precedes whoever has a number: no process that
\* has seen a number has k as its maximum, or is about to copy the number of k.
<1>4. ASSUME NEW i \in Procs, i # k PROVE number[i] = 0 \/ Precedes(k, i)
  BY <1>1, <1>4 DEF OrderInv, Passed
<1>5. ASSUME NEW i \in Procs, NEW j \in Procs, i # k, j # k, number[i] # 0, HasSeen(j, i)
      PROVE  HasSeen(j, i)'
  <2>1. number[k] <= number[i]
    <3>1. number[k] \in Nat /\ number[i] \in Nat
      OBVIOUS
    <3>2. Precedes(k, i)
      BY <1>4, <1>5
    <3> HIDE DEF IInv, Types
    <3> QED
      BY <3>1, <3>2 DEF Precedes
  <2>2. pc[j] = "copy" /\ i < scan[j] => scan[j] # k
    BY <1>5, <2>1 DEF HasSeen
  <2> QED
    BY <1>1, <1>5, <2>2 DEF HasSeen
<1>6. ASSUME NEW i \in Procs, NEW j \in Procs, i # j PROVE OrderInv(i, j)'
  <2>1. CASE i = k
    BY <1>1, <2>1 DEF OrderInv, Passed, Facing, Waiting
  <2>2. CASE i # k /\ j = k
    BY <1>1, <1>6, <2>2 DEF OrderInv, Passed, Facing, Waiting, HasSeen, Precedes
  <2>3. CASE i # k /\ j # k
    <3>1. Passed(i, j) \/ Facing(i, j) => number[i] # 0
      BY DEF NumberInv, Choosing, Passed, Facing, Waiting
    <3> QED
      BY <1>1, <1>5, <1>6, <2>3, <3>1 DEF OrderInv, Passed, Facing, Waiting, Precedes
  <2> QED
    BY <2>1, <2>2, <2>3
<1>7. ASSUME NEW i \in Procs, NEW j \in Procs PROVE AheadInv(i, j)'
  <2>1. CASE i = k \/ j = k
    BY <1>1, <2>1 DEF AheadInv, Waiting
  <2>2. CASE i # k /\ j # k
    <3>1. j \in ahead[i] => number[j] # 0
      BY DEF AheadInv, NumberInv, Choosing, Waiting
    <3> QED
      BY <1>1, <1>5, <2>2, <3>1 DEF AheadInv, Waiting
  <2> QED
    BY <2>1, <2>2
<1> QED
  BY <1>2, <1>3, <1>6, <1>7
-----------------------------------------------------------------------------
LEMMA Inductive ==
    ASSUME BufferSize = 0
    PROVE  IInv /\ [Next]_vars => IInv'
<1> SUFFICES ASSUME IInv, [Next]_vars PROVE IInv'
  OBVIOUS
<1>1. CASE UNCHANGED vars
  BY <1>1
     DEF vars, IInv, Types, NumberInv, EnteringInv, ScanInv, OrderInv, AheadInv, Passed,
         Facing, Precedes, HasSeen
<1> QED
  BY <1>1, LockStep, CompareStep, CopyStep, TakeTicketStep, ReadyStep, WaitEnteringStep,
     WaitZeroStep, WaitLessStep, WaitEqualStep, UnlockStep DEF Next, Continue

LEMMA Initially == Init => IInv
<1> SUFFICES ASSUME Init PROVE IInv
  OBVIOUS
<1>1. Types
  <2>1. 0 \in Procs
    BY NAssumption DEF Procs
  <2> QED
    BY <2>1 DEF Init, Types, Steps
<1> QED
  BY <1>1
     DEF Init, IInv, NumberInv, EnteringInv, ScanInv, OrderInv, AheadInv, Passed, Facing,
         Choosing, Waiting

LEMMA Invariance ==
    ASSUME BufferSize = 0
    PROVE  Spec => []IInv
BY Initially, Inductive, PTL DEF Spec

\* Without store buffers, Lamport_lock returns to one process at a time.
THEOREM LamportExcludes ==
    ASSUME BufferSize = 0
    PROVE  Spec => []MutualExclusion
<1>1. IInv => MutualExclusion
  <2> SUFFICES ASSUME IInv, NEW i \in Procs, NEW j \in Procs,
                      pc[i] = "critical", pc[j] = "critical", i # j
               PROVE  FALSE
    BY DEF MutualExclusion
  <2>1. number[i] # 0 /\ number[j] # 0
    BY DEF IInv, NumberInv, Choosing
  <2>2. Precedes(i, j) /\ Precedes(j, i)
    BY <2>1 DEF IInv, OrderInv, Passed
  <2>3. number[i] \in Nat /\ number[j] \in Nat /\ i \in Int /\ j \in Int
    BY DEF IInv, Types, Procs
  <2> QED
    BY <2>2, <2>3 DEF Precedes
<1> QED
  BY <1>1, Invariance, PTL

\* The arrays and the processes keep their types, for any number of processes and tickets
\* that grow without bound.
THEOREM LamportTypes ==
    ASSUME BufferSize = 0
    PROVE  Spec => []TypeOK
<1>1. IInv => TypeOK
  <2>1. <<>> \in Seq({"entering", "number"} \X Nat)
    OBVIOUS
  <2>2. Types => pending \in [Procs -> Seq({"entering", "number"} \X Nat)]
    BY <2>1 DEF Types
  <2> QED
    BY <2>2 DEF IInv, Types, TypeOK
<1> QED
  BY <1>1, Invariance, PTL

\* Without store buffers, a process that was waiting when another one called
\* Lamport_lock gets its critical section first.
THEOREM LamportIsFair ==
    ASSUME BufferSize = 0
    PROVE  Spec => []FirstComeFirstServed
<1>1. IInv => FirstComeFirstServed
  <2> SUFFICES ASSUME IInv, NEW i \in Procs, pc[i] = "critical", NEW j \in ahead[i]
               PROVE  FALSE
    BY DEF FirstComeFirstServed
  <2>1. j \in Procs /\ AheadInv(i, j)
    BY DEF IInv, Types
  <2>2. j # i /\ number[i] > number[j] /\ number[j] # 0
    BY <2>1 DEF AheadInv, IInv, NumberInv, Choosing, Waiting
  <2>3. Precedes(i, j)
    BY <2>1, <2>2 DEF IInv, OrderInv, Passed
  <2>4. number[i] \in Nat /\ number[j] \in Nat
    BY <2>1 DEF IInv, Types
  <2> QED
    BY <2>2, <2>3, <2>4 DEF Precedes
<1> QED
  BY <1>1, Invariance, PTL
=============================================================================
