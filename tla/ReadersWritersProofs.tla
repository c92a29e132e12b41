------------------------- MODULE ReadersWritersProofs -------------------------
(***************************************************************************)
(* The protocol of readwrite_*.c for any finite sets of readers and        *)
(* writers, with any number of kills, restarts and failures.               *)
(*                                                                         *)
(* The semaphore of the counter makes the sections of the readers that     *)
(* change it exclude each other; so the counter is exact, and the tests    *)
(* for the first and the last reader are right.  The readers together are  *)
(* then one more candidate for S_WRITE beside the writers.                 *)
(***************************************************************************)
EXTENDS RWObjects, FiniteSetTheorems, TLAPS

\* The steps of a reader between its wait_sem and its signal_sem on S_NUM_READERS.
CountSection ==
    {"load", "add", "first", "lock", "pass", "counted", "load_out", "sub", "last", "unlock",
     "leave"}

ReadersTyped == \A r \in Readers : pc[r] \in ReaderSteps

\* S_NUM_READERS is a mutex, and what a reader has loaded of the counter is still true.
CountLocked ==
    /\ sem["num_readers"] <= 1
    /\ \A r \in Readers : pc[r] \in CountSection =>
         /\ sem["num_readers"] = 0
         /\ \A q \in Readers : pc[q] \in CountSection => q = r
    /\ \A r \in Readers :
         /\ pc[r] \in {"add", "sub"} => nr[r] = n_readers
         /\ pc[r] = "unlock" => n_readers = 0

\* The readers hold S_WRITE together: not before the first one has taken it, until the last one
\* gives it back.
ReadersHold ==
    \/ \E r \in Readers : pc[r] \in {"last", "unlock"}
    \/ n_readers > 0 /\ ~ (n_readers = 1 /\ \E r \in Readers : pc[r] \in {"first", "lock"})

Holding(w) == w \in Writers /\ pc[w] \in {"pass", "writing"}

\* S_WRITE is a mutex between the writers and the readers together.
WriteLocked ==
    /\ sem["write"] <= 1
    /\ ReadersHold => sem["write"] = 0
    /\ \A w \in Writers : Holding(w) =>
         sem["write"] = 0 /\ ~ ReadersHold /\ \A v \in Writers : Holding(v) => v = w

IInv == TypeOK /\ ReadersTyped /\ CountIsExact /\ CountLocked /\ WriteLocked

\* The readers that are counted can be counted.
LEMMA CountedFinite == IsFiniteSet(Counted) /\ Cardinality(Counted) \in Nat
<1>1. Counted \in SUBSET Readers
  BY DEF Counted
<1> QED
  BY <1>1, ActorsAssumption, FS_Subset, FS_CardinalityType

\* A reader that is counted shows in the counter.
LEMMA CountedShows ==
    ASSUME IInv, NEW r \in Counted
    PROVE  n_readers > 0
<1>1. Cardinality(Counted) # 0
  BY CountedFinite, FS_EmptySet
<1> QED
  BY <1>1, CountedFinite DEF IInv, CountIsExact, TypeOK

\* The initial state.
LEMMA InitIInv == Init => IInv
<1> SUFFICES ASSUME Init PROVE IInv
  OBVIOUS
<1>1. TypeOK /\ ReadersTyped
  BY ActorsAssumption, BoundsAssumption
     DEF Init, TypeOK, ReadersTyped, Sems, ReaderSteps, WriterSteps, Actors
<1>2. CountIsExact
  <2>1. Counted = {}
    BY DEF Init, Counted, Actors
  <2> QED
    BY <2>1, FS_EmptySet DEF Init, CountIsExact
<1>3. CountLocked
  BY DEF Init, CountLocked, CountSection, Sems, Actors
<1>4. WriteLocked
  BY DEF Init, WriteLocked, ReadersHold, Holding, Sems, Actors
<1> QED
  BY <1>1, <1>2, <1>3, <1>4 DEF IInv
-----------------------------------------------------------------------------
\* A step of a writer: the readers do not move and their counter does not change.
LEMMA WriterIInv ==
    ASSUME IInv, NEW w \in Writers, writer(w) \/ Call(w) \/ Fail(w)
    PROVE  IInv'
<1> USE ActorsAssumption, BoundsAssumption DEF IInv
<1>1. /\ w \in Actors /\ w \notin Readers
      /\ \A p \in Actors \ {w} : pc'[p] = pc[p]
      /\ \A r \in Readers : r \in Actors /\ pc'[r] = pc[r]
      /\ UNCHANGED <<n_readers, nr, lost>>
  BY DEF writer, Call, Fail, P, V, Go, Actors, TypeOK
<1>2. TypeOK'
  BY <1>1 DEF writer, Call, Fail, P, V, Go, TypeOK, Actors, Sems, ReaderSteps, WriterSteps
<1>3. ReadersTyped'
  BY <1>1 DEF ReadersTyped
<1>4. CountIsExact'
  <2>1. Counted' = Counted
    BY <1>1 DEF Counted
  <2> QED
    BY <1>1, <2>1 DEF CountIsExact
<1>5. CountLocked'
  <2>1. sem'["num_readers"] = sem["num_readers"]
    BY DEF writer, Call, Fail, P, V, Go, TypeOK, Sems
  <2> QED
    BY <1>1, <2>1 DEF CountLocked
<1>6. WriteLocked'
  <2>1. ReadersHold' <=> ReadersHold
    BY <1>1 DEF ReadersHold
  <2>2. \A v \in Writers \ {w} : Holding(v)' <=> Holding(v)
    BY <1>1 DEF Holding, Actors
  <2>3. CASE pc[w] = "lock" /\ P(w, "write", "pass")
    <3>1. sem["write"] = 1 /\ sem'["write"] = 0
      BY <2>3 DEF P, TypeOK, Sems, WriteLocked
    <3>2. ~ ReadersHold /\ \A v \in Writers : ~ Holding(v)
      BY <3>1 DEF WriteLocked
    <3> QED
      BY <2>1, <2>2, <3>1, <3>2 DEF WriteLocked, Holding
  <2>4. CASE pc[w] = "writing" /\ V(w, "write", "idle")
    <3>1. Holding(w) /\ ~ Holding(w)'
      BY <2>4, <1>1 DEF Holding, V, TypeOK
    <3>2. sem'["write"] = 1 /\ ~ ReadersHold /\ \A v \in Writers \ {w} : ~ Holding(v)
      BY <2>4, <3>1 DEF WriteLocked, V, TypeOK, Sems
    <3> QED
      BY <2>1, <2>2, <3>1, <3>2 DEF WriteLocked, Holding
  <2>5. CASE sem'["write"] = sem["write"] /\ (Holding(w)' => Holding(w))
    BY <2>1, <2>2, <2>5 DEF WriteLocked, Holding
  <2>6. CASE pc[w] = "queued" /\ P(w, "queue", "lock")
    BY <2>5, <2>6, <1>1 DEF P, TypeOK, Sems, Holding
  <2>7. CASE pc[w] = "pass" /\ V(w, "queue", "writing")
    BY <2>5, <2>7, <1>1 DEF V, TypeOK, Sems, Holding
  <2>8. CASE Call(w) \/ Fail(w)
    BY <2>5, <2>8, <1>1 DEF Call, Fail, Go, TypeOK, Holding
  <2> QED
    BY <2>3, <2>4, <2>6, <2>7, <2>8 DEF writer
<1> QED
  BY <1>2, <1>3, <1>4, <1>5, <1>6
-----------------------------------------------------------------------------
\* What every step of a reader leaves alone.
LEMMA ReaderFrame ==
    ASSUME IInv, NEW r \in Readers, reader(r) \/ Call(r) \/ Fail(r)
    PROVE  /\ r \in Actors /\ r \notin Writers /\ pc[r] \in ReaderSteps
           /\ \A q \in Readers \ {r} : pc'[q] = pc[q] /\ nr'[q] = nr[q]
           /\ \A w \in Writers : w \in Actors /\ pc'[w] = pc[w]
BY ActorsAssumption
   DEF reader, Call, Fail, P, V, Go, Load, StoreCount, FirstIn, LastOut, Actors, IInv, TypeOK,
       ReadersTyped

\* The types, after a step of a reader.
LEMMA ReaderTypes ==
    ASSUME IInv, NEW r \in Readers, reader(r) \/ Call(r) \/ Fail(r)
    PROVE  TypeOK' /\ ReadersTyped'
<1> USE BoundsAssumption DEF IInv, TypeOK, ReadersTyped
<1>1. /\ pc' \in [Actors -> ReaderSteps \cup WriterSteps]
      /\ \A w \in Writers : pc'[w] \in WriterSteps
      /\ \A q \in Readers : pc'[q] \in ReaderSteps
  BY ReaderFrame
     DEF reader, Call, Fail, P, V, Go, Load, StoreCount, FirstIn, LastOut, ReaderSteps, WriterSteps
<1>2. sem' \in [Sems -> Nat]
  BY DEF reader, Call, Fail, P, V, Go, Load, StoreCount, FirstIn, LastOut, Sems
<1>3. nr' \in [Readers -> Nat]
  BY DEF reader, Call, Fail, P, V, Go, Load, StoreCount, FirstIn, LastOut
<1>4. n_readers' \in Nat
  <2>1. CASE pc[r] = "sub" /\ StoreCount(r, nr[r] - 1, "last")
    <3>1. nr[r] = n_readers /\ n_readers > 0
      BY <2>1, CountedShows DEF CountLocked, Counted
    <3> QED
      BY <2>1, <3>1 DEF StoreCount
  <2>2. CASE pc[r] = "add" /\ StoreCount(r, nr[r] + 1, "first")
    BY <2>2 DEF StoreCount
  <2>3. CASE UNCHANGED n_readers
    BY <2>3
  <2> QED
    BY <2>1, <2>2, <2>3 DEF reader, Call, Fail, P, V, Go, Load, FirstIn, LastOut
<1>5. /\ restarts' \in 0 .. MaxRestarts
      /\ failures' \in 0 .. MaxFailures
      /\ lost' \in 0 .. failures'
  BY DEF reader, Call, Fail, P, V, Go, Load, StoreCount, FirstIn, LastOut
<1> QED
  BY <1>1, <1>2, <1>3, <1>4, <1>5

\* The types of the two sides of CountIsExact.
LEMMA LostType == IInv => n_readers \in Nat /\ lost \in Nat
BY DEF IInv, TypeOK

\* The counter, from the section in which alone it changes.
LEMMA ReaderCount ==
    ASSUME IInv, NEW r \in Readers, reader(r) \/ Call(r) \/ Fail(r)
    PROVE  CountIsExact'
<1> USE DEF IInv
<1>1. /\ r \in Actors
      /\ \A q \in Readers \ {r} : q \in Counted' <=> q \in Counted
  BY ReaderFrame DEF Counted
<1>2. CASE pc[r] = "add" /\ StoreCount(r, nr[r] + 1, "first")
  <2>1. Counted' = Counted \cup {r} /\ r \notin Counted
    BY <1>1, <1>2 DEF Counted, StoreCount, Go, TypeOK
  <2>2. n_readers' = n_readers + 1 /\ lost' = lost
    BY <1>2 DEF CountLocked, StoreCount, Go
  <2>3. Cardinality(Counted') = Cardinality(Counted) + 1
    BY <2>1, CountedFinite, FS_AddElement
  <2> QED
    BY <2>2, <2>3, CountedFinite, LostType DEF CountIsExact
<1>3. CASE pc[r] = "sub" /\ StoreCount(r, nr[r] - 1, "last")
  <2>1. Counted' = Counted \ {r} /\ r \in Counted
    BY <1>1, <1>3 DEF Counted, StoreCount, Go, TypeOK
  <2>2. n_readers' = n_readers - 1 /\ lost' = lost
    BY <1>3 DEF CountLocked, StoreCount, Go
  <2>3. Cardinality(Counted') = Cardinality(Counted) - 1
    BY <2>1, CountedFinite, FS_RemoveElement
  <2> QED
    BY <2>2, <2>3, CountedFinite, LostType DEF CountIsExact
<1>4. CASE Fail(r)
  <2>1. Counted' = Counted \ {r} /\ r \in Counted
    BY <1>1, <1>4 DEF Counted, Fail, TypeOK, ReadersTyped, ReaderSteps
  <2>2. n_readers' = n_readers /\ lost' = lost + 1
    BY <1>4 DEF Fail
  <2>3. Cardinality(Counted') = Cardinality(Counted) - 1
    BY <2>1, CountedFinite, FS_RemoveElement
  <2> QED
    BY <2>2, <2>3, CountedFinite, LostType DEF CountIsExact
<1>5. CASE /\ UNCHANGED <<n_readers, lost>>
           /\ r \in Counted' <=> r \in Counted
  <2>1. Counted' = Counted
    BY <1>1, <1>5 DEF Counted
  <2> QED
    BY <1>5, <2>1 DEF CountIsExact
<1> QED
  BY <1>1, <1>2, <1>3, <1>4, <1>5
     DEF reader, Call, P, V, Go, Load, FirstIn, LastOut, Counted, TypeOK

\* S_NUM_READERS is taken, held or given back.
LEMMA ReaderLock ==
    ASSUME IInv, NEW r \in Readers, reader(r) \/ Call(r) \/ Fail(r)
    PROVE  CountLocked'
<1> USE DEF IInv
<1>1. \A q \in Readers \ {r} : pc'[q] = pc[q] /\ nr'[q] = nr[q]
  BY ReaderFrame
<1>2. CASE /\ \/ pc[r] = "count" /\ P(r, "num_readers", "load")
              \/ pc[r] = "reading" /\ P(r, "num_readers", "load_out")
  <2>1. sem["num_readers"] = 1 /\ sem'["num_readers"] = 0
    BY <1>2 DEF P, CountLocked, TypeOK, Sems
  <2>2. \A q \in Readers : pc[q] \notin CountSection
    BY <2>1 DEF CountLocked
  <2> QED
    BY <1>1, <1>2, <2>1, <2>2 DEF P, CountLocked, CountSection, TypeOK, Actors
<1>3. CASE /\ \/ pc[r] = "counted" /\ V(r, "num_readers", "reading")
              \/ pc[r] = "leave" /\ V(r, "num_readers", "idle")
  <2>1. sem["num_readers"] = 0 /\ \A q \in Readers : pc[q] \in CountSection => q = r
    BY <1>3 DEF CountLocked, CountSection
  <2>2. sem'["num_readers"] = 1 /\ pc'[r] \in {"reading", "idle"}
    BY <1>3, <2>1 DEF V, TypeOK, Sems, Actors
  <2>3. \A q \in Readers : pc'[q] \notin CountSection
    BY <1>1, <2>1, <2>2 DEF CountSection
  <2> QED
    BY <2>2, <2>3 DEF CountLocked, CountSection
<1>4. CASE /\ sem'["num_readers"] = sem["num_readers"]
           /\ pc[r] \notin CountSection /\ pc'[r] \notin CountSection
           /\ UNCHANGED <<n_readers, nr>>
  BY <1>1, <1>4 DEF CountLocked, CountSection
<1>5. CASE /\ sem'["num_readers"] = sem["num_readers"]
           /\ pc[r] \in CountSection /\ pc'[r] \in CountSection
           /\ pc'[r] \in {"add", "sub"} => nr'[r] = n_readers'
           /\ pc'[r] = "unlock" => n_readers' = 0
  <2>1. \A q \in Readers \ {r} : pc[q] \notin CountSection
    BY <1>5 DEF CountLocked
  <2> QED
    BY <1>1, <1>5, <2>1 DEF CountLocked, CountSection
<1>6. CASE \/ pc[r] = "queued" /\ P(r, "queue", "count")
           \/ Call(r) \/ Fail(r)
  BY <1>4, <1>6 DEF P, Call, Fail, Go, TypeOK, Sems, CountSection, Actors
<1>7. CASE \/ pc[r] = "load" /\ Load(r, "add")
           \/ pc[r] = "add" /\ StoreCount(r, nr[r] + 1, "first")
           \/ FirstIn(r)
           \/ pc[r] = "lock" /\ P(r, "write", "pass")
           \/ pc[r] = "pass" /\ V(r, "queue", "counted")
  BY <1>5, <1>7
     DEF Load, StoreCount, FirstIn, P, V, Go, TypeOK, Sems, CountSection, Actors
<1>8. CASE \/ pc[r] = "load_out" /\ Load(r, "sub")
           \/ pc[r] = "sub" /\ StoreCount(r, nr[r] - 1, "last")
           \/ LastOut(r)
           \/ pc[r] = "unlock" /\ V(r, "write", "leave")
  BY <1>5, <1>8 DEF Load, StoreCount, LastOut, V, Go, TypeOK, Sems, CountSection, Actors
<1> QED
  BY <1>2, <1>3, <1>6, <1>7, <1>8 DEF reader

\* S_WRITE is left alone, taken for the readers or given back by the last one.
LEMMA ReaderWrite ==
    ASSUME IInv, NEW r \in Readers, reader(r) \/ Call(r) \/ Fail(r)
    PROVE  /\ WriteLocked'
           /\ \/ sem'["write"] = 1
              \/ ReadersHold'
              \/ sem'["write"] = sem["write"] /\ ~ ReadersHold
<1> USE DEF IInv
<1>1. \A q \in Readers \ {r} : pc'[q] = pc[q]
  BY ReaderFrame
<1>2. /\ \A w : Holding(w)' <=> Holding(w)
      /\ n_readers \in Nat
  BY ReaderFrame DEF Holding, TypeOK
<1>3. \A q \in Readers : pc[r] \in CountSection /\ pc[q] \in CountSection => q = r
  BY DEF CountLocked
<1>4. pc' = [pc EXCEPT ![r] = pc'[r]] /\ r \in Actors
  BY ReaderFrame DEF reader, Call, Fail, P, V, Go, Load, StoreCount, FirstIn, LastOut, TypeOK
<1>5. CASE sem'["write"] = sem["write"] /\ (ReadersHold' <=> ReadersHold)
  BY <1>2, <1>5 DEF WriteLocked
<1>6. CASE pc[r] = "lock" /\ P(r, "write", "pass")
  <2>1. sem["write"] = 1 /\ sem'["write"] = 0
    BY <1>6 DEF P, TypeOK, Sems, WriteLocked
  <2>2. \A w \in Writers : ~ Holding(w)
    BY <2>1 DEF WriteLocked
  <2>3. ReadersHold'
    <3>1. n_readers > 0 /\ n_readers' = n_readers /\ pc'[r] = "pass"
      BY <1>4, <1>6, CountedShows DEF P, TypeOK, Counted
    <3>2. \A q \in Readers : pc'[q] \notin {"first", "lock"}
      BY <1>1, <1>3, <1>6, <3>1 DEF CountSection
    <3> QED
      BY <3>1, <3>2 DEF ReadersHold
  <2> QED
    BY <1>2, <2>1, <2>2, <2>3 DEF WriteLocked
<1>7. CASE pc[r] = "unlock" /\ V(r, "write", "leave")
  <2>1. ReadersHold /\ n_readers = 0
    BY <1>7 DEF ReadersHold, CountLocked
  <2>2. sem["write"] = 0 /\ sem'["write"] = 1 /\ \A w \in Writers : ~ Holding(w)
    BY <1>7, <2>1 DEF V, TypeOK, Sems, WriteLocked
  <2>3. ~ ReadersHold'
    <3>1. n_readers' = 0 /\ pc'[r] = "leave"
      BY <1>4, <1>7, <2>1 DEF V, TypeOK
    <3>2. \A q \in Readers : pc'[q] \notin {"last", "unlock"}
      BY <1>1, <1>3, <1>7, <3>1 DEF CountSection
    <3> QED
      BY <3>1, <3>2 DEF ReadersHold
  <2> QED
    BY <1>2, <2>2, <2>3 DEF WriteLocked
<1>8. CASE /\ pc[r] \notin CountSection \/ pc[r] \in {"load", "pass", "counted", "load_out", "leave"}
           /\ pc'[r] \notin {"first", "lock", "last", "unlock"}
           /\ UNCHANGED n_readers /\ sem'["write"] = sem["write"]
  <2>1. pc[r] \notin {"first", "lock", "last", "unlock"}
    BY <1>8 DEF CountSection
  <2>2. \A q \in Readers : /\ pc'[q] \in {"last", "unlock"} <=> pc[q] \in {"last", "unlock"}
                           /\ pc'[q] \in {"first", "lock"} <=> pc[q] \in {"first", "lock"}
    BY <1>1, <1>8, <2>1
  <2> QED
    BY <1>5, <1>8, <2>2 DEF ReadersHold
<1>9. CASE /\ \/ pc[r] = "queued" /\ P(r, "queue", "count")
              \/ pc[r] = "count" /\ P(r, "num_readers", "load")
              \/ pc[r] = "load" /\ Load(r, "add")
              \/ pc[r] = "pass" /\ V(r, "queue", "counted")
              \/ pc[r] = "counted" /\ V(r, "num_readers", "reading")
  BY <1>4, <1>8, <1>9 DEF P, V, Load, Go, TypeOK, Sems, CountSection
<1>10. CASE \/ pc[r] = "reading" /\ P(r, "num_readers", "load_out")
            \/ pc[r] = "load_out" /\ Load(r, "sub")
            \/ pc[r] = "leave" /\ V(r, "num_readers", "idle")
            \/ Call(r) \/ Fail(r)
  BY <1>4, <1>8, <1>10
     DEF P, V, Load, Go, Call, Fail, TypeOK, Sems, CountSection, ReadersTyped, ReaderSteps
<1>11. ASSUME pc[r] \in CountSection
       PROVE  /\ \A q \in Readers \ {r} : pc[q] \notin CountSection /\ pc'[q] \notin CountSection
              /\ ReadersHold <=>
                    \/ pc[r] \in {"last", "unlock"}
                    \/ n_readers > 0 /\ ~ (n_readers = 1 /\ pc[r] \in {"first", "lock"})
              /\ pc'[r] \in CountSection =>
                   (ReadersHold' <=>
                      \/ pc'[r] \in {"last", "unlock"}
                      \/ n_readers' > 0 /\ ~ (n_readers' = 1 /\ pc'[r] \in {"first", "lock"}))
  <2>1. \A q \in Readers \ {r} : pc[q] \notin CountSection /\ pc'[q] \notin CountSection
    BY <1>1, <1>3, <1>11
  <2> QED
    BY <2>1 DEF ReadersHold, CountSection
<1>12. CASE pc[r] = "add" /\ StoreCount(r, nr[r] + 1, "first")
  <2>1. n_readers' = n_readers + 1 /\ pc'[r] = "first" /\ UNCHANGED sem
    BY <1>4, <1>12 DEF StoreCount, Go, CountLocked, TypeOK
  <2> QED
    BY <1>2, <1>5, <1>11, <1>12, <2>1 DEF CountSection
<1>13. CASE FirstIn(r)
  <2>1. r \in Counted
    BY <1>13 DEF FirstIn, Counted
  <2>2. n_readers > 0
    BY <2>1, CountedShows
  <2>3. /\ UNCHANGED <<n_readers, sem>> /\ pc[r] = "first"
        /\ pc'[r] = IF n_readers = 1 THEN "lock" ELSE "pass"
    BY <1>4, <1>13 DEF FirstIn, Go, TypeOK
  <2> QED
    BY <1>2, <1>5, <1>11, <2>2, <2>3 DEF CountSection
<1>14. CASE pc[r] = "sub" /\ StoreCount(r, nr[r] - 1, "last")
  <2>1. r \in Counted
    BY <1>14 DEF Counted
  <2>2. n_readers > 0
    BY <2>1, CountedShows
  <2>3. pc'[r] = "last" /\ UNCHANGED sem
    BY <1>4, <1>14 DEF StoreCount, Go, TypeOK
  <2> QED
    BY <1>2, <1>5, <1>11, <1>14, <2>2, <2>3 DEF CountSection
<1>15. CASE LastOut(r)
  <2>1. /\ UNCHANGED <<n_readers, sem>> /\ pc[r] = "last"
        /\ pc'[r] = IF n_readers = 0 THEN "unlock" ELSE "leave"
    BY <1>4, <1>15 DEF LastOut, Go, TypeOK
  <2> QED
    BY <1>2, <1>5, <1>11, <2>1 DEF CountSection
<1> QED
  BY <1>6, <1>7, <1>9, <1>10, <1>12, <1>13, <1>14, <1>15 DEF reader
-----------------------------------------------------------------------------
\* main starts again: nobody is in the protocol, the semaphores are what they were.
LEMMA RestartIInv ==
    ASSUME IInv, Restart
    PROVE  IInv'
<1> USE ActorsAssumption, BoundsAssumption DEF IInv
<1>1. \A p \in Actors : pc'[p] = "idle"
  BY DEF Restart
<1>2. Readers \subseteq Actors /\ Writers \subseteq Actors
  BY DEF Actors
<1>3. TypeOK' /\ ReadersTyped'
  BY <1>2 DEF Restart, TypeOK, ReadersTyped, ReaderSteps, WriterSteps
<1>4. CountIsExact'
  <2>1. Counted' = {}
    BY <1>1, <1>2 DEF Counted
  <2>2. Cardinality(Counted') = 0
    BY <2>1, FS_EmptySet
  <2> QED
    BY <2>2 DEF Restart, CountIsExact
<1>5. CountLocked'
  BY <1>1, <1>2 DEF Restart, CountLocked, CountSection
<1>6. WriteLocked'
  BY <1>1, <1>2 DEF Restart, WriteLocked, ReadersHold, Holding
<1> QED
  BY <1>3, <1>4, <1>5, <1>6

\* Every step keeps the invariant.
LEMMA NextIInv == IInv /\ [Next]_vars => IInv'
<1> SUFFICES ASSUME IInv, [Next]_vars PROVE IInv'
  OBVIOUS
<1>1. ASSUME NEW w \in Writers, writer(w) \/ Call(w) \/ Fail(w) PROVE IInv'
  BY <1>1, WriterIInv
<1>2. ASSUME NEW r \in Readers, reader(r) \/ Call(r) \/ Fail(r) PROVE IInv'
  BY <1>2, ReaderTypes, ReaderCount, ReaderLock, ReaderWrite DEF IInv
<1>3. CASE Restart
  BY <1>3, RestartIInv
<1>4. CASE UNCHANGED vars
  BY <1>4 DEF vars, IInv, TypeOK, ReadersTyped, CountIsExact, Counted, CountLocked, WriteLocked,
              ReadersHold, Holding
<1> QED
  BY <1>1, <1>2, <1>3, <1>4 DEF Next, Actors

LEMMA Invariance == Spec => []IInv
BY InitIInv, NextIInv, PTL DEF Spec

\* A reader past the test for the first one shows that the readers hold the resource.
LEMMA ReaderHolds ==
    ASSUME IInv, NEW r \in Readers,
           pc[r] \in {"pass", "counted", "reading", "load_out", "sub"}
    PROVE  ReadersHold
<1>1. r \in Counted
  BY DEF Counted
<1>2. n_readers > 0
  BY <1>1, CountedShows
<1>3. ASSUME n_readers = 1, NEW q \in Readers, pc[q] \in {"first", "lock"}
      PROVE  FALSE
  <2>1. {q, r} \subseteq Counted /\ q # r
    BY <1>1, <1>3 DEF Counted
  <2>2. Cardinality({q, r}) = 2
    <3>1. {q, r} = {r} \cup {q} /\ q \notin {r}
      BY <2>1
    <3>2. IsFiniteSet({r}) /\ Cardinality({r}) = 1
      BY FS_Singleton
    <3>3. Cardinality({r} \cup {q}) = Cardinality({r}) + 1
      BY <3>1, <3>2, FS_AddElement
    <3> QED
      BY <3>1, <3>2, <3>3
  <2>3. Cardinality(Counted) >= 2
    BY <2>1, <2>2, CountedFinite, FS_Subset
  <2> QED
    BY <1>3, <2>3, CountedFinite, LostType DEF IInv, CountIsExact
<1> QED
  BY <1>2, <1>3 DEF ReadersHold

LEMMA Exclusion == IInv => WriterExcludes
<1> SUFFICES ASSUME IInv, NEW w \in Writers, pc[w] \in {"pass", "writing"}
             PROVE  /\ \A v \in Writers : pc[v] \in {"pass", "writing"} => v = w
                    /\ \A r \in Readers :
                         pc[r] \notin {"pass", "counted", "reading", "load_out", "sub"}
  BY DEF WriterExcludes
<1>1. ~ ReadersHold /\ \A v \in Writers : Holding(v) => v = w
  BY DEF IInv, WriteLocked, Holding
<1> QED
  BY <1>1, ReaderHolds DEF Holding

\* The semaphores, the counter and the processes have their types: the counter never falls
\* below zero.
THEOREM ProtocolTypes == Spec => []TypeOK
<1>1. IInv => TypeOK
  BY DEF IInv
<1> QED
  BY <1>1, Invariance, PTL

\* The counter of readers is exact, whatever fails and however often main starts again
\* on the counter that a killed program left.
THEOREM CounterExact == Spec => []CountIsExact
<1>1. IInv => CountIsExact
  BY DEF IInv
<1> QED
  BY <1>1, Invariance, PTL

\* A writer of readwrite_*.c writes alone, for any numbers of readers and writers.
THEOREM WritersExclude == Spec => []WriterExcludes
BY Exclusion, Invariance, PTL
-----------------------------------------------------------------------------
(***************************************************************************)
(* S_QUEUE, and what the semaphores are when nobody is in the protocol.    *)
(***************************************************************************)

\* The steps between wait_sem and signal_sem on S_QUEUE.
QueueSection == {"count", "load", "add", "first", "lock", "pass"}

\* S_QUEUE is a mutex of readers and writers.
QueueLocked ==
    /\ sem["queue"] <= 1
    /\ \A p \in Actors : pc[p] \in QueueSection =>
         /\ sem["queue"] = 0
         /\ \A q \in Actors : pc[q] \in QueueSection => q = p

\* Until a kill or a failure every semaphore is 1 or somebody has it.
NothingLost ==
    restarts + failures = 0 =>
        /\ sem["queue"] = 1 \/ \E p \in Actors : pc[p] \in QueueSection
        /\ sem["num_readers"] = 1 \/ \E r \in Readers : pc[r] \in CountSection
        /\ sem["write"] = 1 \/ ReadersHold \/ \E w \in Writers : Holding(w)

\* A step of the protocol, or a failure, moves one process.
LEMMA OneMoves ==
    ASSUME IInv, NEW p \in Actors,
           \/ p \in Writers /\ writer(p)
           \/ p \in Readers /\ reader(p)
           \/ Fail(p) \/ Call(p)
    PROVE  \A q \in Actors \ {p} : pc'[q] = pc[q]
BY DEF IInv, TypeOK, writer, reader, Call, Fail, P, V, Go, Load, StoreCount, FirstIn, LastOut

\* A step of a process: itself, its semaphores, and the others.
LEMMA StepFrame ==
    ASSUME IInv, NEW p \in Actors,
           \/ p \in Writers /\ writer(p)
           \/ p \in Readers /\ reader(p)
           \/ Call(p)
    PROVE  /\ \A q \in Actors \ {p} : pc'[q] = pc[q]
           /\ UNCHANGED <<restarts, failures>>
           /\ \/ /\ pc[p] = "queued" /\ pc'[p] \in QueueSection /\ sem["queue"] > 0
                 /\ sem'["queue"] = sem["queue"] - 1
              \/ /\ pc[p] \in QueueSection /\ pc'[p] \notin QueueSection
                 /\ sem'["queue"] = sem["queue"] + 1
              \/ /\ pc[p] \in QueueSection <=> pc'[p] \in QueueSection
                 /\ sem'["queue"] = sem["queue"]
<1> USE ActorsAssumption DEF IInv, TypeOK
<1>1. \A q \in Actors \ {p} : pc'[q] = pc[q]
  BY OneMoves
<1>2. UNCHANGED <<restarts, failures>>
  BY DEF writer, reader, Call, P, V, Go, Load, StoreCount, FirstIn, LastOut
<1>3. CASE p \in Writers /\ writer(p)
  BY <1>1, <1>2, <1>3 DEF writer, P, V, Sems, QueueSection
<1>4. CASE p \in Readers /\ reader(p)
  BY <1>1, <1>2, <1>4
     DEF reader, P, V, Go, Load, StoreCount, FirstIn, LastOut, Sems, QueueSection
<1>5. CASE Call(p)
  BY <1>1, <1>2, <1>5 DEF Call, Go, QueueSection
<1> QED
  BY <1>3, <1>4, <1>5

LEMMA QueueStep == IInv /\ QueueLocked /\ [Next]_vars => QueueLocked'
<1> SUFFICES ASSUME IInv, QueueLocked, [Next]_vars PROVE QueueLocked'
  OBVIOUS
<1>0. sem["queue"] \in Nat
  BY DEF IInv, TypeOK, Sems
<1>1. ASSUME NEW p \in Actors,
             \/ p \in Writers /\ writer(p)
             \/ p \in Readers /\ reader(p)
             \/ Call(p)
      PROVE  QueueLocked'
  <2>1. CASE /\ pc[p] = "queued" /\ pc'[p] \in QueueSection /\ sem["queue"] > 0
             /\ sem'["queue"] = sem["queue"] - 1
    BY <1>0, <1>1, <2>1, StepFrame DEF QueueLocked
  <2>2. CASE /\ pc[p] \in QueueSection /\ pc'[p] \notin QueueSection
             /\ sem'["queue"] = sem["queue"] + 1
    BY <1>0, <1>1, <2>2, StepFrame DEF QueueLocked
  <2>3. CASE /\ pc[p] \in QueueSection <=> pc'[p] \in QueueSection
             /\ sem'["queue"] = sem["queue"]
    BY <1>1, <2>3, StepFrame DEF QueueLocked
  <2> QED
    BY <1>1, <2>1, <2>2, <2>3, StepFrame
<1>2. ASSUME NEW p \in Actors, Fail(p) PROVE QueueLocked'
  <2>1. /\ pc'[p] = "idle" /\ \A q \in Actors \ {p} : pc'[q] = pc[q]
        /\ UNCHANGED sem
    BY <1>2 DEF Fail, IInv, TypeOK
  <2> QED
    BY <2>1 DEF QueueLocked, QueueSection
<1>3. CASE Restart
  BY <1>3 DEF Restart, QueueLocked, QueueSection
<1>4. CASE UNCHANGED vars
  BY <1>4 DEF vars, QueueLocked
<1> QED
  BY <1>1, <1>2, <1>3, <1>4 DEF Next, Actors

LEMMA QueueInvariance == Spec => []QueueLocked
<1>1. Init => QueueLocked
  BY DEF Init, QueueLocked, QueueSection, Sems
<1> QED
  BY <1>1, QueueStep, Invariance, PTL DEF Spec

\* While a process waits for the resource at the head of the queue nobody overtakes it,
\* reader or writer: it has S_QUEUE.
THEOREM NoOvertaking == Spec => NobodyOvertakes
<1>1. ASSUME IInv, QueueLocked, [Next]_vars, NEW p \in Actors, NEW q \in Actors,
             pc[p] = "lock", pc'[p] = "lock", pc[q] \in {"idle", "queued"}
      PROVE  pc'[q] \in {"idle", "queued"}
  <2>1. sem["queue"] = 0 /\ q # p
    BY <1>1 DEF QueueLocked, QueueSection
  <2>2. ASSUME NEW r \in Actors,
               \/ r \in Writers /\ writer(r)
               \/ r \in Readers /\ reader(r)
               \/ Call(r)
        PROVE  pc'[q] \in {"idle", "queued"}
    <3>1. CASE r # q
      BY <1>1, <2>2, <3>1, StepFrame
    <3>2. CASE r = q /\ Call(q)
      BY <1>1, <3>2 DEF Call, Go, IInv, TypeOK
    <3>3. CASE r = q /\ (writer(q) \/ reader(q))
      BY <1>1, <2>1, <3>3
         DEF writer, reader, P, FirstIn, LastOut
    <3> QED
      BY <2>2, <3>1, <3>2, <3>3
  <2>3. ASSUME NEW r \in Actors, Fail(r) PROVE pc'[q] \in {"idle", "queued"}
    BY <1>1, <2>3 DEF Fail, IInv, TypeOK
  <2>4. CASE Restart
    BY <2>4 DEF Restart
  <2>5. CASE UNCHANGED vars
    BY <1>1, <2>5 DEF vars
  <2> QED
    BY <1>1, <2>2, <2>3, <2>4, <2>5 DEF Next, Actors
<1>2. IInv /\ QueueLocked /\ [Next]_vars
      => [\A p, q \in Actors :
            /\ pc[p] = "lock" /\ pc'[p] = "lock"
            /\ pc[q] \in {"idle", "queued"}
            => pc'[q] \in {"idle", "queued"}]_vars
  BY <1>1
<1> QED
  BY <1>2, Invariance, QueueInvariance, PTL DEF Spec, NobodyOvertakes

\* What somebody takes he has, until he gives it back.
LEMMA LostStep ==
    ASSUME IInv, IInv', QueueLocked, NothingLost, [Next]_vars
    PROVE  NothingLost'
<1> SUFFICES ASSUME restarts' + failures' = 0
             PROVE  /\ sem'["queue"] = 1 \/ \E p \in Actors : pc'[p] \in QueueSection
                    /\ sem'["num_readers"] = 1 \/ \E r \in Readers : pc'[r] \in CountSection
                    /\ sem'["write"] = 1 \/ ReadersHold' \/ \E w \in Writers : Holding(w)'
  BY DEF NothingLost
<1>0. /\ sem \in [Sems -> Nat] /\ restarts \in Nat /\ failures \in Nat
      /\ Readers \subseteq Actors /\ Writers \subseteq Actors
  BY BoundsAssumption DEF IInv, TypeOK, Actors
<1>1. ASSUME NEW p \in Actors,
             \/ p \in Writers /\ writer(p)
             \/ p \in Readers /\ reader(p)
             \/ Call(p)
      PROVE  /\ sem'["queue"] = 1 \/ \E q \in Actors : pc'[q] \in QueueSection
             /\ sem'["num_readers"] = 1 \/ \E r \in Readers : pc'[r] \in CountSection
             /\ sem'["write"] = 1 \/ ReadersHold' \/ \E w \in Writers : Holding(w)'
  <2>1. /\ \A q \in Actors \ {p} : pc'[q] = pc[q]
        /\ UNCHANGED <<restarts, failures>>
    BY <1>1, StepFrame
  <2>2. /\ sem["queue"] = 1 \/ \E q \in Actors : pc[q] \in QueueSection
        /\ sem["num_readers"] = 1 \/ \E r \in Readers : pc[r] \in CountSection
        /\ sem["write"] = 1 \/ ReadersHold \/ \E w \in Writers : Holding(w)
    BY <2>1 DEF NothingLost
  <2>3. sem'["queue"] = 1 \/ \E q \in Actors : pc'[q] \in QueueSection
    BY <1>1, <2>1, <2>2, StepFrame DEF QueueLocked
  <2>4. sem'["num_readers"] = 1 \/ \E r \in Readers : pc'[r] \in CountSection
    <3>1. CASE p \in Writers
      <4>1. p \notin Readers
        BY <3>1, ActorsAssumption
      <4>2. sem'["num_readers"] = sem["num_readers"]
        BY <1>0, <1>1, <4>1 DEF writer, Call, P, V, Go, Sems
      <4> QED
        BY <1>0, <2>1, <2>2, <4>1, <4>2
    <3>2. CASE p \in Readers
      <4>1. CASE pc'[p] \in CountSection
        BY <3>2, <4>1
      <4>2. CASE pc'[p] \notin CountSection /\ pc[p] \in CountSection
        <5>1. p \notin Writers /\ sem["num_readers"] = 0
          BY <3>2, <4>2, ActorsAssumption DEF IInv, CountLocked
        <5>2. sem'["num_readers"] = 1
          BY <1>0, <1>1, <4>2, <5>1
             DEF reader, Call, P, V, Go, Load, StoreCount, FirstIn, LastOut, Sems, CountSection,
                 IInv, TypeOK
        <5> QED
          BY <5>2
      <4>3. CASE pc'[p] \notin CountSection /\ pc[p] \notin CountSection
        <5>1. p \notin Writers
          BY <3>2, ActorsAssumption
        <5>2. sem'["num_readers"] = sem["num_readers"]
          BY <1>0, <1>1, <4>3, <5>1
             DEF reader, Call, P, V, Go, Load, StoreCount, FirstIn, LastOut, Sems, CountSection,
                 IInv, TypeOK
        <5> QED
          BY <1>0, <2>1, <2>2, <4>3, <5>2
      <4> QED
        BY <4>1, <4>2, <4>3
    <3> QED
      BY <3>1, <3>2 DEF Actors
  <2>5. sem'["write"] = 1 \/ ReadersHold' \/ \E w \in Writers : Holding(w)'
    <3>1. CASE p \in Readers
      <4>1. \A w \in Writers : Holding(w) => Holding(w)'
        BY <1>0, <2>1, <3>1, ActorsAssumption DEF Holding
      <4>2. p \notin Writers
        BY <3>1, ActorsAssumption
      <4> QED
        BY <1>1, <2>2, <3>1, <4>1, <4>2, ReaderWrite
    <3>2. CASE p \in Writers
      <4>1. p \notin Readers
        BY <3>2, ActorsAssumption
      <4>2. ReadersHold' <=> ReadersHold
        BY <1>0, <1>1, <2>1, <4>1 DEF ReadersHold, writer, Call, P, V, Go
      <4>3. CASE Holding(p)'
        BY <3>2, <4>3
      <4>4. CASE Holding(p) /\ ~ Holding(p)'
        <5>1. sem["write"] = 0
          BY <3>2, <4>4 DEF IInv, WriteLocked
        <5>2. sem'["write"] = 1
          BY <1>0, <1>1, <4>1, <4>4, <5>1
             DEF writer, Call, P, V, Go, Sems, Holding, IInv, TypeOK
        <5> QED
          BY <5>2
      <4>5. CASE ~ Holding(p) /\ ~ Holding(p)'
        <5>1. sem'["write"] = sem["write"]
          BY <1>0, <1>1, <3>2, <4>1, <4>5
             DEF writer, Call, P, V, Go, Sems, Holding, IInv, TypeOK
        <5>2. \A w \in Writers : Holding(w) => Holding(w)'
          BY <1>0, <2>1, <4>5 DEF Holding
        <5> QED
          BY <2>2, <4>2, <5>1, <5>2
      <4> QED
        BY <4>3, <4>4, <4>5
    <3> QED
      BY <3>1, <3>2 DEF Actors
  <2> QED
    BY <2>3, <2>4, <2>5
<1>2. ASSUME NEW p \in Actors, Fail(p) PROVE FALSE
  BY <1>0, <1>2 DEF Fail, IInv, TypeOK
<1>3. ASSUME Restart PROVE FALSE
  BY <1>0, <1>3 DEF Restart, IInv, TypeOK
<1>4. CASE UNCHANGED vars
  BY <1>4 DEF vars, NothingLost, ReadersHold, Holding
<1> QED
  BY <1>1, <1>2, <1>3, <1>4 DEF Next, Actors

\* Until the program is killed or a call fails, the semaphores are 1 whenever no process
\* is in the protocol: each is given back as often as it is taken.
THEOREM SemaphoresReturn == Spec => []QuietMeansReleased
<1>1. IInv /\ NothingLost => QuietMeansReleased
  <2> SUFFICES ASSUME IInv, NothingLost, restarts + failures = 0,
                      \A p \in Actors : pc[p] = "idle"
               PROVE  \A s \in Sems : sem[s] = 1
    BY DEF QuietMeansReleased
  <2>1. (\A r \in Readers : pc[r] = "idle") /\ \A w \in Writers : pc[w] = "idle"
    BY DEF Actors
  <2>2. n_readers = 0
    <3>1. Cardinality(Counted) = 0
      <4>1. Counted = {}
        BY <2>1 DEF Counted
      <4> QED
        BY <4>1, FS_EmptySet
    <3>2. lost = 0
      BY BoundsAssumption DEF IInv, TypeOK
    <3> QED
      BY <3>1, <3>2 DEF IInv, CountIsExact
  <2>3. ~ ReadersHold /\ \A w \in Writers : ~ Holding(w)
    BY <2>1, <2>2 DEF ReadersHold, Holding
  <2> QED
    BY <2>1, <2>3 DEF NothingLost, QueueSection, CountSection, Sems, Actors
<1>2. Init => NothingLost
  BY DEF Init, NothingLost, Sems
<1>3. IInv /\ IInv' /\ QueueLocked /\ NothingLost /\ [Next]_vars => NothingLost'
  BY LostStep
<1>4. Spec => []NothingLost
  BY <1>2, <1>3, Invariance, QueueInvariance, PTL DEF Spec
<1> QED
  BY <1>1, <1>4, Invariance, PTL
-----------------------------------------------------------------------------
\* A step of one of the four programs is a step of the protocol or leaves it alone.
LEMMA StepIsProtocol == [ObjNext]_allvars => [Next]_vars
<1> SUFFICES ASSUME [ObjNext]_allvars PROVE [Next]_vars
  OBVIOUS
<1>1. ASSUME NEW p \in Actors, Protocol(p) PROVE Next
  BY <1>1 DEF Protocol, Next
<1>2. ASSUME NEW p \in Actors, ObjCall(p) \/ FailFile(p) PROVE Next
  BY <1>2 DEF ObjCall, FailFile, Next
<1>3. ASSUME NEW p \in Actors,
             OpenFile(p) \/ Write(p) \/ push(p) \/ Read(p) \/ pop(p)
      PROVE  UNCHANGED vars
  BY <1>3 DEF OpenFile, Write, push, Read, pop, Pop, Access, Inside, pop_tests,
              pop_loads_num, pop_stores_num, pop_loads_element, pop_loads_back, pop_stores_back
<1>4. ObjRestart => Next
  BY DEF ObjRestart, Next
<1>5. UNCHANGED allvars => UNCHANGED vars
  BY DEF allvars
<1> QED
  BY <1>1, <1>2, <1>3, <1>4, <1>5 DEF ObjNext, Step

\* The programs readwrite_var.c, readwrite_array.c, readwrite_file.c and
\* readwrite_queue.c implement the protocol: what is proved of it holds for each.
THEOREM ProgramsFollowProtocol == ObjSpec => Spec
<1>1. ObjInit => Init
  BY DEF ObjInit
<1> QED
  BY <1>1, StepIsProtocol, PTL DEF ObjSpec, Spec

\* The steps and what the readers have seen are functions, which a step changes at one
\* process.
Functional ==
    /\ at = [p \in Actors |-> at[p]]
    /\ seen = [r \in Readers |-> seen[r]]

LEMMA FunctionalInit == ObjInit => Functional
BY DEF ObjInit, Functional

LEMMA FunctionalNext == Functional /\ [ObjNext]_allvars => Functional'
<1> SUFFICES ASSUME Functional, [ObjNext]_allvars PROVE Functional'
  OBVIOUS
<1> USE DEF Functional
<1>1. ASSUME NEW p \in Actors, Protocol(p) \/ ObjCall(p) \/ FailFile(p) \/ OpenFile(p)
      PROVE  Functional'
  BY <1>1 DEF Protocol, ObjCall, FailFile, OpenFile, To, objects
<1>2. ASSUME NEW p \in Actors, Write(p) \/ push(p) PROVE Functional'
  BY <1>2 DEF Write, push, To
<1>3. ASSUME NEW p \in Readers, Read(p) \/ pop(p) PROVE Functional'
  BY <1>3 DEF Read, pop, Pop, To, pop_tests, pop_loads_num, pop_stores_num,
              pop_loads_element, pop_loads_back, pop_stores_back
<1>4. CASE ObjRestart
  BY <1>4 DEF ObjRestart
<1>5. CASE UNCHANGED allvars
  BY <1>5 DEF allvars, objects
<1> QED
  BY <1>1, <1>2, <1>3, <1>4, <1>5 DEF ObjNext, Step

\* The version stays while it is read: only a writer in its section changes it, and then
\* nobody reads.
LEMMA VersionStays ==
    ASSUME IInv, Functional, ReadsOneVersion, [ObjNext]_allvars
    PROVE  ReadsOneVersion'
<1> SUFFICES ASSUME NEW r \in Readers,
                    pc'[r] = "reading", at'[r] = "done", program' # "queue"
             PROVE  seen'[r] = content'
  BY DEF ReadsOneVersion
<1> USE DEF Functional
<1>r. r \in Actors
  BY DEF Actors
<1>1. ASSUME NEW p \in Actors, Protocol(p) PROVE seen'[r] = content'
  <2>1. p # r
    <3>1. CASE p = r
      BY <1>1, <3>1 DEF Protocol, To, Sections
    <3> QED
      BY <3>1
  <2>2. pc'[r] = pc[r] /\ at'[r] = at[r] /\ seen'[r] = seen[r]
    BY <1>1, <1>r, <2>1, OneMoves DEF Protocol, To
  <2> QED
    BY <1>1, <2>2 DEF Protocol, To, ReadsOneVersion
<1>2. ASSUME NEW p \in Actors, ObjCall(p) \/ FailFile(p) PROVE seen'[r] = content'
  <2>1. p # r
    BY <1>2 DEF ObjCall, FailFile, Call, Fail, Go, IInv, TypeOK
  <2>2. pc'[r] = pc[r] /\ at'[r] = at[r] /\ seen'[r] = seen[r]
    BY <1>2, <1>r, <2>1, OneMoves DEF ObjCall, FailFile, To, objects
  <2> QED
    BY <1>2, <2>2 DEF ObjCall, FailFile, To, objects, ReadsOneVersion
<1>3. ASSUME NEW p \in Actors, OpenFile(p) PROVE seen'[r] = content'
  BY <1>3, <1>r DEF OpenFile, Inside, vars, To, ReadsOneVersion
<1>4. ASSUME NEW w \in Writers, Write(w) PROVE FALSE
  <2>1. pc[w] = "writing" /\ pc[r] = "reading"
    BY <1>4 DEF Write, Access, Inside, Sections, vars, IInv, TypeOK, WriterSteps
  <2> QED
    BY <2>1, Exclusion DEF WriterExcludes
<1>5. ASSUME NEW w \in Writers, push(w) PROVE FALSE
  BY <1>5 DEF push, To
<1>6. ASSUME NEW q \in Readers, Read(q) PROVE seen'[r] = content'
  BY <1>6, <1>r DEF Read, Access, Inside, vars, To, ReadsOneVersion
<1>7. ASSUME NEW q \in Readers, pop(q) PROVE FALSE
  BY <1>7 DEF pop, Pop, To, pop_tests, pop_loads_num, pop_stores_num, pop_loads_element,
              pop_loads_back, pop_stores_back
<1>8. ASSUME ObjRestart PROVE FALSE
  BY <1>8, <1>r DEF ObjRestart, Restart
<1>9. CASE UNCHANGED allvars
  BY <1>9 DEF allvars, vars, objects, ReadsOneVersion
<1> QED
  BY <1>1, <1>2, <1>3, <1>4, <1>5, <1>6, <1>7, <1>8, <1>9 DEF ObjNext, Step

\* A reader of the variable, the array or the file has read what is there for as long as
\* it is in its critical section, for any numbers of readers and writers, kills and
\* failures.
THEOREM ReadersSeeOneVersion == ObjSpec => []ReadsOneVersion
<1>1. ObjInit => ReadsOneVersion
  BY DEF ObjInit, Init, ReadsOneVersion, Actors
<1>2. IInv /\ Functional /\ ReadsOneVersion /\ [ObjNext]_allvars => ReadsOneVersion'
  BY VersionStays
<1>3. ObjSpec => []IInv
  BY ProgramsFollowProtocol, Invariance, PTL
<1>4. ObjSpec => []Functional
  BY FunctionalInit, FunctionalNext, PTL DEF ObjSpec
<1> QED
  BY <1>1, <1>2, <1>3, <1>4, PTL DEF ObjSpec
-----------------------------------------------------------------------------
(***************************************************************************)
(* The order in which pop of readwrite_queue.c gives the elements, for any *)
(* size of the queue.  The elements between back and front are those       *)
(* pushed and not popped, in order, until two readers have been in pop at  *)
(* once or the queue has been full.  A writer does not change them in      *)
(* between, since it writes alone (WritersExclude).                        *)
(***************************************************************************)
Slot(x) == x % BUFFER_SIZE

\* The elements h are in the ring from back on.
Ring(batch, front, back, h) ==
    /\ Len(h) < BUFFER_SIZE
    /\ front = Slot(back + Len(h))
    /\ \A k \in 1 .. Len(h) : batch[Slot(back + k - 1)] = h[k]

\* An index that is behind the end goes round once.
LEMMA Wrap ==
    ASSUME NEW x \in Nat, x < 2 * BUFFER_SIZE
    PROVE  /\ Slot(x) = IF x < BUFFER_SIZE THEN x ELSE x - BUFFER_SIZE
           /\ Slot(x) \in 0 .. BUFFER_SIZE - 1
<1>1. CASE x < BUFFER_SIZE
  BY <1>1, ObjectsAssumption DEF Slot
<1>2. CASE x >= BUFFER_SIZE
  BY <1>2, ObjectsAssumption DEF Slot
<1> QED
  BY <1>1, <1>2, ObjectsAssumption DEF Slot

\* An element is added at the front of a ring that has room for it and one more.
LEMMA RingPush ==
    ASSUME NEW batch \in [0 .. BUFFER_SIZE - 1 -> Values], NEW back \in 0 .. BUFFER_SIZE - 1,
           NEW front, NEW h \in Seq(Values), NEW v \in Values,
           Ring(batch, front, back, h), Len(h) + 1 < BUFFER_SIZE
    PROVE  /\ Ring([batch EXCEPT ![front] = v], Slot(front + 1), back, Append(h, v))
           /\ front \in 0 .. BUFFER_SIZE - 1
<1> DEFINE n == Len(h)
           B == BUFFER_SIZE
<1>1. /\ n \in Nat /\ B \in Nat \ {0} /\ n + 1 < B /\ back \in 0 .. B - 1
      /\ front = Slot(back + n) /\ Len(Append(h, v)) = n + 1
      /\ \A k \in 1 .. n : Append(h, v)[k] = h[k]
      /\ Append(h, v)[n + 1] = v
  BY ObjectsAssumption DEF Ring
<1>2. \A i \in 0 .. n + 1 : /\ Slot(back + i) = IF back + i < B THEN back + i ELSE back + i - B
                            /\ Slot(back + i) \in 0 .. B - 1
  BY <1>1, Wrap
<1>3. front = (IF back + n < B THEN back + n ELSE back + n - B) /\ front \in 0 .. B - 1
  BY <1>1, <1>2
<1>4. Slot(front + 1) = Slot(back + (n + 1))
  <2>1. Slot(front + 1) = IF front + 1 < B THEN front + 1 ELSE front + 1 - B
    BY <1>1, <1>3, Wrap
  <2>2. /\ n + 1 \in 0 .. n + 1
        /\ Slot(back + (n + 1)) = IF back + (n + 1) < B THEN back + (n + 1) ELSE back + (n + 1) - B
    BY <1>1, <1>2
  <2> QED
    BY <1>1, <1>3, <2>1, <2>2
<1>5. ASSUME NEW k \in 1 .. n + 1
      PROVE  [batch EXCEPT ![front] = v][Slot(back + k - 1)] = Append(h, v)[k]
  <2> HIDE DEF n, B
  <2>1. PICK i \in 0 .. n + 1 : i = k - 1 /\ back + i = back + k - 1
    BY <1>1
  <2>2. /\ Slot(back + k - 1) = IF back + k - 1 < B THEN back + k - 1 ELSE back + k - 1 - B
        /\ Slot(back + k - 1) \in 0 .. B - 1
    BY <1>2, <2>1
  <2>3. Slot(back + k - 1) = front <=> k = n + 1
    BY <1>1, <1>3, <2>2
  <2>4. k # n + 1 => batch[Slot(back + k - 1)] = h[k]
    BY <1>1 DEF Ring, n
  <2> QED
    BY <1>1, <2>2, <2>3, <2>4 DEF B
<1> QED
  BY <1>1, <1>3, <1>4, <1>5 DEF Ring

\* The oldest element is at back, and the others follow it.
LEMMA RingPop ==
    ASSUME NEW batch, NEW back \in 0 .. BUFFER_SIZE - 1, NEW front, NEW h \in Seq(Values),
           Ring(batch, front, back, h), h # <<>>
    PROVE  /\ batch[back] = Head(h)
           /\ Ring(batch, front, Slot(back + 1), Tail(h))
           /\ Slot(back + 1) \in 0 .. BUFFER_SIZE - 1
<1> DEFINE n == Len(h)
           B == BUFFER_SIZE
           next == Slot(back + 1)
<1>1. /\ n \in Nat \ {0} /\ B \in Nat \ {0} /\ n < B /\ back \in 0 .. B - 1
      /\ front = Slot(back + n) /\ Len(Tail(h)) = n - 1 /\ Head(h) = h[1]
      /\ \A k \in 1 .. n - 1 : Tail(h)[k] = h[k + 1]
  BY ObjectsAssumption DEF Ring
<1>2. \A i \in 0 .. n : Slot(back + i) = IF back + i < B THEN back + i ELSE back + i - B
  BY <1>1, Wrap
<1>3. next = (IF back + 1 < B THEN back + 1 ELSE back + 1 - B) /\ next \in 0 .. B - 1
  BY <1>1, <1>2
<1>4. batch[back] = Head(h)
  <2>1. Slot(back + 1 - 1) = back
    BY <1>1, <1>2
  <2> QED
    BY <1>1, <2>1 DEF Ring
<1> HIDE DEF next
<1>5. \A i \in 0 .. n - 1 : Slot(next + i) = Slot(back + (i + 1))
  <2> SUFFICES ASSUME NEW i \in 0 .. n - 1 PROVE Slot(next + i) = Slot(back + (i + 1))
    OBVIOUS
  <2>1. Slot(next + i) = IF next + i < B THEN next + i ELSE next + i - B
    BY <1>1, <1>3, Wrap
  <2>2. Slot(back + (i + 1)) = IF back + (i + 1) < B THEN back + (i + 1) ELSE back + (i + 1) - B
    BY <1>1, <1>2
  <2> QED
    BY <1>1, <1>3, <2>1, <2>2
<1>6. Slot(next + (n - 1)) = front
  BY <1>1, <1>5
<1>7. ASSUME NEW k \in 1 .. n - 1
      PROVE  batch[Slot(next + k - 1)] = Tail(h)[k]
  <2>1. next + k - 1 = next + (k - 1) /\ back + (k - 1 + 1) = back + (k + 1) - 1 /\ k - 1 \in 0 .. n - 1
    BY <1>1, <1>3
  <2>2. Slot(next + k - 1) = Slot(back + (k + 1) - 1)
    BY <1>5, <2>1
  <2>3. k + 1 \in 1 .. n
    BY <1>1
  <2>4. batch[Slot(back + (k + 1) - 1)] = h[k + 1]
    BY <2>3 DEF Ring
  <2> QED
    BY <1>1, <2>2, <2>4
<1> QED
  BY <1>1, <1>3, <1>4, <1>6, <1>7 DEF Ring, next-----------------------------------------------------------------------------
InPop(p) == at[p] \in popping

QueueTyped ==
    /\ program \in Programs
    /\ at \in [Actors -> {"done", "begin", "opened"} \cup popping]
    /\ content \in Values
    /\ queue \in [batch : [0 .. BUFFER_SIZE - 1 -> Values], front : 0 .. BUFFER_SIZE - 1,
                  back : 0 .. BUFFER_SIZE - 1, num : Int]
    /\ tmp \in [Readers -> Int]
    /\ seen \in [Readers -> Values]
    /\ held \in Seq(Values)
    /\ crossed \in BOOLEAN
    /\ \A p \in Actors : InPop(p) => program = "queue" /\ p \in Readers /\ pc[p] = "reading"

\* One reader is in pop, or none; the ring, the count and what the reader has loaded are those
\* of the elements held.
Ordered ==
    /\ \A q, r \in Readers : InPop(q) /\ InPop(r) => q = r
    /\ Ring(queue.batch, queue.front, queue.back, held)
    /\ (\A r \in Readers : ~ InPop(r)) => queue.num = Len(held)
    /\ \A r \in Readers :
         /\ InPop(r) => held # <<>>
         /\ at[r] \in {"dec", "dec_store"} => queue.num = Len(held)
         /\ at[r] = "dec_store" => tmp[r] = queue.num
         /\ at[r] \in {"elem", "back", "back_store"} => queue.num = Len(held) - 1
         /\ at[r] \in {"back", "back_store"} => seen[r] = Head(held)
         /\ at[r] = "back_store" => tmp[r] = queue.back

PopInv == QueueTyped /\ (~ crossed => Ordered)

LEMMA PopInit == ObjInit => PopInv
<1> SUFFICES ASSUME ObjInit PROVE PopInv
  OBVIOUS
<1> USE ObjectsAssumption
<1>1. QueueTyped
  <2>1. 0 \in 0 .. BUFFER_SIZE - 1
    OBVIOUS
  <2>2. queue \in [batch : [0 .. BUFFER_SIZE - 1 -> Values], front : 0 .. BUFFER_SIZE - 1,
                   back : 0 .. BUFFER_SIZE - 1, num : Int]
    BY <2>1 DEF ObjInit, initQueue
  <2>3. /\ at \in [Actors -> {"done", "begin", "opened"} \cup popping]
        /\ \A p \in Actors : ~ InPop(p)
    BY DEF ObjInit, InPop, popping
  <2>4. held \in Seq(Values) /\ crossed \in BOOLEAN
    BY DEF ObjInit
  <2>5. tmp \in [Readers -> Int] /\ seen \in [Readers -> Values] /\ content \in Values
    BY DEF ObjInit
  <2> QED
    BY <2>2, <2>3, <2>4, <2>5 DEF ObjInit, QueueTyped
<1>2. Ordered
  <2>1. \A r \in Readers : at[r] = "done"
    BY DEF ObjInit, Actors
  <2>2. Ring(queue.batch, queue.front, queue.back, held) /\ queue.num = Len(held)
    <3>1. Slot(0) = 0
      BY Wrap
    <3> QED
      BY <3>1 DEF ObjInit, initQueue, Ring
  <2> QED
    BY <2>1, <2>2 DEF Ordered, InPop, popping
<1> QED
  BY <1>1, <1>2 DEF PopInv

\* A step elsewhere: nobody moves in pop, and the queue stays what it is.
LEMMA Elsewhere ==
    ASSUME PopInv, UNCHANGED <<queue, tmp, held, crossed>>,
           \A r \in Readers : /\ InPop(r)' <=> InPop(r)
                              /\ InPop(r) => at'[r] = at[r] /\ seen'[r] = seen[r]
    PROVE  ~ crossed' => Ordered'
<1> SUFFICES ASSUME ~ crossed' PROVE Ordered'
  OBVIOUS
<1>1. Ordered
  BY DEF PopInv
<1>2. \A r \in Readers : at'[r] \in popping => at[r] = at'[r] /\ seen'[r] = seen[r]
  BY DEF InPop
<1> QED
  BY <1>1, <1>2 DEF Ordered, InPop, popping

\* A step of a reader in pop, and the others.
LEMMA PopStep ==
    ASSUME IInv, PopInv, NEW r \in Readers, pop(r)
    PROVE  PopInv'
<1> USE ObjectsAssumption DEF PopInv
<1>1. /\ program = "queue" /\ pc[r] = "reading" /\ UNCHANGED vars /\ UNCHANGED program
      /\ r \in Actors /\ UNCHANGED content
      /\ crossed' = (crossed \/ \E q \in Readers \ {r} : at[q] \in popping)
      /\ \A q \in Actors \ {r} : at'[q] = at[q]
      /\ \A q \in Readers \ {r} : tmp'[q] = tmp[q] /\ seen'[q] = seen[q]
  <2>1. r \in Readers /\ r \in Actors /\ \A w \in Writers : w # r
    BY ActorsAssumption DEF Actors
  <2>2. pc[r] \in Sections => pc[r] = "reading"
    BY DEF Sections, IInv, ReadersTyped, ReaderSteps
  <2> QED
    BY <2>1, <2>2
       DEF pop, Pop, Inside, To, pop_tests, pop_loads_num, pop_stores_num, pop_loads_element,
           pop_loads_back, pop_stores_back, QueueTyped
<1>2. QueueTyped'
  <2>1. queue.num \in Int /\ tmp[r] \in Int /\ queue.back \in 0 .. BUFFER_SIZE - 1
    BY DEF QueueTyped
  <2>2. at' \in [Actors -> {"done", "begin", "opened"} \cup popping]
    BY DEF pop, Pop, To, pop_tests, pop_loads_num, pop_stores_num, pop_loads_element,
           pop_loads_back, pop_stores_back, QueueTyped, popping
  <2>3. /\ tmp' \in [Readers -> Int]
        /\ seen' \in [Readers -> Values]
    <3>1. tmp \in [Readers -> Int] /\ seen \in [Readers -> Values] /\ queue.batch[queue.back] \in Values
      BY DEF QueueTyped
    <3>2. CASE pop_loads_element(r)
      BY <3>1, <3>2 DEF pop_loads_element
    <3>3. CASE pop_loads_num(r) \/ pop_loads_back(r) \/ pop_stores_back(r)
      BY <2>1, <3>1, <3>3 DEF pop_loads_num, pop_loads_back, pop_stores_back
    <3>4. CASE pop_tests(r) \/ pop_stores_num(r)
      BY <3>1, <3>4 DEF pop_tests, pop_stores_num
    <3> QED
      BY <3>2, <3>3, <3>4 DEF pop
  <2>4. held' \in Seq(Values)
    <3>1. held \in Seq(Values) /\ (held # <<>> => Tail(held) \in Seq(Values))
      BY DEF QueueTyped
    <3>2. held' = held \/ (held # <<>> /\ held' = Tail(held))
      BY DEF pop, Pop, pop_tests, pop_loads_num, pop_stores_num, pop_loads_element,
             pop_loads_back, pop_stores_back
    <3> QED
      BY <3>1, <3>2
  <2>5. queue' \in [batch : [0 .. BUFFER_SIZE - 1 -> Values], front : 0 .. BUFFER_SIZE - 1,
                    back : 0 .. BUFFER_SIZE - 1, num : Int]
    <3>1. CASE pop_stores_num(r)
      <4>1. PICK n \in Int : queue' = [queue EXCEPT !.num = n]
        BY <2>1, <3>1 DEF pop_stores_num
      <4>2. queue \in [batch : [0 .. BUFFER_SIZE - 1 -> Values], front : 0 .. BUFFER_SIZE - 1,
                       back : 0 .. BUFFER_SIZE - 1, num : Int]
        BY DEF QueueTyped
      <4> QED
        BY ONLY <4>1, <4>2
    <3>2. CASE pop_stores_back(r)
      <4>1. PICK next \in 0 .. BUFFER_SIZE - 1 : queue' = [queue EXCEPT !.back = next]
        <5>1. (tmp[r] + 1) % BUFFER_SIZE \in 0 .. BUFFER_SIZE - 1
          BY <2>1
        <5>2. queue' = [queue EXCEPT !.back = (tmp[r] + 1) % BUFFER_SIZE]
          BY <3>2 DEF pop_stores_back
        <5> QED
          BY ONLY <5>1, <5>2
      <4>2. queue \in [batch : [0 .. BUFFER_SIZE - 1 -> Values], front : 0 .. BUFFER_SIZE - 1,
                       back : 0 .. BUFFER_SIZE - 1, num : Int]
        BY DEF QueueTyped
      <4> QED
        BY ONLY <4>1, <4>2
    <3>3. CASE UNCHANGED queue
      BY <3>3 DEF QueueTyped
    <3> QED
      BY <3>1, <3>2, <3>3
         DEF pop, pop_tests, pop_loads_num, pop_loads_element, pop_loads_back
  <2>6. crossed' \in BOOLEAN
    BY <1>1 DEF QueueTyped
  <2>7. \A p \in Actors : InPop(p)' => program' = "queue" /\ p \in Readers /\ pc'[p] = "reading"
    BY <1>1 DEF QueueTyped, InPop, vars
  <2> QED
    BY <1>1, <2>2, <2>3, <2>4, <2>5, <2>6, <2>7 DEF QueueTyped
<1>3. ASSUME ~ crossed' PROVE Ordered'
  <2>1. Ordered /\ \A q \in Readers \ {r} : at[q] \notin popping /\ at'[q] \notin popping
    BY <1>1, <1>3 DEF QueueTyped, Actors
  <2>2. Len(held) \in Nat /\ (held # <<>> <=> Len(held) > 0)
    BY DEF QueueTyped
  <2>3. ~ InPop(r) => queue.num = Len(held)
    BY <2>1 DEF Ordered, InPop
  <2>4. CASE pop_tests(r)
    <3>1. at[r] = "begin" /\ UNCHANGED <<queue, held>>
          /\ at'[r] = IF queue.num = 0 THEN "done" ELSE "dec"
      BY <1>1, <2>4 DEF pop_tests, Pop, Inside, To, QueueTyped
    <3>2. queue.num = Len(held)
      BY <2>3, <3>1 DEF InPop, popping
    <3> QED
      BY <2>1, <2>2, <3>1, <3>2 DEF Ordered, InPop, popping
  <2>5. CASE pop_loads_num(r)
    <3>1. at[r] = "dec" /\ at'[r] = "dec_store" /\ UNCHANGED <<queue, held>>
          /\ tmp'[r] = queue.num
      BY <1>1, <2>5 DEF pop_loads_num, Pop, Inside, To, QueueTyped
    <3> QED
      BY <2>1, <3>1 DEF Ordered, InPop, popping
  <2>6. CASE pop_stores_num(r)
    <3>1. /\ at[r] = "dec_store" /\ at'[r] = "elem" /\ UNCHANGED held
          /\ queue'.num = tmp[r] - 1 /\ queue'.batch = queue.batch
          /\ queue'.front = queue.front /\ queue'.back = queue.back
      BY <1>1, <2>6 DEF pop_stores_num, Pop, Inside, To, QueueTyped
    <3> QED
      BY <2>1, <3>1 DEF Ordered, InPop, popping
  <2>7. CASE pop_loads_element(r)
    <3>1. /\ at[r] = "elem" /\ at'[r] = "back" /\ UNCHANGED <<queue, held>>
          /\ seen'[r] = queue.batch[queue.back]
      BY <1>1, <2>7 DEF pop_loads_element, Pop, Inside, To, QueueTyped
    <3>2. held # <<>> /\ Ring(queue.batch, queue.front, queue.back, held)
      BY <2>1, <3>1 DEF Ordered, InPop, popping
    <3>3. queue.batch[queue.back] = Head(held)
      BY <3>2, RingPop DEF QueueTyped
    <3> QED
      BY <2>1, <3>1, <3>3 DEF Ordered, InPop, popping
  <2>8. CASE pop_loads_back(r)
    <3>1. /\ at[r] = "back" /\ at'[r] = "back_store" /\ UNCHANGED <<queue, held, seen>>
          /\ tmp'[r] = queue.back
      BY <1>1, <2>8 DEF pop_loads_back, Pop, Inside, To, QueueTyped
    <3> QED
      BY <2>1, <3>1 DEF Ordered, InPop, popping
  <2>9. CASE pop_stores_back(r)
    <3>1. /\ at[r] = "back_store" /\ at'[r] = "done"
          /\ held' = IF held = <<>> THEN held ELSE Tail(held)
          /\ queue'.num = queue.num /\ queue'.batch = queue.batch
          /\ queue'.front = queue.front /\ queue'.back = Slot(tmp[r] + 1)
      BY <1>1, <2>9 DEF pop_stores_back, Pop, Inside, To, QueueTyped, Slot
    <3>2. /\ held # <<>> /\ Ring(queue.batch, queue.front, queue.back, held)
          /\ tmp[r] = queue.back /\ queue.num = Len(held) - 1
      BY <2>1, <3>1 DEF Ordered, InPop, popping
    <3>3. Ring(queue.batch, queue.front, Slot(queue.back + 1), Tail(held))
      BY <3>2, RingPop DEF QueueTyped
    <3>4. Len(Tail(held)) = Len(held) - 1
      BY <3>2 DEF QueueTyped
    <3> QED
      BY <2>1, <3>1, <3>2, <3>3, <3>4 DEF Ordered, InPop, popping
  <2> QED
    BY <2>4, <2>5, <2>6, <2>7, <2>8, <2>9 DEF pop
<1> QED
  BY <1>2, <1>3

\* A writer pushes while nobody is in pop.
LEMMA PushStep ==
    ASSUME IInv, PopInv, NEW w \in Writers, push(w)
    PROVE  PopInv'
<1> USE ObjectsAssumption DEF PopInv
<1>1. /\ w \in Actors /\ w \notin Readers /\ pc[w] = "writing" /\ at[w] = "begin"
      /\ UNCHANGED vars /\ at'[w] = "done" /\ program = "queue"
      /\ UNCHANGED <<program, content, tmp, seen>>
      /\ \A q \in Actors \ {w} : at'[q] = at[q]
      /\ at' \in [Actors -> {"done", "begin", "opened"} \cup popping]
  <2>1. w \in Actors /\ w \notin Readers
    BY ActorsAssumption DEF Actors
  <2>2. pc[w] \in Sections => pc[w] = "writing"
    BY DEF Sections, IInv, TypeOK, WriterSteps
  <2> QED
    BY <2>1, <2>2 DEF push, Inside, To, QueueTyped
<1>2. \A r \in Readers : at[r] \notin popping /\ at'[r] \notin popping
  <2>1. WriterExcludes
    BY Exclusion
  <2>2. \A r \in Readers : pc[r] # "reading"
    BY <1>1, <2>1 DEF WriterExcludes
  <2> QED
    BY <1>1, <2>2 DEF QueueTyped, InPop, Actors
<1>3. PICK v \in Values :
        IF queue.num + 1 = BUFFER_SIZE
        THEN /\ queue' = [queue EXCEPT !.num = @ + 1]
             /\ crossed' = TRUE
             /\ UNCHANGED held
        ELSE /\ queue' = [queue EXCEPT !.num = @ + 1, !.batch[queue.front] = v,
                                       !.front = Slot(queue.front + 1)]
             /\ held' = Append(held, v)
             /\ UNCHANGED crossed
  BY DEF push, Slot
<1>4. /\ queue.num + 1 \in Int /\ Slot(queue.front + 1) \in 0 .. BUFFER_SIZE - 1
      /\ [queue.batch EXCEPT ![queue.front] = v] \in [0 .. BUFFER_SIZE - 1 -> Values]
  BY Wrap DEF QueueTyped
<1>5. QueueTyped'
  <2>1. queue' \in [batch : [0 .. BUFFER_SIZE - 1 -> Values], front : 0 .. BUFFER_SIZE - 1,
                    back : 0 .. BUFFER_SIZE - 1, num : Int]
    <3>1. CASE queue' = [queue EXCEPT !.num = @ + 1]
      BY <1>4, <3>1 DEF QueueTyped
    <3>2. CASE queue' = [queue EXCEPT !.num = @ + 1, !.batch[queue.front] = v,
                                     !.front = Slot(queue.front + 1)]
      BY <1>4, <3>2 DEF QueueTyped
    <3> QED
      BY <1>3, <3>1, <3>2
  <2>2. held' \in Seq(Values) /\ crossed' \in BOOLEAN
    <3>1. held \in Seq(Values) /\ Append(held, v) \in Seq(Values)
      BY DEF QueueTyped
    <3>2. held' \in {held, Append(held, v)} /\ crossed' \in {TRUE, crossed}
      BY <1>3
    <3> QED
      BY <3>1, <3>2 DEF QueueTyped
  <2>3. \A p \in Actors : InPop(p)' => program' = "queue" /\ p \in Readers /\ pc'[p] = "reading"
    BY <1>1 DEF QueueTyped, InPop, popping, vars
  <2> QED
    BY <1>1, <2>1, <2>2, <2>3 DEF QueueTyped
<1>6. ASSUME ~ crossed' PROVE Ordered'
  <2>1. /\ queue.num + 1 # BUFFER_SIZE /\ held' = Append(held, v) /\ ~ crossed
        /\ queue'.num = queue.num + 1 /\ queue'.back = queue.back
        /\ queue'.batch = [queue.batch EXCEPT ![queue.front] = v]
        /\ queue'.front = Slot(queue.front + 1)
    BY <1>3, <1>6 DEF QueueTyped
  <2>2. Ordered /\ Ring(queue.batch, queue.front, queue.back, held)
    BY <2>1 DEF Ordered
  <2>3. queue.num = Len(held) /\ Len(held) \in Nat /\ Len(held) < BUFFER_SIZE
    <3>1. Len(held) \in Nat
      BY DEF QueueTyped
    <3>2. queue.num = Len(held)
      BY <1>2, <2>2 DEF Ordered, InPop
    <3> QED
      BY <2>2, <3>1, <3>2 DEF Ring
  <2>4. Ring([queue.batch EXCEPT ![queue.front] = v], Slot(queue.front + 1), queue.back,
             Append(held, v))
    <3>1. /\ queue.batch \in [0 .. BUFFER_SIZE - 1 -> Values] /\ held \in Seq(Values)
          /\ queue.back \in 0 .. BUFFER_SIZE - 1
      BY DEF QueueTyped
    <3>2. Len(held) + 1 < BUFFER_SIZE
      BY <2>1, <2>3
    <3> QED
      BY <2>2, <3>1, <3>2, RingPush
  <2>5. Len(Append(held, v)) = Len(held) + 1
    BY DEF QueueTyped
  <2> QED
    BY <1>2, <2>1, <2>3, <2>4, <2>5 DEF Ordered, InPop, popping
<1> QED
  BY <1>5, <1>6

LEMMA PopInvNext == IInv /\ PopInv /\ [ObjNext]_allvars => PopInv'
<1> SUFFICES ASSUME IInv, PopInv, [ObjNext]_allvars PROVE PopInv'
  OBVIOUS
<1> USE ObjectsAssumption
<1>0. QueueTyped /\ Readers \subseteq Actors /\ \A r \in Readers : r \notin Writers
  BY ActorsAssumption DEF PopInv, Actors
<1>1. ASSUME NEW p \in Actors, Protocol(p) \/ ObjCall(p) \/ FailFile(p) \/ OpenFile(p)
      PROVE  PopInv'
  <2>1. /\ UNCHANGED <<program, content, queue, tmp, held, crossed>>
        /\ at' \in [Actors -> {"done", "begin", "opened"} \cup popping]
        /\ seen' \in [Readers -> Values]
        /\ \A q \in Actors \ {p} : at'[q] = at[q]
        /\ \A q \in Readers \ {p} : seen'[q] = seen[q]
    BY <1>0, <1>1 DEF Protocol, ObjCall, FailFile, OpenFile, To, objects, QueueTyped
  <2>2. \A q \in Actors \ {p} : pc'[q] = pc[q]
    BY <1>1, OneMoves DEF Protocol, ObjCall, FailFile, OpenFile, Inside, vars
  <2>3. ~ InPop(p) /\ ~ InPop(p)'
    <3>1. CASE Protocol(p)
      BY <1>0, <3>1 DEF Protocol, To, QueueTyped, InPop, popping, Sections
    <3>2. CASE ObjCall(p)
      BY <1>0, <3>2 DEF ObjCall, Call, objects, QueueTyped, InPop
    <3>3. CASE FailFile(p) \/ OpenFile(p)
      BY <1>0, <3>3 DEF FailFile, OpenFile, Inside, To, QueueTyped, InPop, popping
    <3> QED
      BY <1>1, <3>1, <3>2, <3>3
  <2>4. \A q \in Actors : InPop(q)' <=> InPop(q)
    BY <2>1, <2>3 DEF InPop
  <2>5. QueueTyped'
    BY <1>0, <2>1, <2>2, <2>3, <2>4 DEF QueueTyped
  <2>6. \A r \in Readers : /\ InPop(r)' <=> InPop(r)
                           /\ InPop(r) => at'[r] = at[r] /\ seen'[r] = seen[r]
    BY <1>0, <2>1, <2>3, <2>4
  <2> QED
    BY <2>1, <2>5, <2>6, Elsewhere DEF PopInv
<1>2. ASSUME NEW p \in Actors, (p \in Writers /\ Write(p)) \/ (p \in Readers /\ Read(p))
      PROVE  PopInv'
  <2>1. /\ UNCHANGED <<program, queue, tmp, held, crossed>> /\ UNCHANGED vars
        /\ at[p] \in {"begin", "opened"} /\ at'[p] = "done"
        /\ at' \in [Actors -> {"done", "begin", "opened"} \cup popping]
        /\ seen' \in [Readers -> Values] /\ content' \in Values
        /\ \A q \in Actors \ {p} : at'[q] = at[q]
        /\ \A q \in Readers \ {p} : seen'[q] = seen[q]
    BY <1>0, <1>2 DEF Write, Read, Access, Inside, To, QueueTyped
  <2>2. ~ InPop(p) /\ ~ InPop(p)'
    BY <2>1 DEF InPop, popping
  <2>3. \A q \in Actors : InPop(q)' <=> InPop(q)
    BY <2>1, <2>2 DEF InPop
  <2>4. QueueTyped'
    BY <1>0, <2>1, <2>3 DEF QueueTyped, vars
  <2>5. \A r \in Readers : /\ InPop(r)' <=> InPop(r)
                           /\ InPop(r) => at'[r] = at[r] /\ seen'[r] = seen[r]
    BY <1>0, <2>1, <2>2, <2>3
  <2> QED
    BY <2>1, <2>4, <2>5, Elsewhere DEF PopInv
<1>3. ASSUME NEW w \in Writers, push(w) PROVE PopInv'
  BY <1>3, PushStep
<1>4. ASSUME NEW r \in Readers, pop(r) PROVE PopInv'
  BY <1>4, PopStep
<1>5. CASE ObjRestart
  <2>1. QueueTyped'
    <3>1. queue' = initQueue(queue.batch) /\ 0 \in 0 .. BUFFER_SIZE - 1
      BY <1>5 DEF ObjRestart
    <3>2. queue' \in [batch : [0 .. BUFFER_SIZE - 1 -> Values], front : 0 .. BUFFER_SIZE - 1,
                      back : 0 .. BUFFER_SIZE - 1, num : Int]
      BY <1>0, <3>1 DEF QueueTyped, initQueue
    <3> QED
      <4>1. /\ at' \in [Actors -> {"done", "begin", "opened"} \cup popping]
            /\ \A p \in Actors : ~ InPop(p)'
        BY <1>5 DEF ObjRestart, InPop, popping
      <4>2. held' \in Seq(Values) /\ crossed' \in BOOLEAN /\ tmp' \in [Readers -> Int]
        <5>1. held' \in Seq(Values)
          BY <1>5 DEF ObjRestart
        <5>2. crossed' \in BOOLEAN
          BY <1>5 DEF ObjRestart
        <5>3. tmp' \in [Readers -> Int]
          BY <1>5 DEF ObjRestart
        <5> QED
          BY <5>1, <5>2, <5>3
      <4>3. content' \in Values /\ seen' \in [Readers -> Values] /\ program' \in Programs
        BY <1>0, <1>5 DEF ObjRestart, QueueTyped
      <4> QED
        BY <3>2, <4>1, <4>2, <4>3 DEF QueueTyped
  <2>2. \A r \in Readers : at'[r] = "done"
    BY <1>0, <1>5 DEF ObjRestart
  <2>3. Ring(queue'.batch, queue'.front, queue'.back, held') /\ queue'.num = Len(held')
    <3>1. Slot(0) = 0
      BY Wrap
    <3> QED
      BY <1>5, <3>1 DEF ObjRestart, initQueue, Ring
  <2>4. Ordered'
    BY <2>2, <2>3 DEF Ordered, InPop, popping
  <2> QED
    BY <2>1, <2>4 DEF PopInv
<1>6. CASE UNCHANGED allvars
  <2>1. UNCHANGED <<program, at, content, queue, tmp, seen, held, crossed, pc>>
    BY <1>6 DEF allvars, objects, vars
  <2> QED
    BY <2>1 DEF PopInv, QueueTyped, Ordered, InPop
<1> QED
  BY <1>1, <1>2, <1>3, <1>4, <1>5, <1>6 DEF ObjNext, Step

\* pop gives the elements in the order in which they were pushed, until two readers have
\* been in it at once or the queue has been full, for any size of the queue.
THEOREM ElementsInOrder == ObjSpec => PopsInOrder
<1>1. ObjSpec => []PopInv
  <2>1. ObjSpec => []IInv
    BY ProgramsFollowProtocol, Invariance, PTL
  <2> QED
    BY <2>1, PopInit, PopInvNext, PTL DEF ObjSpec
<1>2. ASSUME PopInv, [ObjNext]_allvars, NEW r \in Readers,
             at[r] = "back_store", at'[r] = "done", restarts' = restarts, ~ crossed'
      PROVE  held # <<>> /\ seen[r] = Head(held)
  <2>1. ~ crossed
    <3>1. CASE ObjRestart
      BY <1>2, <3>1, BoundsAssumption DEF ObjRestart, Restart
    <3>2. CASE ~ ObjRestart
      BY <1>2, <3>2
         DEF ObjNext, Step, ObjCall, Protocol, OpenFile, FailFile, Write, Read, push, pop, Pop,
             pop_tests, pop_loads_num, pop_stores_num, pop_loads_element, pop_loads_back,
             pop_stores_back, objects, allvars
    <3> QED
      BY <3>1, <3>2
  <2> QED
    BY <1>2, <2>1 DEF PopInv, Ordered, InPop, popping
<1>3. PopInv /\ [ObjNext]_allvars
      => [\A r \in Readers :
            /\ at[r] = "back_store" /\ at'[r] = "done" /\ restarts' = restarts
            /\ ~ crossed'
            => held # <<>> /\ seen[r] = Head(held)]_allvars
  BY <1>2
<1> QED
  BY <1>1, <1>3, PTL DEF ObjSpec, PopsInOrder
=============================================================================
