------------------------------ MODULE ProdConsVar ------------------------------
(***************************************************************************)
(* The producer and the consumer of one variable,                          *)
(* src/src/CommonAssignmentIPC02/main_prod.c and main_cons.c, with the     *)
(* life of the System V objects that they share: a step is one system call *)
(* of get_sem, get_shm, wait_sem, signal_sem, remove_sem and remove_shm.   *)
(*                                                                         *)
(* Programs are started, quit at the end of their input and are killed; a  *)
(* program that quits removes the objects under the others.  A removed set *)
(* has no key any more, so that the set that lives is the one that its key *)
(* names; a segment lives on while a process is attached to it.            *)
(***************************************************************************)
EXTENDS Integers, FiniteSets

CONSTANTS
    Procs,
    MaxStarts,  \* how often a program is started
    MaxKills    \* how many programs are killed

ASSUME BoundsAssumption == IsFiniteSet(Procs) /\ MaxStarts \in Nat /\ MaxKills \in Nat

SemKeys == {"notfull", "notempty"}
Keys == SemKeys \cup {"shared"}

VARIABLES
    named,      \* the object that a key names
    created,    \* how many objects have been created with a key
    val,        \* the value of the set that a key names
    fresh,      \* the segments with a value that nobody has consumed
    program,    \* which program a process runs
    ids,        \* the objects of a process
    todo,       \* what it does next, and on which key
    starts, kills,
    late,       \* history: SETALL has overwritten a signal
    triples     \* history: the objects that a program has worked with
varVars == <<named, created, val, fresh, program, ids, todo, starts, kills, late, triples>>

attached == {"read", "wait", "access", "signal", "remove"}

To(p, step, k) == todo' = [todo EXCEPT ![p] = <<step, k>>]
At(p, step) == todo[p][1] = step
key(p) == todo[p][2]
Alive(p, k) == ids[p][k] # 0 /\ named[k] = ids[p][k]

initsem == [notfull |-> 1, notempty |-> 0]

\* get_sem and get_shm return: main goes on with the next object.
Got(p, k) ==
    \/ k = "notfull" /\ To(p, "create", "notempty")
    \/ k = "notempty" /\ To(p, "create", "shared")
    \/ k = "shared" /\ To(p, "attach", "shared")

\* exit calls exit_procedure.
Exit(p) == To(p, "remove", "shared")
-----------------------------------------------------------------------------
Start(p) ==
    /\ At(p, "off") /\ starts < MaxStarts
    /\ starts' = starts + 1
    /\ program' \in {[program EXCEPT ![p] = prog] : prog \in {"prod", "cons"}}
    /\ To(p, "create", "notfull")
    /\ UNCHANGED <<named, created, val, fresh, ids, kills, late, triples>>

\* semget and shmget with IPC_CREAT and IPC_EXCL. A new set is 0 until SETALL.
create(p) ==
    /\ At(p, "create")
    /\ LET k == key(p) IN
         IF named[k] # 0
         THEN To(p, "get", k) /\ UNCHANGED <<named, created, val, ids>>
         ELSE /\ created' = [created EXCEPT ![k] = @ + 1]
              /\ named' = [named EXCEPT ![k] = created[k] + 1]
              /\ ids' = [ids EXCEPT ![p][k] = created[k] + 1]
              /\ val' = IF k \in SemKeys THEN [val EXCEPT ![k] = 0] ELSE val
              /\ To(p, IF k \in SemKeys THEN "setall" ELSE "attach", k)
    /\ UNCHANGED <<fresh, program, starts, kills, late, triples>>

\* Mutant: a set that exists is initialised too.
get_initialises(p) ==
    /\ At(p, "get")
    /\ LET k == key(p) IN
         IF named[k] = 0
         THEN Exit(p) /\ UNCHANGED ids
         ELSE /\ ids' = [ids EXCEPT ![p][k] = named[k]]
              /\ IF k \in SemKeys THEN To(p, "setall", k) ELSE Got(p, k)
    /\ UNCHANGED <<named, created, val, fresh, program, starts, kills, late, triples>>

\* It exists: the second semget or shmget, which fails when it has been removed since.
get(p) ==
    /\ At(p, "get")
    /\ LET k == key(p) IN
         IF named[k] = 0
         THEN Exit(p) /\ UNCHANGED ids
         ELSE ids' = [ids EXCEPT ![p][k] = named[k]] /\ Got(p, k)
    /\ UNCHANGED <<named, created, val, fresh, program, starts, kills, late, triples>>

\* SETALL overwrites what others have signalled since the set exists.
setall(p) ==
    /\ At(p, "setall")
    /\ LET k == key(p) IN
         IF Alive(p, k)
         THEN /\ val' = [val EXCEPT ![k] = initsem[k]]
              /\ late' = (late \/ val[k] # 0)
              /\ Got(p, k)
              /\ UNCHANGED ids
         ELSE /\ ids' = [ids EXCEPT ![p][k] = 0]
              /\ Exit(p)
              /\ UNCHANGED <<val, late>>
    /\ UNCHANGED <<named, created, fresh, program, starts, kills, triples>>

\* shmat works on a removed segment for as long as another process is attached to it.
attach(p) ==
    /\ At(p, "attach")
    /\ IF \/ Alive(p, "shared")
          \/ \E q \in Procs : ids[q]["shared"] = ids[p]["shared"] /\ todo[q][1] \in attached
       THEN /\ To(p, "read", "shared")
            /\ triples' = triples \cup {ids[p]}
            /\ UNCHANGED ids
       ELSE /\ ids' = [ids EXCEPT ![p]["shared"] = 0]
            /\ Exit(p)
            /\ UNCHANGED triples
    /\ UNCHANGED <<named, created, val, fresh, program, starts, kills, late>>
-----------------------------------------------------------------------------
\* getchar: a key, or the end of the input.
read(p) ==
    /\ At(p, "read")
    /\ \/ To(p, "wait", IF program[p] = "prod" THEN "notfull" ELSE "notempty")
       \/ Exit(p)
    /\ UNCHANGED <<named, created, val, fresh, program, ids, starts, kills, late, triples>>

\* Mutant: the error of wait_sem is not checked.
wait_sem_unchecked(p) ==
    /\ At(p, "wait")
    /\ Alive(p, key(p)) => val[key(p)] > 0
    /\ val' = IF Alive(p, key(p)) THEN [val EXCEPT ![key(p)] = @ - 1] ELSE val
    /\ To(p, "access", "shared")
    /\ UNCHANGED <<named, created, fresh, program, ids, starts, kills, late, triples>>

\* A set that is removed ends the wait with an error.
wait_sem(p) ==
    /\ At(p, "wait")
    /\ IF Alive(p, key(p))
       THEN /\ val[key(p)] > 0
            /\ val' = [val EXCEPT ![key(p)] = @ - 1]
            /\ To(p, "access", "shared")
       ELSE Exit(p) /\ UNCHANGED val
    /\ UNCHANGED <<named, created, fresh, program, ids, starts, kills, late, triples>>

access(p) ==
    /\ At(p, "access")
    /\ LET s == {ids[p]["shared"]} IN
         fresh' = IF program[p] = "prod" THEN fresh \cup s ELSE fresh \ s
    /\ To(p, "signal", IF program[p] = "prod" THEN "notempty" ELSE "notfull")
    /\ UNCHANGED <<named, created, val, program, ids, starts, kills, late, triples>>

signal_sem(p) ==
    /\ At(p, "signal")
    /\ IF Alive(p, key(p))
       THEN val' = [val EXCEPT ![key(p)] = @ + 1] /\ To(p, "read", "shared")
       ELSE Exit(p) /\ UNCHANGED val
    /\ UNCHANGED <<named, created, fresh, program, ids, starts, kills, late, triples>>
-----------------------------------------------------------------------------
NoIds == [k \in Keys |-> 0]

\* Mutant: exit_procedure returns when the segment has gone.
exit_procedure_stops(p) ==
    /\ At(p, "remove")
    /\ LET k == key(p)
           last == k = "notempty" \/ ~Alive(p, k) IN
         /\ named' = IF Alive(p, k) THEN [named EXCEPT ![k] = 0] ELSE named
         /\ To(p, IF last THEN "off" ELSE "remove",
                  IF k = "shared" /\ ~last THEN "notfull" ELSE "notempty")
         /\ ids' = IF last THEN [ids EXCEPT ![p] = NoIds] ELSE ids
    /\ UNCHANGED <<created, val, fresh, program, starts, kills, late, triples>>

\* The segment, notfull and notempty are removed in this order.
exit_procedure(p) ==
    /\ At(p, "remove")
    /\ LET k == key(p) IN
         /\ named' = IF Alive(p, k) THEN [named EXCEPT ![k] = 0] ELSE named
         /\ To(p, IF k = "notempty" THEN "off" ELSE "remove",
                  IF k = "shared" THEN "notfull" ELSE "notempty")
         /\ ids' = IF k = "notempty" THEN [ids EXCEPT ![p] = NoIds] ELSE ids
    /\ UNCHANGED <<created, val, fresh, program, starts, kills, late, triples>>

\* Nothing catches the signals: exit_procedure does not run.
Kill(p) ==
    /\ ~At(p, "off") /\ kills < MaxKills
    /\ kills' = kills + 1
    /\ To(p, "off", "notempty")
    /\ ids' = [ids EXCEPT ![p] = NoIds]
    /\ UNCHANGED <<named, created, val, fresh, program, starts, late, triples>>

VarInit ==
    /\ named = NoIds /\ created = NoIds
    /\ val = [k \in SemKeys |-> 0]
    /\ fresh = {}
    /\ program = [p \in Procs |-> "prod"]
    /\ ids = [p \in Procs |-> NoIds]
    /\ todo = [p \in Procs |-> <<"off", "notempty">>]
    /\ starts = 0 /\ kills = 0
    /\ late = FALSE
    /\ triples = {}

Run(p) ==
    \/ create(p) \/ get(p) \/ setall(p) \/ attach(p) \/ read(p)
    \/ wait_sem(p) \/ access(p) \/ signal_sem(p) \/ exit_procedure(p)

VarNext == \E p \in Procs : Start(p) \/ Run(p) \/ Kill(p)

VarSpec == VarInit /\ [][VarNext]_varVars
-----------------------------------------------------------------------------
\* Two programs have worked with some of the same objects and with some that differ: one
\* was started while another one was removing them.
Mixed == \E t, u \in triples : t # u /\ \E k \in Keys : t[k] = u[k]

\* The variable changes hands: of the programs that work with the same two sets exactly
\* one is between its wait and its signal, or one of the sets is 1 for the next one,
\* once the sets are initialised and unless SETALL came late, objects were mixed or a program was killed.
OneRight ==
    \A t \in triples :
        /\ ~late /\ ~Mixed /\ kills = 0
        /\ \A k \in SemKeys : named[k] = t[k]
        /\ \A p \in Procs : At(p, "setall") => ~Alive(p, key(p))
        => val["notfull"] + val["notempty"]
           + Cardinality({p \in Procs : ids[p] = t /\ todo[p][1] \in {"access", "signal"}}) = 1

\* "Wait for content to be consumed and buffer to be empty" (main_prod.c:95): every value
\* is consumed once, none is overwritten before, also when programs are killed and
\* started again on what they left.
ValuePassedOnce ==
    [][\A p \in Procs :
        /\ At(p, "access") /\ todo'[p][1] = "signal"
        /\ ~late /\ ~Mixed
        => (ids[p]["shared"] \in fresh) = (program[p] = "cons")]_varVars

\* exit_procedure removes what its program has: when no program runs, nothing is left in
\* the kernel, whoever created or removed the objects first, unless one was killed.
NothingLeft == kills = 0 /\ (\A p \in Procs : At(p, "off")) => \A k \in Keys : named[k] = 0
=============================================================================
