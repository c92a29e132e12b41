------------------------------ MODULE SharedLog ------------------------------
(***************************************************************************)
(* What the shared file of src/src/CommonAssignmentIPC02/file.c promises   *)
(* to its users: the file is a log that the producers append to, and every *)
(* consumer reads it record after record from the beginning, in the order  *)
(* of production, without skipping or repeating one.                       *)
(***************************************************************************)
EXTENDS Naturals, Sequences

CONSTANTS Consumers, Records

VARIABLES
    log,    \* what has been produced
    seen    \* what each consumer has consumed

Init ==
    /\ log \in Seq(Records)
    /\ seen = [c \in Consumers |-> <<>>]

Produce(r) ==
    /\ log' = Append(log, r)
    /\ UNCHANGED seen

Consume(c) ==
    /\ Len(seen[c]) < Len(log)
    /\ seen' = [seen EXCEPT ![c] = Append(@, log[Len(@) + 1])]
    /\ UNCHANGED log

Next == (\E r \in Records : Produce(r)) \/ (\E c \in Consumers : Consume(c))
=============================================================================
