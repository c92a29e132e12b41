----------------------------- MODULE BoundedQueue -----------------------------
(***************************************************************************)
(* What a queue between producers and consumers promises: the values come  *)
(* out once each, in the order in which they went in.  The program that    *)
(* created it may empty it.                                                *)
(***************************************************************************)
EXTENDS Integers, Sequences

CONSTANTS Consumers, Values, MaxLen

VARIABLES
    items,      \* the values in the queue
    taken       \* the last value that each consumer has taken
vars == <<items, taken>>

Init == items = <<>> /\ taken \in [Consumers -> Values \cup {0}]

Put(v) ==
    /\ Len(items) < MaxLen
    /\ items' = Append(items, v)
    /\ UNCHANGED taken

Take(c) ==
    /\ items # <<>>
    /\ taken' = [taken EXCEPT ![c] = Head(items)]
    /\ items' = Tail(items)

Empty == items' = <<>> /\ UNCHANGED taken

Next == (\E v \in Values : Put(v)) \/ (\E c \in Consumers : Take(c)) \/ Empty

Spec == Init /\ [][Next]_vars
=============================================================================
