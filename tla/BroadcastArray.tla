---------------------------- MODULE BroadcastArray ----------------------------
(***************************************************************************)
(* What the shared array of src/src/CommonAssignmentIPC02/array.c promises *)
(* to its users: a value produced at an index is delivered, once, to every *)
(* consumer that is registered when it is produced and to no other, and a  *)
(* producer waits until they have all consumed the previous one.           *)
(***************************************************************************)
CONSTANTS Consumers, Indexes, Values, NoValue

VARIABLES
    members,    \* the registered consumers
    slot,       \* the value that each consumer has to consume at each index
    value       \* the last value that each consumer has consumed
vars == <<members, slot, value>>

Init ==
    /\ members = {}
    /\ slot = [c \in Consumers |-> [i \in Indexes |-> NoValue]]
    /\ value \in [Consumers -> Values \cup {NoValue}]

Join(c) ==
    /\ c \notin members
    /\ members' = members \cup {c}
    /\ UNCHANGED <<slot, value>>

Leave(c) ==
    /\ c \in members
    /\ members' = members \ {c}
    /\ slot' = [slot EXCEPT ![c] = [i \in Indexes |-> NoValue]]
    /\ UNCHANGED value

Produce(i, v) ==
    /\ \A c \in members : slot[c][i] = NoValue
    /\ slot' = [c \in Consumers |->
                    IF c \in members THEN [slot[c] EXCEPT ![i] = v] ELSE slot[c]]
    /\ UNCHANGED <<members, value>>

Consume(c, i) ==
    /\ c \in members
    /\ slot[c][i] # NoValue
    /\ value' = [value EXCEPT ![c] = slot[c][i]]
    /\ slot' = [slot EXCEPT ![c][i] = NoValue]
    /\ UNCHANGED members

Next ==
    \/ \E c \in Consumers : Join(c) \/ Leave(c)
    \/ \E i \in Indexes, v \in Values : Produce(i, v)
    \/ \E c \in Consumers, i \in Indexes : Consume(c, i)

Spec == Init /\ [][Next]_vars
=============================================================================
