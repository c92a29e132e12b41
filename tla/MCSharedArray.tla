---------------------------- MODULE MCSharedArray ----------------------------
(* Small instances of SharedArray for TLC: the consumers and the values are   *)
(* interchangeable.                                                           *)
EXTENDS SharedArray, TLC

CONSTANTS p1, c1, c2, v1, v2, newres, hasconsumed

ArraySymmetry == Permutations(Consumers) \cup Permutations(Values)
=============================================================================
