----------------------------- MODULE MCSharedFile -----------------------------
(* Small instances of SharedFile for TLC. *)
EXTENDS SharedFile, TLC

CONSTANTS p1, p2, c1, c2, newdata

ProcsSymmetry == Permutations(Producers) \cup Permutations(Consumers)
=============================================================================
