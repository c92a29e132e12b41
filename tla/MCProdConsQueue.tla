--------------------------- MODULE MCProdConsQueue ---------------------------
(* Small instances of ProdConsQueue for TLC. *)
EXTENDS ProdConsQueue, TLC

CONSTANTS p1, p2, c1, c2, notfull, notempty

ProcsSymmetry == Permutations(Producers) \cup Permutations(Consumers)
=============================================================================
