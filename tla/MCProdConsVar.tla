---------------------------- MODULE MCProdConsVar ----------------------------
(* Constants of the instance of ProdConsVar that TLC checks. *)
EXTENDS ProdConsVar, TLC

CONSTANTS p1, p2, p3

Symmetry == Permutations(Procs)
=============================================================================
