----------------------------- MODULE MCRWObjects -----------------------------
(* Constants of the instance of RWObjects that TLC checks. *)
EXTENDS RWObjects

CONSTANTS r1, r2, w1
=============================================================================
