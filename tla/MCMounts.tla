------------------------------- MODULE MCMounts -------------------------------
(* Constants of the instance of Mounts that TLC checks. *)
EXTENDS Mounts

CONSTANTS c1, c2
=============================================================================
