------------------------------ MODULE MCMonitor ------------------------------
(* Constants of the instance of Monitor that TLC checks. *)
EXTENDS Monitor

CONSTANTS p1, p2, p3, c1, c2
=============================================================================
