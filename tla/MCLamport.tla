------------------------------ MODULE MCLamport ------------------------------
(* Small instances of Lamport for TLC: only its constants need values. *)
EXTENDS Lamport
=============================================================================
