------------------------------ MODULE MCSyncMsg ------------------------------
(* Small instances of SyncMsg for TLC. *)
EXTENDS SyncMsg

CONSTANTS s1, s2, r1, r2
=============================================================================
