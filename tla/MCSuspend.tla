----------------------------- MODULE MCSuspend ------------------------------
(* Instances of SharedSuspend for TLC. *)
EXTENDS SharedSuspend
=============================================================================
