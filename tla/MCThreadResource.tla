--------------------------- MODULE MCThreadResource ---------------------------
(* Instances of ThreadResource for TLC. *)
EXTENDS ThreadResource
=============================================================================
