--------------------------- MODULE MCThreadSuspend ---------------------------
(* Instances of ThreadSuspend for TLC. *)
EXTENDS ThreadSuspend, TLC

Symmetric == Permutations(Clone)
=============================================================================
