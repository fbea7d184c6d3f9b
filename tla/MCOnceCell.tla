----------------------------- MODULE MCOnceCell -----------------------------
(* Instances of OnceCell for TLC. *)
EXTENDS OnceCell

\* What OnceCell::set calls of its OptionLock.
Setting == {[calls  |-> [t \in Thread |-> {"try_lock_none", "replace"}],
             fences |-> TRUE]}
=============================================================================
