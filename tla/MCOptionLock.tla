---------------------------- MODULE MCOptionLock ----------------------------
(* Instances of OptionLock for TLC. *)
EXTENDS OptionLock

CONSTANTS t1, t2, t3

\* Every thread may call every method, in any order, where every
\* read-modify-write fences.
AnyMethod == [calls |-> [t \in Thread |-> Methods], fences |-> TRUE]

\* benches/contention.rs: one thread puts values in, the others take one out,
\* with no more order than the source names.
Contention ==
    [ calls |-> [t \in Thread |-> IF t = t1 THEN {"spin_lock_none", "replace"}
                                           ELSE {"spin_take"}],
      fences |-> FALSE ]

Both == {AnyMethod, Contention}
=============================================================================
