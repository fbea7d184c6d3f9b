---------------------------- MODULE LockedOption ----------------------------
(***************************************************************************)
(* What an OptionLock promises: one optional value, one exclusive guard at *)
(* a time, and reads and writes of the value that only the guard's thread  *)
(* makes, each in one step.  Values are moved, never copied: each one is   *)
(* in the cell, or owned by exactly one thread, or dropped.                *)
(***************************************************************************)
CONSTANTS
    Thread,     \* the threads that share the lock
    Value,      \* the values that move through it; each is owned, as in Rust
    NoValue     \* the `None` of the Option

VARIABLES
    cell,       \* the stored value, or NoValue
    holder,     \* the set of threads that hold a guard
    held        \* held[t]: the values thread t owns

lovars == <<cell, holder, held>>

\* A value is in the cell or with one thread.
Init ==
    /\ cell \in Value \cup {NoValue}
    /\ holder = {}
    /\ held \in [Thread -> SUBSET Value]
    /\ \A v \in Value :
          IF cell = v THEN \A t \in Thread : v \notin held[t]
                      ELSE \E t \in Thread : {u \in Thread : v \in held[u]} = {t}

Lock(t) ==
    /\ holder = {}
    /\ holder' = {t}
    /\ UNCHANGED <<cell, held>>

Unlock(t) ==
    /\ holder = {t}
    /\ holder' = {}
    /\ UNCHANGED <<cell, held>>

\* The thread that may touch the value: the guard's, or, when there is no
\* guard, one that owns the whole lock (`&mut self`).
MayAccess(t) == holder \subseteq {t}

Replace(t, v) ==
    /\ MayAccess(t)
    /\ v \in held[t]
    /\ cell' = v
    /\ held' = [held EXCEPT ![t] = (@ \ {v}) \cup ({cell} \cap Value)]
    /\ UNCHANGED holder

Take(t) ==
    /\ MayAccess(t)
    /\ cell # NoValue
    /\ cell' = NoValue
    /\ held' = [held EXCEPT ![t] = @ \cup {cell}]
    /\ UNCHANGED holder

\* The owner drops the lock with its value; a fresh, empty one takes its place.
Drop ==
    /\ holder = {}
    /\ cell' = NoValue
    /\ UNCHANGED <<holder, held>>

Next ==
    \/ \E t \in Thread :
          \/ Lock(t)
          \/ Unlock(t)
          \/ Take(t)
          \/ \E v \in Value : Replace(t, v)
    \/ Drop

Spec == Init /\ [][Next]_lovars
=============================================================================
