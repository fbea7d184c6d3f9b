------------------------------ MODULE OnceCell ------------------------------
(***************************************************************************)
(* option_lock::OnceCell (src/option-lock/src/once.rs): an OptionLock that *)
(* is filled once and read without locking.  Its user in the repository is *)
(* NullWaker::get (src/suspend/src/waker/null.rs), which looks for the     *)
(* waker, sets it when there is none, and looks again.                     *)
(***************************************************************************)
EXTENDS OptionLock

VARIABLE caller     \* caller[t]: where thread t is in NullWaker::get

oncevars == <<vars, caller>>

\* OnceCell::empty(), and a thread makes its wakers as it needs them.
OnceInit ==
    /\ Init
    /\ state = FREE
    /\ \A t \in Thread : held[t] # {}
    /\ caller = [t \in Thread |-> "idle"]

Continue(t, next) == caller' = [caller EXCEPT ![t] = next]

\* OnceCell::get: is_some_unlocked() is one relaxed load.  The reference it
\* returns is good for reading if the load has the write happen before it.
Get(t, some, none) ==
    /\ IF state = AVAILABLE
         THEN /\ Continue(t, some)
              /\ sees' = IF published /\ Tso THEN sees \cup {t} ELSE sees
         ELSE Continue(t, none) /\ UNCHANGED sees
    /\ UNCHANGED <<state, data, pc, guardvars, held, dropped, published, program>>

GetFirst(t) == caller[t] = "idle" /\ Get(t, "some", "set")

\* OnceCell::set, which the programs must have the methods for: try_lock_none(), and if
\* that succeeds replace() ...
SetLocks(t) ==
    /\ caller[t] = "set" /\ state = FREE
    /\ TryLockNone(t)
    /\ Continue(t, "locked")

SetStores(t) ==
    /\ caller[t] = "locked"
    /\ \/ ~filled[t] /\ ReplaceBegin(t)
       \/ ReplaceEnd(t)
    /\ UNCHANGED caller

SetUnlocks(t) ==
    /\ caller[t] = "locked" /\ filled[t]
    /\ GuardDrop(t)
    /\ Continue(t, "again")

\* ... otherwise the value is handed back, and get() drops it.
SetFails(t) ==
    /\ caller[t] = "set" /\ state # FREE
    /\ \E v \in held[t] :
          /\ held' = [held EXCEPT ![t] = @ \ {v}]
          /\ dropped' = dropped \cup {v}
    /\ Continue(t, "again")
    /\ UNCHANGED <<state, data, pc, guardvars, sees, published, program>>

\* NULL_WAKER.get().unwrap()
GetAgain(t) == caller[t] = "again" /\ Get(t, "some", "panic")

OnceNext ==
    \E t \in Thread :
      \/ GetFirst(t)
      \/ SetLocks(t)
      \/ SetStores(t)
      \/ SetUnlocks(t)
      \/ SetFails(t)
      \/ GetAgain(t)

OnceSpec == OnceInit /\ [][OnceNext]_oncevars

-----------------------------------------------------------------------------
(* Properties *)

\* Whoever has tried to set the cell finds it set: NullWaker::get unwraps what
\* it gets after its set() (null.rs:23), whether or not that had succeeded.
SetIsSet == \A t \in Thread : caller[t] # "panic"
=============================================================================
