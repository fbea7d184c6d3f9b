---------------------------- MODULE SharedSuspend ----------------------------
(***************************************************************************)
(* Who keeps a Suspend alive: SharedSuspend (src/suspend/src/core.rs) and  *)
(* the WakeableState it points to (waker/internal.rs), which is also the   *)
(* data of the Suspend's own waker.  The listening side has one handle; a  *)
(* Notifier, a NotifyOnce and a clone of the waker are handles of the      *)
(* threads that notify.  A count of them is kept, and the last that goes   *)
(* frees the state, and with it a waker that is still registered.          *)
(*                                                                         *)
(* The module adds handles to Suspend, whose notifiers call notify() when  *)
(* they like: here a thread needs a handle for that.                       *)
(***************************************************************************)
EXTENDS Suspend

ASSUME SharedSuspendAssumption == IsFiniteSet(Notifier)

VARIABLES
    count,      \* WakeableState::count
    owned,      \* the Suspend, or ListenOnce, has not been dropped
    handle,     \* handle[n]: the handle that thread n has
    freed       \* the box has been freed

svars == <<count, owned, handle, freed>>
allvars == <<vars, svars>>

\* "spent": a handle that is consumed by the notify() under way: that of a
\* NotifyOnce, or a waker that is woken by value.
Handles == {"none", "notifier", "waker", "once", "spent"}

\* SharedSuspend::new_idle() with its one handle; notify_once() with two.
SharedInit ==
    /\ Init
    /\ owned = TRUE
    /\ freed = FALSE
    /\ IF usage = "once"
         THEN /\ count = 2
              /\ \E n \in Notifier :
                   handle = [k \in Notifier |-> IF k = n THEN "once" ELSE "none"]
         ELSE /\ count = 1
              /\ handle = [n \in Notifier |-> "none"]

NewHandle(n, kind) ==
    /\ handle[n] = "none"
    /\ handle' = [handle EXCEPT ![n] = kind]

\* Suspend::notifier(), or a clone of Suspend::waker(), of which the future
\* that a Listener polls has a reference.  A ListenOnce gives neither.
Give(n) ==
    /\ usage # "once"
    /\ \E l \in Listener : pc[l] # "gone"
    /\ \E kind \in {"notifier", "waker"} : NewHandle(n, kind)
    /\ count' = count + 1
    /\ UNCHANGED <<vars, owned, freed>>

\* Broken variant: the copy is not counted.
CopyUncounted(n, m) ==
    /\ pc[n] = "idle"
    /\ handle[n] \in {"notifier", "waker"}
    /\ \E kind \in {handle[n], "waker"} : NewHandle(m, kind)
    /\ UNCHANGED <<vars, count, owned, freed>>

\* Clone for Notifier, or of its waker, or of a waker.
Copy(n, m) ==
    /\ pc[n] = "idle"
    /\ handle[n] \in {"notifier", "waker"}
    /\ \E kind \in {handle[n], "waker"} : NewHandle(m, kind)
    /\ count' = count + 1
    /\ UNCHANGED <<vars, owned, freed>>

\* notify() and wake_by_ref() leave the handle, NotifyOnce::notify() and wake()
\* take it.
Uses(n) ==
    /\ handle[n] \in {"notifier", "waker", "once"}
    /\ \E kind \in {handle[n], "spent"} :
         /\ handle[n] = "notifier" => kind = "notifier"
         /\ handle[n] = "once" => kind = "spent"
         /\ handle' = [handle EXCEPT ![n] = kind]
    /\ UNCHANGED <<count, owned, freed>>

CompleteBy(n) == Complete(n) /\ Uses(n)
NotifyBy(n) == NotifyAnyway(n) /\ Uses(n)

\* dec_count() for a handle that is dropped or spent.
DropHandle(n) ==
    /\ pc[n] = "idle"
    /\ handle[n] # "none"
    /\ handle' = [handle EXCEPT ![n] = "none"]
    /\ count' = count - 1
    /\ UNCHANGED <<vars, owned, freed>>

\* ... and for that of the listening side.
DropOwner ==
    /\ owned
    /\ \A l \in Listener : pc[l] = "gone"
    /\ owned' = FALSE
    /\ count' = count - 1
    /\ UNCHANGED <<vars, handle, freed>>

\* The last dec_count() frees the box: Drop for SuspendState.
Free(l) ==
    /\ count = 0 /\ ~freed
    /\ freed' = TRUE
    /\ Vacate(l)
    /\ UNCHANGED <<count, owned, handle>>

SharedListenerStep(l) == ListenerStep(l) /\ UNCHANGED svars
SharedNotifierStep(n) == NotifierStep(n) /\ UNCHANGED svars
SharedExpire(l) == Expire(l) /\ UNCHANGED svars
SharedLeave(l) == Leave(l) /\ UNCHANGED svars

SharedNext ==
    \/ \E l \in Listener :
         SharedListenerStep(l) \/ SharedExpire(l) \/ SharedLeave(l) \/ Free(l)
    \/ \E n \in Notifier :
         \/ SharedNotifierStep(n) \/ CompleteBy(n) \/ NotifyBy(n)
         \/ Give(n) \/ DropHandle(n)
    \/ \E n, m \in Notifier : Copy(n, m)
    \/ DropOwner

SharedSpec == SharedInit /\ [][SharedNext]_allvars

\* As in Suspend, whose fairness this is.
SharedFairSpec ==
    /\ SharedSpec
    /\ \A l \in Listener : WF_allvars(SharedListenerStep(l))
    /\ \A n \in Notifier : WF_allvars(SharedNotifierStep(n))

-----------------------------------------------------------------------------
(* Properties *)

Holders == {n \in Notifier : handle[n] # "none"}
HandleCount == Cardinality(Holders) + (IF owned THEN 1 ELSE 0)

\* Whatever is cloned, woken by value or by reference, spent and dropped, and
\* in whatever order, the count is that of the handles (internal.rs:122-137),
\* whoever is in a call has one, so that the box is not freed under it, and a
\* freed box leaves no registered waker behind (core.rs:205-210).
FreedLast ==
    /\ count = HandleCount
    /\ \A n \in Notifier : pc[n] # "idle" => handle[n] # "none"
    /\ ~owned => \A l \in Listener : pc[l] = "gone"
    /\ freed => count = 0 /\ waker = NoWaker
=============================================================================
