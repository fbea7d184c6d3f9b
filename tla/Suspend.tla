------------------------------ MODULE Suspend -------------------------------
(***************************************************************************)
(* suspend::Suspend, its Listener and its Notifiers                        *)
(* (src/suspend/src/core.rs, notify.rs): a state byte and a slot for one   *)
(* Waker.  A listener thread runs the loop of Suspend::wait_on: listen,    *)
(* poll the user's future, then wait for a notification and drop the       *)
(* Listener.  Notifier threads complete the future and call notify(), or   *)
(* notify without cause.  Each atomic operation on the byte and each use   *)
(* of the slot is a step of its own.                                       *)
(*                                                                         *)
(* The slot is a Maybe<Waker> whose debug assertions (util.rs:93, 105,     *)
(* 117) catch a load of an empty slot and a store into a full one; a       *)
(* thread that fails one, or meets a state the code calls invalid, panics  *)
(* and stops.  How a thread parks and is unparked is abstracted to one     *)
(* token per waiting thread, woken.                                        *)
(***************************************************************************)
EXTENDS Integers, FiniteSets

CONSTANTS
    Listener,   \* the threads that listen
    Notifier,   \* the threads that notify
    NoWaker,    \* the content of the empty slot
    Usage       \* how the program may use the Suspend: a set of Usages

\* "reused": Listener after Listener, each waiting without a deadline.
\* "timed": one Listener, that waits with deadlines.
\* "reused, timed": Listener after Listener, that wait with deadlines.
\* "once": a ListenOnce, which is waiting from the start and may be polled again,
\* with another waker, before it is notified.
Usages == {"reused", "timed", "reused, timed", "once"}

ASSUME SuspendAssumption ==
    /\ Listener \cap Notifier = {}
    /\ NoWaker \notin Listener
    /\ Usage \subseteq Usages

\* The values of the state byte.
IDLE == 0
WAIT == 1
LISTEN == 3

VARIABLES
    state,      \* the state byte
    waker,      \* the slot: the listener whose waker it holds, or NoWaker
    pc,         \* pc[t]: where thread t is
    woken,      \* woken[l]: l's thread has been unparked
    event,      \* the user's future is complete and nobody has seen it yet
    usage       \* the one of Usage that this program makes

vars == <<state, waker, pc, woken, event, usage>>

Panics == {"duplicate load", "duplicate store", "invalid state"}

InPoll == {"poll", "reacquire", "clear", "store", "publish", "retract"}
ListenerPlace == InPoll \cup {"idle", "future", "parked", "expired",
                               "drop", "drop clear", "gone"}
NotifierPlace == {"idle", "notify", "wake"}

TypeOK ==
    /\ state \in {IDLE, WAIT, LISTEN}
    /\ waker \in Listener \cup {NoWaker}
    /\ pc \in [Listener \cup Notifier -> ListenerPlace \cup NotifierPlace \cup Panics]
    /\ \A l \in Listener : pc[l] \in ListenerPlace \cup Panics
    /\ \A n \in Notifier : pc[n] \in NotifierPlace \cup Panics
    /\ woken \in [Listener -> BOOLEAN]
    /\ event \in BOOLEAN
    /\ usage \in Usage

\* Suspend::new(): idle, with nobody listening; notify_once(): waiting, with
\* a ListenOnce to be polled.
Init ==
    /\ usage \in Usage
    /\ state = IF usage = "once" THEN WAIT ELSE IDLE
    /\ waker = NoWaker
    /\ pc = [t \in Listener \cup Notifier |->
               IF t \in Listener /\ usage = "once" THEN "expired" ELSE "idle"]
    /\ woken = [l \in Listener |-> FALSE]
    /\ event = FALSE

Goto(t, next) == pc' = [pc EXCEPT ![t] = next]

\* Maybe::load and Maybe::clear empty a full slot; Maybe::store fills an
\* empty one.
Unload(t, next) ==
    IF waker # NoWaker
      THEN waker' = NoWaker /\ Goto(t, next)
      ELSE UNCHANGED waker /\ Goto(t, "duplicate load")

Store(t, next) ==
    IF waker = NoWaker
      THEN waker' = t /\ Goto(t, next)
      ELSE UNCHANGED waker /\ Goto(t, "duplicate store")

-----------------------------------------------------------------------------
(* The listener *)

\* try_listen(): one compare-and-swap.  listen() is the same on a Suspend
\* that nobody else listens on, and expects it to succeed.
Listen(l) ==
    /\ pc[l] = "idle"
    /\ IF state = IDLE
         THEN state' = WAIT /\ Goto(l, "future")
         ELSE /\ Listener = {l}
              /\ Goto(l, "invalid state")
              /\ UNCHANGED state
    /\ UNCHANGED <<waker, woken, event, usage>>

\* Listener::poll_future: the future is ready, and the Listener is dropped;
\* or it keeps the Suspend's waker and will notify, and the thread waits.
PollFuture(l) ==
    /\ pc[l] = "future"
    /\ IF event
         THEN event' = FALSE /\ Goto(l, "drop") /\ UNCHANGED woken
         ELSE /\ woken' = [woken EXCEPT ![l] = FALSE]
              /\ Goto(l, "poll")
              /\ UNCHANGED event
    /\ UNCHANGED <<state, waker, usage>>

\* SuspendState::poll, the first load.
PollLoad(l) ==
    /\ pc[l] = "poll"
    /\ Goto(l, CASE state = IDLE   -> "drop"
                 [] state = WAIT   -> "store"
                 [] state = LISTEN -> "reacquire")
    /\ UNCHANGED <<state, waker, woken, event, usage>>

\* Broken variant: a slot taken back passes for a notification.
PollReacquireDone(l) ==
    /\ pc[l] = "reacquire"
    /\ Goto(l, IF state = WAIT THEN "invalid state" ELSE "drop")
    /\ UNCHANGED <<state, waker, woken, event, usage>>

\* compare_exchange(LISTEN, WAIT): take back the slot of an earlier poll.
PollReacquire(l) ==
    /\ pc[l] = "reacquire"
    /\ Goto(l, CASE state = LISTEN -> "clear"
                 [] state = IDLE   -> "drop"
                 [] state = WAIT   -> "invalid state")
    /\ state' = IF state = LISTEN THEN WAIT ELSE state
    /\ UNCHANGED <<waker, woken, event, usage>>

PollClear(l) ==
    /\ pc[l] = "clear"
    /\ Unload(l, "store")
    /\ UNCHANGED <<state, woken, event, usage>>

PollStore(l) ==
    /\ pc[l] = "store"
    /\ Store(l, "publish")
    /\ UNCHANGED <<state, woken, event, usage>>

\* Broken variant: a notification in between is overwritten.
PollPublishOver(l) ==
    /\ pc[l] = "publish"
    /\ Goto(l, "parked")
    /\ state' = LISTEN
    /\ UNCHANGED <<waker, woken, event, usage>>

\* compare_exchange(WAIT, LISTEN): a notification may have come in between.
PollPublish(l) ==
    /\ pc[l] = "publish"
    /\ Goto(l, CASE state = WAIT   -> "parked"
                 [] state = IDLE   -> "retract"
                 [] state = LISTEN -> "invalid state")
    /\ state' = IF state = WAIT THEN LISTEN ELSE state
    /\ UNCHANGED <<waker, woken, event, usage>>

\* Broken variant: the slot is left full.
PollRetractKeep(l) ==
    /\ pc[l] = "retract"
    /\ Goto(l, "drop")
    /\ UNCHANGED <<state, waker, woken, event, usage>>

PollRetract(l) ==
    /\ pc[l] = "retract"
    /\ Unload(l, "drop")
    /\ UNCHANGED <<state, woken, event, usage>>

\* The closure of wait_deadline after a wake-up: it returns once the state is
\* idle, and parks again otherwise.
CheckIdle(l) ==
    /\ pc[l] = "parked" /\ woken[l]
    /\ woken' = [woken EXCEPT ![l] = FALSE]
    /\ IF state = IDLE THEN Goto(l, "drop") ELSE UNCHANGED pc
    /\ UNCHANGED <<state, waker, event, usage>>

\* The deadline passes: wait_deadline hands the Listener back.  Or a task that
\* polled a ListenOnce goes on without being woken.
Expire(l) ==
    /\ usage # "reused"
    /\ pc[l] = "parked"
    /\ Goto(l, "expired")
    /\ UNCHANGED <<state, waker, woken, event, usage>>

\* The caller waits again on the same Listener, with a new thread waker, or
\* drops it; a task polls its ListenOnce, or drops it.
WaitAgain(l) ==
    /\ pc[l] = "expired"
    /\ woken' = [woken EXCEPT ![l] = FALSE]
    /\ Goto(l, "poll")
    /\ UNCHANGED <<state, waker, event, usage>>

GiveUp(l) ==
    /\ pc[l] = "expired"
    /\ Goto(l, "drop")
    /\ UNCHANGED <<state, waker, woken, event, usage>>

\* The Suspend is dropped between two Listeners.
Leave(l) ==
    /\ pc[l] = "idle"
    /\ Goto(l, "gone")
    /\ UNCHANGED <<state, waker, woken, event, usage>>

\* A Suspend that serves one Listener is not used any more.
AfterDrop == IF usage = "timed" THEN "gone" ELSE "idle"

\* Drop of the Listener: clear_waiting() resets the byte, and then empties
\* the slot if a waker was registered.
ListenerDrop(l) ==
    /\ usage # "once"
    /\ pc[l] = "drop"
    /\ state' = IDLE
    /\ Goto(l, IF state = LISTEN THEN "drop clear" ELSE AfterDrop)
    /\ UNCHANGED <<waker, woken, event, usage>>

ListenerDropClear(l) ==
    /\ pc[l] = "drop clear"
    /\ Unload(l, AfterDrop)
    /\ UNCHANGED <<state, woken, event, usage>>

\* A ListenOnce that is dropped leaves its waker where it is ...
OnceDrop(l) ==
    /\ usage = "once"
    /\ pc[l] = "drop"
    /\ Goto(l, "gone")
    /\ UNCHANGED <<state, waker, woken, event, usage>>

\* Broken variant: the slot is not looked at.
VacateNot(l) ==
    /\ \A k \in Listener : pc[k] = "gone"
    /\ \A n \in Notifier : pc[n] = "idle"
    /\ state' = IDLE
    /\ UNCHANGED <<waker, pc, woken, event, usage>>

\* ... for the Drop of SuspendState, when nobody uses it any more.
Vacate(l) ==
    /\ \A k \in Listener : pc[k] = "gone"
    /\ \A n \in Notifier : pc[n] = "idle"
    /\ state' = IDLE
    /\ IF state = LISTEN THEN Unload(l, "gone") ELSE UNCHANGED <<waker, pc>>
    /\ UNCHANGED <<woken, event, usage>>

-----------------------------------------------------------------------------
(* The notifiers: Suspend::notify, Notifier::notify, NotifyOnce::notify,   *)
(* or the Suspend's own waker.                                             *)

\* The event happens, then its thread calls notify().
Complete(n) ==
    /\ pc[n] = "idle"
    /\ ~event
    /\ event' = TRUE
    /\ Goto(n, "notify")
    /\ UNCHANGED <<state, waker, woken, usage>>

\* A notification without cause: a late waker, another future.
NotifyAnyway(n) ==
    /\ pc[n] = "idle"
    /\ Goto(n, "notify")
    /\ UNCHANGED <<state, waker, woken, event, usage>>

\* swap(IDLE): whoever finds LISTEN owes the wake-up.
NotifySwap(n) ==
    /\ pc[n] = "notify"
    /\ state' = IDLE
    /\ Goto(n, IF state = LISTEN THEN "wake" ELSE "idle")
    /\ UNCHANGED <<waker, woken, event, usage>>

\* waker.load().wake()
NotifyWake(n) ==
    /\ pc[n] = "wake"
    /\ Unload(n, "idle")
    /\ woken' = IF waker = NoWaker THEN woken ELSE [woken EXCEPT ![waker] = TRUE]
    /\ UNCHANGED <<state, event, usage>>

-----------------------------------------------------------------------------

ListenerStep(l) ==
    \/ Listen(l)
    \/ PollFuture(l)
    \/ PollLoad(l)
    \/ PollReacquire(l)
    \/ PollClear(l)
    \/ PollStore(l)
    \/ PollPublish(l)
    \/ PollRetract(l)
    \/ CheckIdle(l)
    \/ WaitAgain(l)
    \/ GiveUp(l)
    \/ ListenerDrop(l)
    \/ ListenerDropClear(l)
    \/ OnceDrop(l)

\* The rest of a notify() that has begun.
NotifierStep(n) ==
    \/ NotifySwap(n)
    \/ NotifyWake(n)

Next ==
    \/ \E l \in Listener : ListenerStep(l) \/ Expire(l) \/ Leave(l) \/ Vacate(l)
    \/ \E n \in Notifier : NotifierStep(n) \/ Complete(n) \/ NotifyAnyway(n)

Spec == Init /\ [][Next]_vars

\* A running thread runs on; a caller waits again for ever, or gives up, as it
\* likes.  Nobody need notify, and no deadline need pass.
FairSpec ==
    /\ Spec
    /\ \A l \in Listener : WF_vars(ListenerStep(l))
    /\ \A n \in Notifier : WF_vars(NotifierStep(n))

-----------------------------------------------------------------------------
(* Properties *)

\* No debug assertion of the slot fails (util.rs:93, 105, 117), no poll finds
\* a state that "should not happen" (core.rs:101-105, 137), and listen() on
\* an exclusive Suspend succeeds (core.rs:311): the byte and the slot, changed
\* in separate steps by listener and notifiers, stay in agreement.
NoPanic == \A t \in Listener \cup Notifier : pc[t] \notin Panics

\* An event that is announced by notify() is seen by the waiting thread: no
\* order of listen, poll, registration and notify loses the notification
\* (wait_on, core.rs:347-358).
CompletionSeen == event ~> ~event \/ \A l \in Listener : pc[l] = "gone"

\* What the listener is doing, in terms of the promise.
Phase(l) ==
    CASE pc[l] \in {"future", "expired"}      -> "listening"
      [] pc[l] \in InPoll \cup {"parked"}     -> "waiting"
      [] pc[l] = "drop"                       -> "done"
      [] OTHER                                -> "idle"

\* The byte and the slot together keep the promise of a Suspend: a wait ends
\* only on a notification made since it began to listen.
Promise == INSTANCE Notification WITH
    phase    <- Phase(CHOOSE l \in Listener : TRUE),
    notified <- state = IDLE

ImplementsPromise == Promise!Spec
=============================================================================
