--------------------------- MODULE SuspendProofs ----------------------------
(***************************************************************************)
(* What holds of a Suspend with one listening thread and any number of     *)
(* notifiers, when it is reused without deadlines, serves one Listener     *)
(* that waits with them, or is a ListenOnce: the byte and the slot never   *)
(* disagree, and together they implement Notification.  The handles that   *)
(* share it are counted exactly, and counting them does not change what a  *)
(* Suspend does: SharedSuspend implements Suspend, so that what is shown   *)
(* of the one holds of the other too.                                      *)
(***************************************************************************)
EXTENDS SharedSuspend, TLAPS, FiniteSetTheorems

\* The notifiers that took LISTEN from the byte and have not loaded the waker.
Waking == {n \in Notifier : pc[n] = "wake"}

\* The slot is full, and nobody else is about to empty it.
Full(l) == waker = l /\ Waking = {}

\* The slot is empty, and nobody is about to empty it.
Empty == waker = NoWaker /\ Waking = {}

\* The waker of listener l was claimed by one notifier, which may have loaded
\* it already.
Claimed(l) ==
    /\ state = IDLE
    /\ \/ Empty
       \/ /\ waker = l
          /\ \E n \in Notifier : Waking = {n}

\* Registered, and either still so or claimed.
Registered(l) == (state = LISTEN /\ Full(l)) \/ Claimed(l)

\* What the byte and the slot hold at each place of the listener.  Only a
\* listener that its deadline sent back, or one that will not listen again,
\* goes on while a notifier still has to load the waker.
Agreement(l) ==
    /\ pc[l] \in {"idle", "future", "store"} => Empty /\ state # LISTEN
    /\ pc[l] = "idle"    => state = IDLE
    /\ pc[l] \in InPoll /\ usage = "reused" => ~woken[l]
    /\ pc[l] = "publish" => Full(l) /\ state # LISTEN
    /\ pc[l] = "retract" => Full(l) /\ state = IDLE
    /\ pc[l] = "clear"   => Full(l) /\ state # LISTEN
    /\ pc[l] = "drop clear" => Full(l) /\ state = IDLE
    /\ pc[l] = "reacquire" => usage # "reused" /\ Registered(l)
    /\ pc[l] = "expired" =>
          /\ usage # "reused"
          /\ (Empty /\ state # LISTEN) \/ Registered(l)
    /\ pc[l] = "parked" =>
          /\ Registered(l)
          /\ usage = "reused" /\ woken[l] => Empty
    /\ pc[l] \in {"poll", "drop", "gone"} =>
          \/ Empty /\ state # LISTEN
          \/ usage # "reused" /\ Registered(l)

\* The inductive invariant.
IInv ==
    /\ TypeOK
    /\ NoPanic
    /\ \A l \in Listener : Agreement(l)

-----------------------------------------------------------------------------

\* The uses that keep byte and slot in agreement: one thread listens, and a
\* reused Suspend has no deadlines.
Disciplined(l) == Listener = {l} /\ Usage \subseteq {"reused", "timed", "once"}

\* A new Suspend is idle with an empty slot (core.rs:37-43).
LEMMA InvInit == ASSUME NEW L, Disciplined(L) PROVE Init => IInv
<1>. USE SuspendAssumption DEF Disciplined
<1>. SUFFICES ASSUME Init PROVE IInv
  OBVIOUS
<1>1. TypeOK
  BY DEF Init, TypeOK, ListenerPlace, NotifierPlace, InPoll, IDLE, WAIT, LISTEN
<1>2. NoPanic
  BY DEF Init, NoPanic, Panics
<1>3. Waking = {}
  BY DEF Init, Waking
<1>. QED
  BY <1>1, <1>2, <1>3
  DEF Init, IInv, Agreement, Empty, InPoll, IDLE, WAIT, LISTEN

\* A step that moves the listener alone, to a place that is no panic, and
\* keeps the other types, leaves only the agreement to show.
LEMMA ListenerMoves ==
  ASSUME NEW L, Disciplined(L), IInv, NEW next \in ListenerPlace, Goto(L, next),
         state' \in {IDLE, WAIT, LISTEN}, waker' \in Listener \cup {NoWaker},
         woken' \in [Listener -> BOOLEAN], event' \in BOOLEAN, usage' = usage
  PROVE  /\ Waking' = Waking
         /\ pc'[L] = next
         /\ Agreement(L)' => IInv'
<1>. USE SuspendAssumption DEF Disciplined, IInv, TypeOK, Goto
<1>1. pc'[L] = next /\ \A n \in Notifier : pc'[n] = pc[n]
  OBVIOUS
<1>2. TypeOK'
  <2>1. pc' \in [Listener \cup Notifier -> ListenerPlace \cup NotifierPlace \cup Panics]
    OBVIOUS
  <2>. QED
    BY <1>1, <2>1
<1>3. NoPanic'
  BY <1>1 DEF NoPanic, ListenerPlace, InPoll, Panics
<1>4. Waking' = Waking
  BY <1>1 DEF Waking
<1>. QED
  BY <1>1, <1>2, <1>3, <1>4

\* Where the listener is before its step, and what it relies on there.
LEMMA Here ==
  ASSUME NEW L, Disciplined(L), IInv
  PROVE  /\ L \in Listener /\ L # NoWaker /\ Agreement(L)
         /\ usage \in {"reused", "timed", "once"}
         /\ state \in {IDLE, WAIT, LISTEN}
         /\ waker \in Listener \cup {NoWaker}
         /\ woken \in [Listener -> BOOLEAN]
         /\ event \in BOOLEAN
  BY SuspendAssumption DEF Disciplined, IInv, TypeOK

\* Every step of the listener keeps the invariant.
LEMMA ListenerInv ==
  ASSUME NEW L, Disciplined(L), IInv, ListenerStep(L) \/ Expire(L) \/ Leave(L) \/ Vacate(L)
  PROVE  IInv'
<1>. USE DEF IDLE, WAIT, LISTEN, ListenerPlace, InPoll
<1>0. /\ L \in Listener /\ L # NoWaker /\ Agreement(L)
      /\ usage \in {"reused", "timed", "once"}
      /\ state \in {IDLE, WAIT, LISTEN}
      /\ waker \in Listener \cup {NoWaker}
      /\ woken \in [Listener -> BOOLEAN]
      /\ event \in BOOLEAN
      /\ Disciplined(L) /\ IInv
  BY Here
<1>1. CASE Listen(L)
  <2>1. Goto(L, "future")
    BY <1>0, <1>1 DEF Listen, Agreement
  <2>2. Waking' = Waking /\ pc'[L] = "future" /\ (Agreement(L)' => IInv')
    BY <1>0, <2>1, <1>1, ListenerMoves DEF Listen
  <2>3. Agreement(L)'
    BY <1>0, <2>1, <2>2, <1>1 DEF Listen, Agreement, Full, Empty, Claimed, Registered
  <2>. QED
    BY <2>2, <2>3
<1>2. CASE PollFuture(L)
  <2>1. CASE event
    <3>1. Goto(L, "drop")
      BY <1>0, <1>2, <2>1 DEF PollFuture, Agreement
    <3>2. Waking' = Waking /\ pc'[L] = "drop" /\ (Agreement(L)' => IInv')
      BY <1>0, <3>1, <1>2, <2>1, ListenerMoves DEF PollFuture
    <3>3. Agreement(L)'
      BY <1>0, <3>1, <3>2, <1>2, <2>1 DEF PollFuture, Agreement, Full, Empty, Claimed, Registered
    <3>. QED
      BY <3>2, <3>3
  <2>2. CASE ~event
    <3>1. Goto(L, "poll")
      BY <1>0, <1>2, <2>2 DEF PollFuture, Agreement
    <3>2. Waking' = Waking /\ pc'[L] = "poll" /\ (Agreement(L)' => IInv')
      BY <1>0, <3>1, <1>2, <2>2, ListenerMoves DEF PollFuture
    <3>3. Agreement(L)'
      BY <1>0, <3>1, <3>2, <1>2, <2>2 DEF PollFuture, Agreement, Full, Empty, Claimed, Registered
    <3>. QED
      BY <3>2, <3>3
  <2>. QED
    BY <1>0, <1>2, <2>1, <2>2 DEF PollFuture, Agreement, Empty, Full, Claimed, Registered
<1>3. CASE PollLoad(L)
  <2>1. CASE state = IDLE
    <3>1. Goto(L, "drop")
      BY <1>0, <1>3, <2>1 DEF PollLoad, Agreement
    <3>2. Waking' = Waking /\ pc'[L] = "drop" /\ (Agreement(L)' => IInv')
      BY <1>0, <3>1, <1>3, <2>1, ListenerMoves DEF PollLoad
    <3>3. Agreement(L)'
      BY <1>0, <3>1, <3>2, <1>3, <2>1 DEF PollLoad, Agreement, Full, Empty, Claimed, Registered
    <3>. QED
      BY <3>2, <3>3
  <2>2. CASE state = WAIT
    <3>1. Goto(L, "store")
      BY <1>0, <1>3, <2>2 DEF PollLoad, Agreement
    <3>2. Waking' = Waking /\ pc'[L] = "store" /\ (Agreement(L)' => IInv')
      BY <1>0, <3>1, <1>3, <2>2, ListenerMoves DEF PollLoad
    <3>3. Agreement(L)'
      BY <1>0, <3>1, <3>2, <1>3, <2>2 DEF PollLoad, Agreement, Full, Empty, Claimed, Registered
    <3>. QED
      BY <3>2, <3>3
  <2>3. CASE state = LISTEN
    <3>1. Goto(L, "reacquire")
      BY <1>0, <1>3, <2>3 DEF PollLoad, Agreement
    <3>2. Waking' = Waking /\ pc'[L] = "reacquire" /\ (Agreement(L)' => IInv')
      BY <1>0, <3>1, <1>3, <2>3, ListenerMoves DEF PollLoad
    <3>3. Agreement(L)'
      BY <1>0, <3>1, <3>2, <1>3, <2>3 DEF PollLoad, Agreement, Full, Empty, Claimed, Registered
    <3>. QED
      BY <3>2, <3>3
  <2>. QED
    BY <1>0, <1>3, <2>1, <2>2, <2>3 DEF PollLoad, Agreement, Empty, Full, Claimed, Registered
<1>4. CASE PollReacquire(L)
  <2>1. CASE state = IDLE
    <3>1. Goto(L, "drop")
      BY <1>0, <1>4, <2>1 DEF PollReacquire, Agreement
    <3>2. Waking' = Waking /\ pc'[L] = "drop" /\ (Agreement(L)' => IInv')
      BY <1>0, <3>1, <1>4, <2>1, ListenerMoves DEF PollReacquire
    <3>3. Agreement(L)'
      BY <1>0, <3>1, <3>2, <1>4, <2>1 DEF PollReacquire, Agreement, Full, Empty, Claimed, Registered
    <3>. QED
      BY <3>2, <3>3
  <2>2. CASE state = LISTEN
    <3>1. Goto(L, "clear")
      BY <1>0, <1>4, <2>2 DEF PollReacquire, Agreement
    <3>2. Waking' = Waking /\ pc'[L] = "clear" /\ (Agreement(L)' => IInv')
      BY <1>0, <3>1, <1>4, <2>2, ListenerMoves DEF PollReacquire
    <3>3. Agreement(L)'
      BY <1>0, <3>1, <3>2, <1>4, <2>2 DEF PollReacquire, Agreement, Full, Empty, Claimed, Registered
    <3>. QED
      BY <3>2, <3>3
  <2>. QED
    BY <1>0, <1>4, <2>1, <2>2 DEF PollReacquire, Agreement, Empty, Full, Claimed, Registered
<1>5. CASE PollClear(L)
  <2>1. Goto(L, "store")
    BY <1>0, <1>5 DEF PollClear, Unload, Agreement, Full, Empty, Claimed, Registered
  <2>2. Waking' = Waking /\ pc'[L] = "store" /\ (Agreement(L)' => IInv')
    BY <1>0, <2>1, <1>5, ListenerMoves DEF PollClear, Unload
  <2>3. Agreement(L)'
    BY <1>0, <2>1, <2>2, <1>5 DEF PollClear, Unload, Agreement, Full, Empty, Claimed, Registered
  <2>. QED
    BY <2>2, <2>3
<1>6. CASE PollStore(L)
  <2>1. Goto(L, "publish")
    BY <1>0, <1>6 DEF PollStore, Store, Agreement, Full, Empty, Claimed, Registered
  <2>2. Waking' = Waking /\ pc'[L] = "publish" /\ (Agreement(L)' => IInv')
    BY <1>0, <2>1, <1>6, ListenerMoves DEF PollStore, Store
  <2>3. Agreement(L)'
    BY <1>0, <2>1, <2>2, <1>6 DEF PollStore, Store, Agreement, Full, Empty, Claimed, Registered
  <2>. QED
    BY <2>2, <2>3
<1>7. CASE PollPublish(L)
  <2>1. CASE state = IDLE
    <3>1. Goto(L, "retract")
      BY <1>0, <1>7, <2>1 DEF PollPublish, Agreement
    <3>2. Waking' = Waking /\ pc'[L] = "retract" /\ (Agreement(L)' => IInv')
      BY <1>0, <3>1, <1>7, <2>1, ListenerMoves DEF PollPublish
    <3>3. Agreement(L)'
      BY <1>0, <3>1, <3>2, <1>7, <2>1 DEF PollPublish, Agreement, Full, Empty, Claimed, Registered
    <3>. QED
      BY <3>2, <3>3
  <2>2. CASE state = WAIT
    <3>1. Goto(L, "parked")
      BY <1>0, <1>7, <2>2 DEF PollPublish, Agreement
    <3>2. Waking' = Waking /\ pc'[L] = "parked" /\ (Agreement(L)' => IInv')
      BY <1>0, <3>1, <1>7, <2>2, ListenerMoves DEF PollPublish
    <3>3. Agreement(L)'
      BY <1>0, <3>1, <3>2, <1>7, <2>2 DEF PollPublish, Agreement, Full, Empty, Claimed, Registered
    <3>. QED
      BY <3>2, <3>3
  <2>. QED
    BY <1>0, <1>7, <2>1, <2>2 DEF PollPublish, Agreement, Empty, Full, Claimed, Registered
<1>8. CASE PollRetract(L)
  <2>1. Goto(L, "drop")
    BY <1>0, <1>8 DEF PollRetract, Unload, Agreement, Full, Empty, Claimed, Registered
  <2>2. Waking' = Waking /\ pc'[L] = "drop" /\ (Agreement(L)' => IInv')
    BY <1>0, <2>1, <1>8, ListenerMoves DEF PollRetract, Unload
  <2>3. Agreement(L)'
    BY <1>0, <2>1, <2>2, <1>8 DEF PollRetract, Unload, Agreement, Full, Empty, Claimed, Registered
  <2>. QED
    BY <2>2, <2>3
<1>9. CASE CheckIdle(L)
  <2>1. CASE state = IDLE
    <3>1. Goto(L, "drop")
      BY <1>0, <1>9, <2>1 DEF CheckIdle, Agreement
    <3>2. Waking' = Waking /\ pc'[L] = "drop" /\ (Agreement(L)' => IInv')
      BY <1>0, <3>1, <1>9, <2>1, ListenerMoves DEF CheckIdle
    <3>3. Agreement(L)'
      BY <1>0, <3>1, <3>2, <1>9, <2>1 DEF CheckIdle, Agreement, Full, Empty, Claimed, Registered
    <3>. QED
      BY <3>2, <3>3
  <2>2. CASE state # IDLE
    <3>1. Goto(L, "parked")
      BY <1>0, <1>9, <2>2 DEF CheckIdle, Goto, IInv, TypeOK
    <3>2. Waking' = Waking /\ pc'[L] = "parked" /\ (Agreement(L)' => IInv')
      BY <1>0, <3>1, <1>9, <2>2, ListenerMoves DEF CheckIdle
    <3>3. Agreement(L)'
      BY <1>0, <3>1, <3>2, <1>9, <2>2 DEF CheckIdle, Agreement, Full, Empty, Claimed, Registered
    <3>. QED
      BY <3>2, <3>3
  <2>. QED
    BY <1>0, <1>9, <2>1, <2>2 DEF CheckIdle, Agreement, Empty, Full, Claimed, Registered
<1>10. CASE WaitAgain(L)
  <2>1. Goto(L, "poll")
    BY <1>0, <1>10 DEF WaitAgain, Agreement
  <2>2. Waking' = Waking /\ pc'[L] = "poll" /\ (Agreement(L)' => IInv')
    BY <1>0, <2>1, <1>10, ListenerMoves DEF WaitAgain
  <2>3. Agreement(L)'
    BY <1>0, <2>1, <2>2, <1>10 DEF WaitAgain, Agreement, Full, Empty, Claimed, Registered
  <2>. QED
    BY <2>2, <2>3
<1>11. CASE GiveUp(L)
  <2>1. Goto(L, "drop")
    BY <1>0, <1>11 DEF GiveUp, Agreement
  <2>2. Waking' = Waking /\ pc'[L] = "drop" /\ (Agreement(L)' => IInv')
    BY <1>0, <2>1, <1>11, ListenerMoves DEF GiveUp
  <2>3. Agreement(L)'
    BY <1>0, <2>1, <2>2, <1>11 DEF GiveUp, Agreement, Full, Empty, Claimed, Registered
  <2>. QED
    BY <2>2, <2>3
<1>12. CASE ListenerDrop(L)
  <2>1. CASE state = LISTEN
    <3>1. Goto(L, "drop clear")
      BY <1>0, <1>12, <2>1 DEF ListenerDrop, AfterDrop, Agreement, Full, Empty, Claimed, Registered
    <3>2. Waking' = Waking /\ pc'[L] = "drop clear" /\ (Agreement(L)' => IInv')
      BY <1>0, <3>1, <1>12, <2>1, ListenerMoves DEF ListenerDrop, AfterDrop
    <3>3. Agreement(L)'
      <4>1. Registered(L)
        BY <1>0, <1>12, <2>1 DEF ListenerDrop, Agreement
      <4>2. ~Claimed(L)
        BY <2>1 DEF Claimed
      <4>3. waker = L /\ Waking = {}
        BY <4>1, <4>2 DEF Registered, Full
      <4>. QED
        BY <1>0, <3>2, <4>3, <1>12 DEF ListenerDrop, Agreement, Full
    <3>. QED
      BY <3>2, <3>3
  <2>0. usage \in {"reused", "timed"}
    BY <1>0, <1>12 DEF ListenerDrop
  <2>2. CASE state # LISTEN /\ usage = "timed"
    <3>1. Goto(L, "gone")
      BY <1>0, <1>12, <2>2 DEF ListenerDrop, AfterDrop, Agreement, Full, Empty, Claimed, Registered
    <3>2. Waking' = Waking /\ pc'[L] = "gone" /\ (Agreement(L)' => IInv')
      BY <1>0, <3>1, <1>12, <2>2, ListenerMoves DEF ListenerDrop, AfterDrop
    <3>3. Agreement(L)'
      BY <1>0, <3>1, <3>2, <1>12, <2>2 DEF ListenerDrop, AfterDrop, Agreement, Full, Empty, Claimed, Registered
    <3>. QED
      BY <3>2, <3>3
  <2>3. CASE state # LISTEN /\ usage = "reused"
    <3>1. Goto(L, "idle")
      BY <1>0, <1>12, <2>3 DEF ListenerDrop, AfterDrop, Agreement, Full, Empty, Claimed, Registered
    <3>2. Waking' = Waking /\ pc'[L] = "idle" /\ (Agreement(L)' => IInv')
      BY <1>0, <3>1, <1>12, <2>3, ListenerMoves DEF ListenerDrop, AfterDrop
    <3>3. Agreement(L)'
      BY <1>0, <3>1, <3>2, <1>12, <2>3 DEF ListenerDrop, AfterDrop, Agreement, Full, Empty, Claimed, Registered
    <3>. QED
      BY <3>2, <3>3
  <2>. QED
    BY <2>0, <2>1, <2>2, <2>3
<1>13. CASE ListenerDropClear(L)
  <2>1. CASE usage = "timed"
    <3>1. Goto(L, "gone")
      BY <1>0, <1>13, <2>1 DEF ListenerDropClear, AfterDrop, Unload, Agreement, Full, Empty, Claimed, Registered
    <3>2. Waking' = Waking /\ pc'[L] = "gone" /\ (Agreement(L)' => IInv')
      BY <1>0, <3>1, <1>13, <2>1, ListenerMoves DEF ListenerDropClear, AfterDrop, Unload
    <3>3. Agreement(L)'
      BY <1>0, <3>1, <3>2, <1>13, <2>1 DEF ListenerDropClear, AfterDrop, Unload, Agreement, Full, Empty, Claimed, Registered
    <3>. QED
      BY <3>2, <3>3
  <2>2. CASE usage # "timed"
    <3>1. Goto(L, "idle")
      BY <1>0, <1>13, <2>2 DEF ListenerDropClear, AfterDrop, Unload, Agreement, Full, Empty, Claimed, Registered
    <3>2. Waking' = Waking /\ pc'[L] = "idle" /\ (Agreement(L)' => IInv')
      BY <1>0, <3>1, <1>13, <2>2, ListenerMoves DEF ListenerDropClear, AfterDrop, Unload
    <3>3. Agreement(L)'
      <4>1. waker = L /\ Waking = {} /\ state = IDLE
        BY <1>0, <1>13 DEF ListenerDropClear, Agreement, Full
      <4>2. waker' = NoWaker /\ Waking' = {} /\ state' = IDLE
        BY <1>0, <3>2, <4>1, <1>13 DEF ListenerDropClear, Unload
      <4>. QED
        BY <3>2, <4>2 DEF Agreement, Empty
    <3>. QED
      BY <3>2, <3>3
  <2>. QED
    BY <1>0, <1>13, <2>1, <2>2 DEF ListenerDropClear, Agreement, Empty, Full, Claimed, Registered
<1>14. CASE Expire(L)
  <2>1. Goto(L, "expired")
    BY <1>0, <1>14 DEF Expire, Agreement
  <2>2. Waking' = Waking /\ pc'[L] = "expired" /\ (Agreement(L)' => IInv')
    BY <1>0, <2>1, <1>14, ListenerMoves DEF Expire
  <2>3. Agreement(L)'
    BY <1>0, <2>1, <2>2, <1>14 DEF Expire, Agreement, Full, Empty, Claimed, Registered
  <2>. QED
    BY <2>2, <2>3
<1>15. CASE OnceDrop(L)
  <2>1. Goto(L, "gone")
    BY <1>15 DEF OnceDrop
  <2>2. Waking' = Waking /\ pc'[L] = "gone" /\ (Agreement(L)' => IInv')
    BY <1>0, <2>1, <1>15, ListenerMoves DEF OnceDrop
  <2>3. Agreement(L)'
    BY <1>0, <2>1, <2>2, <1>15 DEF OnceDrop, Agreement, Full, Empty, Claimed, Registered
  <2>. QED
    BY <2>2, <2>3
<1>16. CASE Leave(L)
  <2>1. Goto(L, "gone")
    BY <1>16 DEF Leave
  <2>2. Waking' = Waking /\ pc'[L] = "gone" /\ (Agreement(L)' => IInv')
    BY <1>0, <2>1, <1>16, ListenerMoves DEF Leave
  <2>3. Agreement(L)'
    BY <1>0, <2>1, <2>2, <1>16 DEF Leave, Agreement, Full, Empty, Claimed, Registered
  <2>. QED
    BY <2>2, <2>3
<1>17. CASE Vacate(L)
  <2>1. pc[L] = "gone" /\ Waking = {} /\ state' = IDLE
    BY <1>0, <1>17 DEF Vacate, Waking
  <2>2. IF state = LISTEN THEN waker = L ELSE Registered(L) => Empty
    BY <1>0, <2>1 DEF Agreement, Registered, Claimed, Full, Empty
  <2>3. Goto(L, "gone") /\ waker' = NoWaker
    BY <1>0, <1>17, <2>1, <2>2 DEF Vacate, Unload, Goto, IInv, TypeOK, Agreement, Empty
  <2>4. Waking' = Waking /\ pc'[L] = "gone" /\ (Agreement(L)' => IInv')
    BY <1>0, <2>1, <2>3, <1>17, ListenerMoves DEF Vacate
  <2>5. Agreement(L)'
    BY <2>1, <2>3, <2>4 DEF Agreement, Empty
  <2>. QED
    BY <2>4, <2>5
<1>. QED
  BY <1>1, <1>2, <1>3, <1>4, <1>5, <1>6, <1>7, <1>8, <1>9, <1>10, <1>11, <1>12, <1>13, <1>14,
     <1>15, <1>16, <1>17 DEF ListenerStep

\* A step of a notifier, to a place that is no panic, leaves the listener
\* where it is.
LEMMA NotifierMoves ==
  ASSUME NEW L, Disciplined(L), IInv, NEW n \in Notifier,
         NEW next \in NotifierPlace, Goto(n, next),
         state' \in {IDLE, WAIT, LISTEN}, waker' \in Listener \cup {NoWaker},
         woken' \in [Listener -> BOOLEAN], event' \in BOOLEAN, usage' = usage
  PROVE  /\ pc'[L] = pc[L]
         /\ Waking' = IF next = "wake" THEN Waking \cup {n} ELSE Waking \ {n}
         /\ Agreement(L)' => IInv'
<1>. USE SuspendAssumption DEF Disciplined, IInv, TypeOK, Goto
<1>0. n # L
  OBVIOUS
<1>1. pc'[L] = pc[L] /\ pc'[n] = next /\ \A m \in Notifier : m # n => pc'[m] = pc[m]
  BY <1>0
<1>2. TypeOK'
  <2>1. pc' \in [Listener \cup Notifier -> ListenerPlace \cup NotifierPlace \cup Panics]
    OBVIOUS
  <2>. QED
    BY <1>1, <2>1
<1>3. NoPanic'
  BY <1>1 DEF NoPanic, NotifierPlace, Panics
<1>4. Waking' = IF next = "wake" THEN Waking \cup {n} ELSE Waking \ {n}
  BY <1>1 DEF Waking
<1>. QED
  BY <1>1, <1>2, <1>3, <1>4

\* A notifier that has not taken LISTEN does not owe a wake-up.
LEMMA NotWaking ==
  ASSUME NEW n \in Notifier, pc[n] # "wake"
  PROVE  Waking \ {n} = Waking
  BY DEF Waking

\* Every step of a notifier keeps the invariant.
LEMMA NotifierInv ==
  ASSUME NEW L, Disciplined(L), IInv, NEW n \in Notifier,
         NotifierStep(n) \/ Complete(n) \/ NotifyAnyway(n)
  PROVE  IInv'
<1>. USE DEF IDLE, WAIT, LISTEN, NotifierPlace
<1>0. /\ L \in Listener /\ L # NoWaker /\ Agreement(L)
      /\ usage \in {"reused", "timed", "once"}
      /\ state \in {IDLE, WAIT, LISTEN}
      /\ waker \in Listener \cup {NoWaker}
      /\ woken \in [Listener -> BOOLEAN]
      /\ event \in BOOLEAN
      /\ Disciplined(L) /\ IInv
  BY Here
<1>1. CASE Complete(n) \/ NotifyAnyway(n)
  <2>1. /\ Goto(n, "notify") /\ UNCHANGED <<state, waker, woken, usage>>
        /\ event' \in BOOLEAN /\ pc[n] # "wake"
    BY <1>0, <1>1 DEF Complete, NotifyAnyway
  <2>2. pc'[L] = pc[L] /\ Waking' = Waking /\ (Agreement(L)' => IInv')
    BY <1>0, <2>1, NotifierMoves, NotWaking
  <2>. QED
    BY <1>0, <2>1, <2>2 DEF Agreement, Registered, Claimed, Full, Empty
<1>2. CASE NotifySwap(n)
  <2>0. state' = IDLE /\ UNCHANGED <<waker, woken, event, usage>> /\ pc[n] # "wake"
    BY <1>2 DEF NotifySwap
  <2>1. CASE state = LISTEN
    <3>1. Goto(n, "wake")
      BY <1>2, <2>1 DEF NotifySwap
    <3>2. pc'[L] = pc[L] /\ Waking' = Waking \cup {n} /\ (Agreement(L)' => IInv')
      BY <1>0, <2>0, <3>1, NotifierMoves
    <3>3. ~Claimed(L)
      BY <2>1 DEF Claimed
    <3>4. Full(L) /\ pc[L] \in {"expired", "reacquire", "parked", "poll", "drop", "gone"}
          /\ (pc[L] # "parked" => usage # "reused")
      <4>1. pc[L] \in ListenerPlace
        BY <1>0 DEF IInv, TypeOK, NoPanic
      <4>2. pc[L] \in {"expired", "reacquire", "parked", "poll", "drop", "gone"}
        <5>1. pc[L] \notin {"idle", "future", "store", "publish", "clear"}
          BY <1>0, <2>1 DEF Agreement
        <5>2. pc[L] \notin {"retract", "drop clear"}
          <6>1. state # IDLE
            BY <2>1
          <6>. HIDE DEF IDLE, WAIT, LISTEN
          <6>. QED
            BY <1>0, <6>1 DEF Agreement
        <5>. QED
          BY <4>1, <5>1, <5>2 DEF ListenerPlace, InPoll
      <4>3. Registered(L) /\ (pc[L] # "parked" => usage # "reused")
        BY <1>0, <2>1, <4>2 DEF Agreement
      <4>. QED
        BY <3>3, <4>2, <4>3 DEF Registered
    <3>5. waker = L /\ waker' = L /\ Waking' = {n}
      BY <2>0, <3>2, <3>4 DEF Full
    <3>6. Claimed(L)'
      BY <2>0, <3>5 DEF Claimed
    <3>7. pc[L] = "parked" /\ usage = "reused" => ~woken[L]
      BY <1>0, <3>5 DEF Agreement, Empty
    <3>8. Registered(L)'
      BY <3>6 DEF Registered
    <3>. QED
      BY <1>0, <2>0, <3>2, <3>4, <3>6, <3>7, <3>8 DEF Agreement, InPoll
  <2>2. CASE state # LISTEN
    <3>1. Goto(n, "idle")
      BY <1>2, <2>2 DEF NotifySwap
    <3>2. pc'[L] = pc[L] /\ Waking' = Waking /\ (Agreement(L)' => IInv')
      BY <1>0, <2>0, <3>1, NotifierMoves, NotWaking
    <3>3. (Full(L) => Full(L)') /\ (Empty => Empty')
      BY <2>0, <3>2 DEF Full, Empty
    <3>4. Claimed(L) => Claimed(L)'
      BY <2>0, <3>2, <3>3 DEF Claimed
    <3>5. Registered(L) => Registered(L)'
      BY <2>2, <3>4 DEF Registered
    <3>. QED
      <4>1. state' # LISTEN
        BY <2>0
      <4>2. woken' = woken /\ usage' = usage
        BY <2>0
      <4>. HIDE DEF IDLE, WAIT, LISTEN
      <4>. QED
        BY <1>0, <2>0, <3>2, <3>3, <3>4, <3>5, <4>1, <4>2 DEF Agreement
  <2>. QED
    BY <2>1, <2>2
<1>3. CASE NotifyWake(n)
  <2>1. n \in Waking
    BY <1>3 DEF NotifyWake, Waking
  <2>2. ~Empty /\ ~Full(L)
    BY <2>1 DEF Empty, Full
  <2>3. pc[L] \in {"expired", "reacquire", "parked", "poll", "drop", "gone"}
        /\ (pc[L] # "parked" => usage # "reused") /\ Claimed(L)
    <3>1. pc[L] \in ListenerPlace
      BY <1>0 DEF IInv, TypeOK, NoPanic
    <3>2. pc[L] \in {"expired", "reacquire", "parked", "poll", "drop", "gone"}
      BY <1>0, <2>2, <3>1 DEF Agreement, ListenerPlace, InPoll
    <3>3. Registered(L) /\ (pc[L] # "parked" => usage # "reused")
      BY <1>0, <2>2, <3>2 DEF Agreement
    <3>. QED
      BY <2>2, <3>2, <3>3 DEF Registered
  <2>4. state = IDLE /\ waker = L /\ Waking = {n}
    BY <2>1, <2>2, <2>3 DEF Claimed
  <2>5. /\ waker' = NoWaker /\ Goto(n, "idle") /\ UNCHANGED <<state, event, usage>>
        /\ woken' = [woken EXCEPT ![L] = TRUE]
    BY <1>0, <1>3, <2>4 DEF NotifyWake, Unload
  <2>6. pc'[L] = pc[L] /\ Waking' = Waking \ {n} /\ (Agreement(L)' => IInv')
    BY <1>0, <2>5, NotifierMoves
  <2>7. Empty' /\ Claimed(L)'
    BY <2>4, <2>5, <2>6 DEF Empty, Claimed
  <2>8. Registered(L)'
    BY <2>7 DEF Registered
  <2>. QED
    BY <1>0, <2>3, <2>4, <2>5, <2>6, <2>7, <2>8 DEF Agreement, InPoll
<1>. QED
  BY <1>1, <1>2, <1>3 DEF NotifierStep

\* Every step of listener and notifiers keeps byte and slot in agreement
\* (core.rs:63-151).
LEMMA InvStep ==
  ASSUME NEW L, Disciplined(L), IInv, [Next]_vars
  PROVE  IInv'
<1>1. CASE UNCHANGED vars
  <2>1. Waking' = Waking
    BY <1>1 DEF vars, Waking
  <2>2. Agreement(L)' = Agreement(L)
    BY <1>1, <2>1 DEF vars, Agreement, Registered, Claimed, Full, Empty
  <2>. QED
    BY <1>1, <2>2 DEF vars, IInv, TypeOK, NoPanic, Disciplined
<1>2. CASE Next
  BY <1>2, ListenerInv, NotifierInv DEF Next, Disciplined
<1>. QED
  BY <1>1, <1>2

\* However many notifiers there are and however their notifications fall, the
\* slot is never loaded empty, never stored into when full, and no poll finds
\* an impossible state (core.rs:63-151, util.rs:89-122).
THEOREM NoPanics ==
  ASSUME NEW L, Disciplined(L)
  PROVE  Spec => []NoPanic
<1>1. Init => IInv
  BY InvInit
<1>2. IInv /\ [Next]_vars => IInv'
  BY InvStep
<1>3. IInv => NoPanic
  BY DEF IInv
<1>. QED
  BY <1>1, <1>2, <1>3, PTL DEF Spec

\* Every variable keeps its type (core.rs:14-16, 25-28).
THEOREM TypeCorrect ==
  ASSUME NEW L, Disciplined(L)
  PROVE  Spec => []TypeOK
<1>1. Init => IInv
  BY InvInit
<1>2. IInv /\ [Next]_vars => IInv'
  BY InvStep
<1>3. IInv => TypeOK
  BY DEF IInv
<1>. QED
  BY <1>1, <1>2, <1>3, PTL DEF Spec

-----------------------------------------------------------------------------
(* The promise of Notification *)

\* The one listener's phase, and the byte as the promise has it.
LEMMA PhaseOfOne ==
  ASSUME NEW L, Disciplined(L)
  PROVE  /\ (CHOOSE l \in Listener : TRUE) = L
         /\ L \in Listener
  BY DEF Disciplined

\* A step of the listener is a step of the promise: it returns from a wait only
\* when the byte says that a notification came (core.rs:82-139, 181-190).
LEMMA ListenerKeeps ==
  ASSUME NEW L, Disciplined(L), IInv, ListenerStep(L) \/ Expire(L) \/ Leave(L) \/ Vacate(L)
  PROVE  [Promise!Next]_(Promise!nvars)
<1>. USE DEF IDLE, WAIT, LISTEN, Phase, InPoll, Promise!Next, Promise!nvars
<1>0. /\ L \in Listener /\ L # NoWaker /\ Agreement(L)
      /\ (CHOOSE l \in Listener : TRUE) = L
      /\ state \in {IDLE, WAIT, LISTEN}
      /\ L \in DOMAIN pc
  BY Here, PhaseOfOne DEF IInv, TypeOK
<1>1. \A next : Goto(L, next) => pc'[L] = next
  BY <1>0 DEF Goto
<1>2. CASE Listen(L)
  <2>1. pc[L] = "idle" /\ Goto(L, "future") /\ state' = WAIT
    BY <1>0, <1>2 DEF Listen, Agreement
  <2>2. pc'[L] = "future" /\ state' # IDLE
    BY <1>1, <2>1
  <2>. HIDE DEF IDLE, WAIT, LISTEN
  <2>. QED
    BY <1>0, <2>1, <2>2 DEF Promise!Listen
<1>3. CASE PollFuture(L)
  BY <1>0, <1>1, <1>3 DEF PollFuture, Promise!Wait, Promise!Leave
<1>4. CASE PollLoad(L)
  <2>1. CASE state = IDLE
    <3>1. Goto(L, "drop")
      BY <1>4, <2>1 DEF PollLoad
    <3>. QED
      BY <1>0, <1>1, <1>4, <2>1, <3>1 DEF PollLoad, Promise!Return
  <2>2. CASE state = WAIT
    <3>1. Goto(L, "store")
      BY <1>4, <2>2 DEF PollLoad
    <3>. QED
      BY <1>0, <1>1, <1>4, <3>1 DEF PollLoad
  <2>3. CASE state = LISTEN
    <3>1. Goto(L, "reacquire")
      BY <1>4, <2>3 DEF PollLoad
    <3>. QED
      BY <1>0, <1>1, <1>4, <3>1 DEF PollLoad
  <2>. QED
    BY <1>0, <2>1, <2>2, <2>3
<1>5. CASE PollReacquire(L)
  <2>1. state # WAIT
    <3>1. Registered(L)
      BY <1>0, <1>5 DEF PollReacquire, Agreement
    <3>. QED
      BY <3>1 DEF Registered, Claimed
  <2>2. CASE state = LISTEN
    <3>1. Goto(L, "clear") /\ state' = WAIT
      BY <1>5, <2>2 DEF PollReacquire
    <3>2. pc'[L] = "clear" /\ state # IDLE /\ state' # IDLE
      BY <1>1, <2>2, <3>1
    <3>. HIDE DEF IDLE, WAIT, LISTEN
    <3>. QED
      BY <1>0, <1>5, <3>2 DEF PollReacquire
  <2>3. CASE state = IDLE
    <3>1. Goto(L, "drop") /\ state' = IDLE
      BY <1>5, <2>3 DEF PollReacquire
    <3>. QED
      BY <1>0, <1>1, <1>5, <2>3, <3>1 DEF PollReacquire, Promise!Return
  <2>. QED
    BY <1>0, <2>1, <2>2, <2>3
<1>6. CASE PollClear(L)
  BY <1>0, <1>1, <1>6 DEF PollClear, Unload, Agreement, Full
<1>7. CASE PollStore(L)
  BY <1>0, <1>1, <1>7 DEF PollStore, Store, Agreement, Empty
<1>8. CASE PollPublish(L)
  <2>1. state # LISTEN
    BY <1>0, <1>8 DEF PollPublish, Agreement
  <2>2. CASE state = WAIT
    <3>1. Goto(L, "parked") /\ state' = LISTEN
      BY <1>8, <2>2 DEF PollPublish
    <3>2. pc'[L] = "parked" /\ state # IDLE /\ state' # IDLE
      BY <1>1, <2>2, <3>1
    <3>. HIDE DEF IDLE, WAIT, LISTEN
    <3>. QED
      BY <1>0, <1>8, <3>2 DEF PollPublish
  <2>3. CASE state = IDLE
    <3>1. Goto(L, "retract") /\ state' = IDLE
      BY <1>8, <2>3 DEF PollPublish
    <3>. QED
      BY <1>0, <1>1, <1>8, <2>3, <3>1 DEF PollPublish
  <2>. QED
    BY <1>0, <2>1, <2>2, <2>3
<1>9. CASE PollRetract(L)
  BY <1>0, <1>1, <1>9 DEF PollRetract, Unload, Agreement, Full, Promise!Return
<1>10. CASE CheckIdle(L)
  BY <1>0, <1>1, <1>10 DEF CheckIdle, Promise!Return
<1>11. CASE WaitAgain(L)
  BY <1>0, <1>1, <1>11 DEF WaitAgain, Promise!Wait
<1>12. CASE GiveUp(L)
  BY <1>0, <1>1, <1>12 DEF GiveUp, Promise!Leave
<1>13. CASE ListenerDrop(L)
  <2>1. pc'[L] \in {"drop clear", "idle", "gone"} /\ state' = IDLE
    BY <1>0, <1>1, <1>13 DEF ListenerDrop, AfterDrop
  <2>. QED
    BY <1>0, <1>13, <2>1 DEF ListenerDrop, Promise!Drop
<1>14. CASE ListenerDropClear(L)
  <2>1. pc'[L] \in {"idle", "gone"}
    BY <1>0, <1>1, <1>14 DEF ListenerDropClear, Unload, AfterDrop, Agreement, Full
  <2>. QED
    BY <1>0, <1>14, <2>1 DEF ListenerDropClear
<1>15. CASE OnceDrop(L)
  BY <1>0, <1>1, <1>15 DEF OnceDrop, Promise!Drop
<1>16. CASE Expire(L)
  BY <1>0, <1>1, <1>16 DEF Expire, Promise!Expire
<1>17. CASE Leave(L)
  BY <1>0, <1>1, <1>17 DEF Leave
<1>18. CASE Vacate(L)
  <2>1. pc[L] = "gone" /\ Phase(L)' = Phase(L) /\ state' = IDLE
    BY <1>0, <1>1, <1>18 DEF Vacate, Unload, Goto
  <2>. QED
    BY <1>0, <2>1 DEF Promise!Notify
<1>. QED
  BY <1>2, <1>3, <1>4, <1>5, <1>6, <1>7, <1>8, <1>9, <1>10, <1>11, <1>12, <1>13, <1>14,
     <1>15, <1>16, <1>17, <1>18 DEF ListenerStep

\* A step of a notifier is a notification, or nothing, to the promise.
LEMMA NotifierKeeps ==
  ASSUME NEW L, Disciplined(L), IInv, NEW n \in Notifier,
         NotifierStep(n) \/ Complete(n) \/ NotifyAnyway(n)
  PROVE  [Promise!Next]_(Promise!nvars)
<1>0. /\ L \in Listener /\ n # L
      /\ (CHOOSE l \in Listener : TRUE) = L
  BY SuspendAssumption, PhaseOfOne DEF Disciplined
<1>1. \A next : Goto(n, next) => pc'[L] = pc[L]
  BY <1>0 DEF Goto, IInv, TypeOK
<1>2. pc'[L] = pc[L] /\ (state' = state \/ state' = IDLE)
  BY <1>1 DEF NotifierStep, NotifySwap, NotifyWake, Unload, Complete, NotifyAnyway
<1>3. Phase(L)' = Phase(L)
  BY <1>2 DEF Phase
<1>. QED
  BY <1>0, <1>2, <1>3 DEF Promise!Next, Promise!nvars, Promise!Notify

\* With one listener and any number of notifiers, a Suspend does what
\* Notification promises: a wait ends only on a notification that came after
\* the Listener was made, and no step takes one back (core.rs:50-195).
THEOREM Implements ==
  ASSUME NEW L, Disciplined(L)
  PROVE  Spec => ImplementsPromise
<1>1. Init => IInv
  BY InvInit
<1>2. IInv /\ [Next]_vars => IInv'
  BY InvStep
<1>3. Init => Promise!Init
  <2>. USE DEF IDLE, WAIT
  <2>1. (CHOOSE l \in Listener : TRUE) = L /\ L \in Listener
    BY PhaseOfOne
  <2>. QED
    BY <2>1 DEF Init, Promise!Init, Phase, InPoll
<1>4. IInv /\ [Next]_vars => [Promise!Next]_(Promise!nvars)
  <2>1. ASSUME IInv, UNCHANGED vars PROVE UNCHANGED Promise!nvars
    BY <2>1 DEF vars, Promise!nvars, Phase
  <2>2. ASSUME IInv, Next PROVE [Promise!Next]_(Promise!nvars)
    BY <2>2, ListenerKeeps, NotifierKeeps DEF Next, Disciplined
  <2>. QED
    BY <2>1, <2>2
<1>. QED
  BY <1>1, <1>2, <1>3, <1>4, PTL DEF Spec, ImplementsPromise, Promise!Spec

-----------------------------------------------------------------------------
(* The handles *)

SharedTypeOK ==
    /\ count \in Int
    /\ owned \in BOOLEAN
    /\ handle \in [Notifier -> Handles]
    /\ freed \in BOOLEAN

\* The inductive invariant.
SharedInv == IInv /\ SharedTypeOK /\ FreedLast

-----------------------------------------------------------------------------
(* Lemmas *)

\* Every step of a Suspend with its handles is one of the Suspend.
LEMMA SharedIsNext == SharedNext => [Next]_vars
<1>. USE DEF Next
<1>1. ASSUME NEW l \in Listener,
             SharedListenerStep(l) \/ SharedExpire(l) \/ SharedLeave(l) \/ Free(l)
      PROVE  Next
  BY <1>1 DEF SharedListenerStep, SharedExpire, SharedLeave, Free
<1>2. ASSUME NEW n \in Notifier, SharedNotifierStep(n) \/ CompleteBy(n) \/ NotifyBy(n)
      PROVE  Next
  BY <1>2 DEF SharedNotifierStep, CompleteBy, NotifyBy
<1>3. ASSUME NEW n \in Notifier, Give(n) \/ DropHandle(n) PROVE UNCHANGED vars
  BY <1>3 DEF Give, DropHandle
<1>4. ASSUME NEW n \in Notifier, NEW m \in Notifier, Copy(n, m) PROVE UNCHANGED vars
  BY <1>4 DEF Copy
<1>5. DropOwner => UNCHANGED vars
  BY DEF DropOwner
<1>. QED
  BY <1>1, <1>2, <1>3, <1>4, <1>5 DEF SharedNext

\* The handles are finitely many, and a count of zero leaves none.
LEMMA HoldersFinite ==
  /\ IsFiniteSet(Holders) /\ Cardinality(Holders) \in Nat
  /\ HandleCount \in Nat
  /\ HandleCount = 0 => ~owned /\ Holders = {}
<1>1. IsFiniteSet(Holders)
  BY SharedSuspendAssumption, FS_Subset DEF Holders
<1>2. Cardinality(Holders) \in Nat
  BY <1>1, FS_CardinalityType
<1>3. Cardinality(Holders) = 0 <=> Holders = {}
  BY <1>1, FS_EmptySet
<1>4. HandleCount = Cardinality(Holders) + (IF owned THEN 1 ELSE 0)
  BY DEF HandleCount
<1>5. CASE owned
  BY <1>1, <1>2, <1>4, <1>5
<1>6. CASE ~owned
  BY <1>1, <1>2, <1>3, <1>4, <1>6
<1>. QED
  BY <1>5, <1>6

\* A thread that has no handle and gets one adds one to the count.
LEMMA OneMore ==
  ASSUME SharedTypeOK, NEW n \in Notifier, NEW kind \in Handles \ {"none"},
         handle[n] = "none", handle' = [handle EXCEPT ![n] = kind], owned' = owned
  PROVE  HandleCount' = HandleCount + 1
<1>1. Holders' = Holders \cup {n} /\ n \notin Holders
  BY DEF Holders, SharedTypeOK
<1>2. Cardinality(Holders') = Cardinality(Holders) + 1
  BY <1>1, HoldersFinite, FS_AddElement
<1>. QED
  BY <1>2, HoldersFinite DEF HandleCount

\* A thread that has one and drops it takes one from the count.
LEMMA OneLess ==
  ASSUME SharedTypeOK, NEW n \in Notifier,
         handle[n] # "none", handle' = [handle EXCEPT ![n] = "none"], owned' = owned
  PROVE  HandleCount' = HandleCount - 1
<1>1. Holders' = Holders \ {n} /\ n \in Holders
  BY DEF Holders, SharedTypeOK
<1>2. Cardinality(Holders') = Cardinality(Holders) - 1
  BY <1>1, HoldersFinite, FS_RemoveElement
<1>. QED
  BY <1>2, HoldersFinite DEF HandleCount

\* A step of the listener is no step of one that is gone, and leaves the
\* notifiers where they are.
LEMMA ListenerIsHere ==
  ASSUME NEW L, Disciplined(L), IInv, ListenerStep(L) \/ Expire(L) \/ Leave(L)
  PROVE  pc[L] # "gone" /\ \A n \in Notifier : pc'[n] = pc[n]
<1>1. \A next : Goto(L, next) => \A n \in Notifier : pc'[n] = pc[n]
  BY SuspendAssumption DEF Goto, IInv, TypeOK, Disciplined
<1>2. (\E next : Goto(L, next)) \/ pc' = pc
  BY DEF ListenerStep, Listen, PollFuture, PollLoad, PollReacquire, PollClear, PollStore,
     PollPublish, PollRetract, CheckIdle, WaitAgain, GiveUp, ListenerDrop,
     ListenerDropClear, OnceDrop, Expire, Leave, Unload, Store
<1>3. pc[L] # "gone"
  BY DEF ListenerStep, Listen, PollFuture, PollLoad, PollReacquire, PollClear, PollStore,
     PollPublish, PollRetract, CheckIdle, WaitAgain, GiveUp, ListenerDrop,
     ListenerDropClear, OnceDrop, Expire, Leave
<1>. QED
  BY <1>1, <1>2, <1>3

\* A step of a notifier leaves the listener and the others where they are.
LEMMA NotifierIsHere ==
  ASSUME NEW L, Disciplined(L), IInv, NEW n \in Notifier,
         NotifierStep(n) \/ Complete(n) \/ NotifyAnyway(n)
  PROVE  pc'[L] = pc[L] /\ \A m \in Notifier : m # n => pc'[m] = pc[m]
<1>1. \A next : Goto(n, next) => /\ pc'[L] = pc[L]
                                 /\ \A m \in Notifier : m # n => pc'[m] = pc[m]
  BY SuspendAssumption DEF Goto, IInv, TypeOK, Disciplined
<1>2. \E next : Goto(n, next)
  BY DEF NotifierStep, NotifySwap, NotifyWake, Unload, Complete, NotifyAnyway
<1>. QED
  BY <1>1, <1>2

-----------------------------------------------------------------------------
(* The invariant *)

\* One handle for a Suspend, two for the ends of notify_once() (core.rs:219-231,
\* notify.rs:10-13).
LEMMA SharedInvInit == ASSUME NEW L, Disciplined(L) PROVE SharedInit => SharedInv
<1>. SUFFICES ASSUME SharedInit PROVE SharedInv
  OBVIOUS
<1>1. IInv
  BY InvInit DEF SharedInit
<1>2. \A n \in Notifier : pc[n] = "idle"
  BY SuspendAssumption DEF SharedInit, Init
<1>3. SharedTypeOK /\ count = HandleCount
  <2>1. CASE usage = "once"
    <3>1. PICK n \in Notifier : handle = [k \in Notifier |-> IF k = n THEN "once" ELSE "none"]
      BY <2>1 DEF SharedInit
    <3>2. Holders = {n}
      BY <3>1 DEF Holders
    <3>3. Cardinality(Holders) = 1
      BY <3>2, FS_Singleton
    <3>4. owned /\ ~freed /\ count = 2 /\ owned \in BOOLEAN /\ freed \in BOOLEAN
      BY <2>1 DEF SharedInit
    <3>5. handle \in [Notifier -> Handles]
      BY <3>1 DEF Handles
    <3>6. HandleCount = 2
      BY <3>3, <3>4 DEF HandleCount
    <3>. QED
      BY <3>4, <3>5, <3>6 DEF SharedTypeOK
  <2>2. CASE usage # "once"
    <3>1. Holders = {}
      BY <2>2 DEF SharedInit, Holders
    <3>2. Cardinality(Holders) = 0
      BY <3>1, FS_EmptySet
    <3>3. owned /\ ~freed /\ count = 1 /\ owned \in BOOLEAN /\ freed \in BOOLEAN
      BY <2>2 DEF SharedInit
    <3>4. handle \in [Notifier -> Handles]
      BY <2>2 DEF SharedInit, Handles
    <3>5. HandleCount = 1
      BY <3>2, <3>3 DEF HandleCount
    <3>. QED
      BY <3>3, <3>4, <3>5 DEF SharedTypeOK
  <2>. QED
    BY <2>1, <2>2
<1>. QED
  BY <1>1, <1>2, <1>3 DEF SharedInv, FreedLast, SharedInit

\* Every step keeps the count, and nobody is in a call without a handle.
LEMMA SharedInvNext ==
  ASSUME NEW L, Disciplined(L), SharedInv, SharedNext
  PROVE  SharedInv'
<1>0. /\ IInv /\ SharedTypeOK /\ FreedLast
      /\ HandleCount \in Nat /\ L \in Listener /\ Listener = {L} /\ L \notin Notifier
  BY HoldersFinite, SuspendAssumption DEF SharedInv, Disciplined
<1>1. IInv'
  BY <1>0, SharedIsNext, InvStep
<1>2. ASSUME SharedListenerStep(L) \/ SharedExpire(L) \/ SharedLeave(L)
      PROVE  SharedTypeOK' /\ FreedLast'
  <2>1. /\ ListenerStep(L) \/ Expire(L) \/ Leave(L)
        /\ UNCHANGED svars
    BY <1>2 DEF SharedListenerStep, SharedExpire, SharedLeave
  <2>2. pc[L] # "gone" /\ \A n \in Notifier : pc'[n] = pc[n]
    BY <1>0, <2>1, ListenerIsHere
  <2>3. HandleCount' = HandleCount
    BY <2>1 DEF HandleCount, Holders, svars
  <2>4. owned /\ ~freed
    BY <1>0, <2>2, HoldersFinite DEF FreedLast, SharedTypeOK
  <2>. QED
    BY <1>0, <2>1, <2>2, <2>3, <2>4 DEF SharedTypeOK, FreedLast, svars
<1>3. ASSUME NEW n \in Notifier, SharedNotifierStep(n)
      PROVE  SharedTypeOK' /\ FreedLast'
  <2>1. NotifierStep(n) /\ UNCHANGED svars /\ pc[n] # "idle"
    BY <1>3 DEF SharedNotifierStep, NotifierStep, NotifySwap, NotifyWake
  <2>2. pc'[L] = pc[L] /\ \A m \in Notifier : m # n => pc'[m] = pc[m]
    BY <1>0, <2>1, NotifierIsHere
  <2>3. HandleCount' = HandleCount
    BY <2>1 DEF HandleCount, Holders, svars
  <2>4. handle[n] # "none" /\ ~freed
    BY <1>0, <2>1, HoldersFinite DEF FreedLast, Holders
  <2>. QED
    BY <1>0, <2>1, <2>2, <2>3, <2>4 DEF SharedTypeOK, FreedLast, svars
<1>4. ASSUME NEW n \in Notifier, CompleteBy(n) \/ NotifyBy(n)
      PROVE  SharedTypeOK' /\ FreedLast'
  <2>1. (Complete(n) \/ NotifyAnyway(n)) /\ Uses(n)
    BY <1>4 DEF CompleteBy, NotifyBy
  <2>2. pc'[L] = pc[L] /\ \A m \in Notifier : m # n => pc'[m] = pc[m]
    BY <1>0, <2>1, NotifierIsHere
  <2>3. PICK kind \in {handle[n], "spent"} : handle' = [handle EXCEPT ![n] = kind]
    BY <2>1 DEF Uses
  <2>4. handle[n] # "none" /\ kind \in Handles \ {"none"} /\ UNCHANGED <<count, owned, freed>>
    BY <1>0, <2>1, <2>3 DEF Uses, Handles
  <2>5. Holders' = Holders
    BY <1>0, <2>3, <2>4 DEF Holders, SharedTypeOK
  <2>6. HandleCount' = HandleCount
    BY <2>4, <2>5 DEF HandleCount
  <2>7. ~freed
    BY <1>0, <2>4, HoldersFinite DEF FreedLast, Holders
  <2>8. SharedTypeOK' /\ \A m \in Notifier : handle[m] # "none" => handle'[m] # "none"
    BY <1>0, <2>3, <2>4 DEF SharedTypeOK
  <2>. QED
    BY <1>0, <2>2, <2>4, <2>6, <2>7, <2>8 DEF FreedLast
<1>5. ASSUME NEW n \in Notifier, NEW kind \in Handles \ {"none"}, NewHandle(n, kind),
             count' = count + 1, UNCHANGED <<vars, owned, freed>>, HandleCount # 0
      PROVE  SharedTypeOK' /\ FreedLast'
  <2>1. handle[n] = "none" /\ handle' = [handle EXCEPT ![n] = kind]
    BY <1>5 DEF NewHandle
  <2>2. HandleCount' = HandleCount + 1
    BY <1>0, <1>5, <2>1, OneMore
  <2>3. SharedTypeOK' /\ \A m \in Notifier : handle[m] # "none" => handle'[m] # "none"
    BY <1>0, <1>5, <2>1 DEF SharedTypeOK
  <2>. QED
    BY <1>0, <1>5, <2>2, <2>3 DEF FreedLast, vars
<1>6. ASSUME NEW n \in Notifier, Give(n) PROVE SharedTypeOK' /\ FreedLast'
  <2>1. PICK kind \in {"notifier", "waker"} : NewHandle(n, kind)
    BY <1>6 DEF Give
  <2>2. owned /\ count' = count + 1 /\ UNCHANGED <<vars, owned, freed>>
    BY <1>0, <1>6 DEF Give, FreedLast
  <2>. QED
    BY <1>0, <1>5, <2>1, <2>2, HoldersFinite DEF Handles
<1>7. ASSUME NEW n \in Notifier, NEW m \in Notifier, Copy(n, m)
      PROVE  SharedTypeOK' /\ FreedLast'
  <2>1. PICK kind \in {handle[n], "waker"} : NewHandle(m, kind)
    BY <1>7 DEF Copy
  <2>2. /\ handle[n] \in {"notifier", "waker"}
        /\ count' = count + 1 /\ UNCHANGED <<vars, owned, freed>>
    BY <1>7 DEF Copy
  <2>3. HandleCount # 0
    BY <2>2, HoldersFinite DEF Holders
  <2>. QED
    BY <1>5, <2>1, <2>2, <2>3 DEF Handles
<1>8. ASSUME NEW n \in Notifier, DropHandle(n) PROVE SharedTypeOK' /\ FreedLast'
  <2>1. /\ pc[n] = "idle" /\ handle[n] # "none"
        /\ handle' = [handle EXCEPT ![n] = "none"]
        /\ count' = count - 1 /\ UNCHANGED <<vars, owned, freed>>
    BY <1>8 DEF DropHandle
  <2>2. HandleCount' = HandleCount - 1
    BY <1>0, <2>1, OneLess
  <2>3. ~freed
    BY <1>0, <2>1, HoldersFinite DEF FreedLast, Holders
  <2>4. SharedTypeOK' /\ \A m \in Notifier : m # n => handle'[m] = handle[m]
    BY <1>0, <2>1 DEF SharedTypeOK, Handles
  <2>. QED
    BY <1>0, <2>1, <2>2, <2>3, <2>4 DEF FreedLast, vars
<1>9. ASSUME DropOwner PROVE SharedTypeOK' /\ FreedLast'
  <2>1. /\ owned /\ pc[L] = "gone" /\ owned' = FALSE
        /\ count' = count - 1 /\ UNCHANGED <<vars, handle, freed>>
    BY <1>0, <1>9 DEF DropOwner
  <2>2. HandleCount' = HandleCount - 1
    <3>1. Holders' = Holders
      BY <2>1 DEF Holders
    <3>. QED
      BY <2>1, <3>1, HoldersFinite DEF HandleCount
  <2>3. ~freed
    BY <1>0, <2>1, HoldersFinite DEF FreedLast
  <2>4. SharedTypeOK' /\ count' = HandleCount'
    <3>1. count \in Int /\ count = HandleCount
      BY <1>0 DEF FreedLast, SharedTypeOK
    <3>2. count' \in Int /\ count' = HandleCount'
      BY <2>1, <2>2, <3>1
    <3>3. owned' \in BOOLEAN /\ freed' \in BOOLEAN /\ handle' \in [Notifier -> Handles]
      BY <1>0, <2>1 DEF SharedTypeOK, Handles
    <3>. QED
      BY <3>2, <3>3 DEF SharedTypeOK
  <2>5. pc' = pc /\ handle' = handle /\ ~freed'
    BY <2>1, <2>3 DEF vars
  <2>6. \A l \in Listener : pc'[l] = "gone"
    BY <1>0, <2>1, <2>5
  <2>7. \A n \in Notifier : pc'[n] # "idle" => handle'[n] # "none"
    BY <1>0, <2>5 DEF FreedLast
  <2>. QED
    BY <2>4, <2>5, <2>6, <2>7 DEF FreedLast
<1>10. ASSUME Free(L) PROVE SharedTypeOK' /\ FreedLast'
  <2>1. /\ count = 0 /\ freed' = TRUE /\ Vacate(L)
        /\ UNCHANGED <<count, owned, handle>>
    BY <1>10 DEF Free
  <2>2. pc[L] = "gone" /\ Waking = {} /\ \A n \in Notifier : pc[n] = "idle"
    BY <1>0, <2>1 DEF Vacate, Waking
  <2>3. (Empty /\ state # LISTEN) \/ Registered(L)
    BY <1>0, <2>2 DEF IInv, Agreement
  <2>4. waker = NoWaker \/ (state = LISTEN /\ waker # NoWaker)
    BY <1>0, <2>2, <2>3, SuspendAssumption DEF Registered, Claimed, Full, Empty
  <2>5. waker' = NoWaker /\ (pc' = pc \/ Goto(L, "gone"))
    <3>1. CASE state = LISTEN
      <4>1. waker # NoWaker
        BY <1>0, <2>3, <3>1, SuspendAssumption
        DEF Registered, Claimed, Full, LISTEN, IDLE
      <4>. QED
        BY <2>1, <3>1, <4>1 DEF Vacate, Unload
    <3>2. CASE state # LISTEN
      BY <2>1, <2>4, <3>2 DEF Vacate
    <3>. QED
      BY <3>1, <3>2
  <2>6. pc'[L] = "gone" /\ \A n \in Notifier : pc'[n] = pc[n]
    BY <1>0, <2>2, <2>5 DEF Goto, IInv, TypeOK
  <2>7. HandleCount' = HandleCount
    BY <2>1 DEF HandleCount, Holders
  <2>. QED
    BY <1>0, <2>1, <2>5, <2>6, <2>7 DEF FreedLast, SharedTypeOK
<1>. QED
  BY <1>0, <1>1, <1>2, <1>3, <1>4, <1>6, <1>7, <1>8, <1>9, <1>10 DEF SharedNext, SharedInv

\* ... and so does a stuttering step.
LEMMA SharedInvStep ==
  ASSUME NEW L, Disciplined(L), SharedInv, [SharedNext]_allvars
  PROVE  SharedInv'
<1>1. CASE UNCHANGED allvars
  <2>1. UNCHANGED vars /\ UNCHANGED svars
    BY <1>1 DEF allvars
  <2>2. IInv'
    BY <2>1, InvStep DEF SharedInv
  <2>3. HandleCount' = HandleCount
    BY <2>1 DEF HandleCount, Holders, svars
  <2>. QED
    BY <2>1, <2>2, <2>3 DEF SharedInv, SharedTypeOK, FreedLast, svars, vars
<1>2. CASE SharedNext
  BY <1>2, SharedInvNext
<1>. QED
  BY <1>1, <1>2

-----------------------------------------------------------------------------
(* Theorems *)

\* However many handles there are and however they are cloned, spent and
\* dropped, the count is exact, nobody uses a Suspend that is freed, and the
\* waker that is still registered is dropped with it (internal.rs:122-137,
\* core.rs:205-210, 253-272).
THEOREM CountedFreed ==
  ASSUME NEW L, Disciplined(L)
  PROVE  SharedSpec => []FreedLast
<1>1. SharedInit => SharedInv
  BY SharedInvInit
<1>2. SharedInv /\ [SharedNext]_allvars => SharedInv'
  BY SharedInvStep
<1>3. SharedInv => FreedLast
  BY DEF SharedInv
<1>. QED
  BY <1>1, <1>2, <1>3, PTL DEF SharedSpec

\* A Suspend that needs handles does what Suspend allows, whose notifiers
\* need none: what is proved of Suspend holds here (core.rs:215-272).
THEOREM SharedImplements == SharedSpec => Spec
<1>1. SharedInit => Init
  BY DEF SharedInit
<1>2. [SharedNext]_allvars => [Next]_vars
  BY SharedIsNext DEF allvars
<1>. QED
  BY <1>1, <1>2, PTL DEF SharedSpec, Spec
=============================================================================
