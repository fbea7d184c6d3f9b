---------------------------- MODULE ChannelProofs ----------------------------
(***************************************************************************)
(* A channel keeps its types.  If its ends keep to a discipline, none of   *)
(* them panics, the box is freed once, by the last and with nothing left   *)
(* in it, and the channel keeps its promise, for any number of messages.   *)
(***************************************************************************)
EXTENDS Channel, TLAPS

\* A TrackSend may be polled without being woken; a receiver may look, or give up, before
\* it is woken.
Hurried == "repoll" \in usage.send
Spurious == "repoll" \in usage.recv \/ "deadline" \in usage.recv

Tracks == call[S] = "track"
Blocked == call[R] \in {"wait", "deadline"}

\* The ends make the calls that the program makes, and are in one where it takes one.
Calls ==
    /\ Disciplined(usage)
    /\ call[S] \in {"none"} \cup ({"send", "track"} \cap usage.send)
    /\ call[R] \in {"none"} \cup ({"wait", "deadline", "poll"} \cap usage.recv)
    /\ call[S] = "none" => pc[S] \in {"idle", "wake", "free", "gone"}
    /\ call[R] = "none" => pc[R] \in {"idle", "load", "wake", "forget", "free", "gone"}

-----------------------------------------------------------------------------
(* Both ends use the channel, and the byte, but for LOCKED, is b. *)

\* The slots hold what the byte says.
Agree(b) ==
    /\ b \in {LOADED, WAKE_SEND} <=> value # NoMessage
    /\ b = WAKE_RECV => waker = R
    /\ b = WAKE_SEND => waker = S
    /\ b \in {INIT, LOADED} => waker = NoWaker

\* Where an end may be without the lock, and with it.
SenderOut(b) ==
    \/ pc[S] \in {"idle", "lock"} /\ b # WAKE_SEND
    \/ pc[S] \in {"unpark", "waiting", "relock"} /\ Tracks
    \/ pc[S] = "gone" /\ Tracks /\ usage.once /\ (b = WAKE_SEND => LOCKED \in state)

SenderIn(b) ==
    \/ pc[S] = "use" /\ b # WAKE_SEND
    \/ pc[S] = "reuse" /\ Tracks /\ (b = WAKE_SEND => Hurried)
    \/ /\ pc[S] = "settle" /\ Tracks /\ usage.once /\ b # WAKE_RECV
       /\ "abandon" \in usage.send \/ ("unpolled" \in usage.send /\ b = INIT)

ReceiverOut(b) ==
    \/ pc[R] \in {"idle", "unpark"} /\ b # WAKE_RECV
    \/ pc[R] = "lock" /\ (b = WAKE_RECV => call[R] = "poll" /\ Spurious)
    \/ pc[R] = "waiting" /\ b # INIT
    \/ pc[R] \in {"look", "relock"} /\ Blocked /\ b = WAKE_SEND
    \/ pc[R] = "gone" /\ b = INIT /\ usage.once

ReceiverIn(b) ==
    \/ pc[R] = "use" /\ (b = WAKE_RECV => call[R] = "poll" /\ Spurious)
    \/ pc[R] = "reuse" /\ Blocked /\ b = WAKE_SEND
    \/ pc[R] = "settle" /\ call[R] = "deadline" /\ b # INIT

\* The sender of a send_once() has sent its message, and the receiver of one has got it.
Spent == Tracks /\ pc[S] \in {"unpark", "waiting", "relock", "reuse", "settle", "gone"}
Given == pc[R] \in {"unpark", "gone"} \/ (pc[R] = "idle" /\ call[R] = "poll")
OnceSent(b) ==
    /\ Given => b = INIT /\ Spent
    /\ b # WAKE_SEND /\ Spent /\ pc[S] # "settle" => Given \/ "repoll" \in usage.recv

\* Who is woken, or about to be, has something to look at, or may look at any time.
Woken(b) ==
    /\ owes[R] => pc[R] = "unpark"
    /\ b # WAKE_SEND /\ pc[R] \in {"lock", "use", "waiting", "settle"} /\ (Blocked \/ ~Spurious)
          => ~owes[S] /\ ~woken[R]
    /\ ~Spurious /\ owes[S] => b = WAKE_SEND /\ pc[R] = "waiting" /\ ~woken[R]
    /\ ~Hurried =>
          /\ b = WAKE_SEND => pc[S] # "relock" /\ ~woken[S] /\ ~owes[R]
          /\ pc[S] \in {"idle", "lock", "use", "relock", "reuse"} => ~owes[R]
          /\ pc[S] \in {"unpark", "waiting"} /\ woken[S] => ~owes[R]

Both(b) ==
    /\ Agree(b) /\ ~freed
    /\ \/ state = b /\ SenderOut(b) /\ ReceiverOut(b)
       \/ state = b \cup {LOCKED} /\ seen[S] = b /\ SenderIn(b) /\ ReceiverOut(b)
       \/ state = b \cup {LOCKED} /\ seen[R] = b /\ SenderOut(b) /\ ReceiverIn(b)
    /\ usage.once => OnceSent(b)
    /\ Woken(b)

-----------------------------------------------------------------------------
(* One of the ends has left, or is about to. *)

Empty == value = NoMessage /\ waker = NoWaker

\* The sender is done with the box.
SenderDone == pc[S] = "gone" \/ (pc[S] = "unpark" /\ call[S] = "send")

\* It has left its last message.
Posted ==
    /\ SenderDone /\ ~freed /\ value # NoMessage /\ waker = NoWaker
    /\ \/ /\ state = LOADED
          /\ \/ pc[R] \in {"idle", "lock", "waiting", "load"}
             \/ pc[R] = "look" /\ Blocked
             \/ pc[R] = "reuse" /\ seen[R] = LOADED /\ Blocked
             \/ pc[R] = "unpark" /\ ~usage.once
       \/ /\ state = LOADED \cup {LOCKED} /\ seen[R] = LOADED
          /\ pc[R] = "use" \/ (pc[R] = "settle" /\ call[R] = "deadline")

\* It has left none, and the receiver has not heard of it, or was Ready before.
Ended ==
    /\ SenderDone /\ ~freed /\ Empty
    /\ \/ /\ state = DONE
          /\ \/ pc[R] \in {"idle", "lock", "waiting"}
             \/ pc[R] = "look" /\ Blocked
             \/ pc[R] = "unpark" /\ (usage.once => call[R] = "poll")
             \/ pc[R] = "use" /\ seen[R] = INIT /\ pc[S] = "gone" /\ "drop" \in usage.send
       \/ /\ state = DONE \cup {LOCKED} /\ seen[R] = DONE
          /\ pc[R] = "use" \/ (pc[R] = "settle" /\ call[R] = "deadline")

\* It has left, and is to wake the receiver; or the receiver finds out when it registers.
Leaving ==
    /\ "drop" \in usage.send /\ ~freed /\ value = NoMessage /\ waker = R
    /\ \/ pc[S] = "wake" /\ state = DONE /\ pc[R] = "waiting" /\ ~woken[R]
       \/ pc[S] = "gone" /\ pc[R] = "clear"

\* The receiver is gone, and the sender is to find out.
Refused ==
    /\ pc[R] = "gone" /\ ~freed /\ Empty
    /\ usage.once \/ (usage.send = {} /\ pc[S] = "idle")
    /\ \/ /\ state = DONE
          /\ \/ pc[S] \in {"idle", "lock"}
             \/ pc[S] \in {"unpark", "waiting", "relock"} /\ Tracks
             \/ pc[S] = "use" /\ seen[S] = INIT
             \/ pc[S] \in {"reuse", "settle"} /\ seen[S] = INIT /\ Tracks
       \/ /\ state = DONE \cup {LOCKED} /\ seen[S] = DONE
          /\ pc[S] = "use" \/ (pc[S] = "reuse" /\ Tracks)
       \/ pc[S] = "gone" /\ Tracks

\* It has left a message behind: while the sender filled the slots, or waited.  Or it has
\* left its own waker, for it was registered.
LeftBehind ==
    /\ ~freed
    /\ \/ /\ usage.once /\ pc[R] = "gone" /\ pc[S] = "take back"
          /\ value # NoMessage /\ (Tracks => waker = S) /\ (~Tracks => waker = NoWaker)
       \/ /\ usage.once /\ "drop" \in usage.recv /\ Tracks /\ value # NoMessage
          /\ \/ /\ pc[R] = "wake" /\ state = LOADED /\ waker = S
                /\ pc[S] \in {"unpark", "waiting"} /\ ~woken[S]
             \/ /\ pc[R] = "gone" /\ waker = NoWaker
                /\ \/ state = LOADED /\ pc[S] \in {"unpark", "waiting", "relock"}
                   \/ state = LOADED \cup {LOCKED} /\ seen[S] = LOADED /\ pc[S] = "reuse"
       \/ /\ pc[R] = "forget" /\ state = DONE /\ value = NoMessage /\ waker = R
          /\ pc[S] = "idle" /\ usage.send = {}

\* The box is freed by the last.
FreedBy(e) == (pc[e] = "free" /\ ~freed) \/ (pc[e] = "gone" /\ freed)
Over ==
    /\ Empty
    /\ (SenderDone /\ FreedBy(R)) \/ (pc[R] = "gone" /\ FreedBy(S))

\* The inductive invariant.
IInv ==
    /\ Calls
    /\ \/ \E b \in {INIT, WAKE_RECV, WAKE_SEND} : Both(b)
       \/ Posted \/ Ended \/ Leaving
       \/ Refused \/ LeftBehind
       \/ Over

-----------------------------------------------------------------------------
(* The state byte *)

\* What the byte is without LOCKED, it is not with it.
LEMMA ByteFacts ==
  /\ DONE # INIT /\ DONE # LOADED /\ DONE # WAKE_RECV /\ DONE # WAKE_SEND
  /\ INIT # LOADED /\ INIT # WAKE_RECV /\ INIT # WAKE_SEND
  /\ LOADED # WAKE_RECV /\ LOADED # WAKE_SEND /\ WAKE_RECV # WAKE_SEND
  /\ LOCKED \notin DONE /\ LOCKED \notin INIT /\ LOCKED \notin LOADED
  /\ LOCKED \notin WAKE_RECV /\ LOCKED \notin WAKE_SEND
  BY DEF DONE, INIT, LOADED, WAKE_RECV, WAKE_SEND, LOCKED

LEMMA LockedByte == ASSUME NEW b \in Bytes PROVE b \cup {LOCKED} \in Bytes
<1>1. CASE b \in Unlocked
  BY <1>1 DEF Bytes
<1>2. CASE b \notin Unlocked
  <2>1. PICK c \in Unlocked : b = c \cup {LOCKED}
    BY <1>2 DEF Bytes
  <2>2. b \cup {LOCKED} = b
    BY <2>1
  <2>. QED
    BY <2>2
<1>. QED
  BY <1>1, <1>2

\* What cancel_recv() leaves of it.
LEMMA KeptByte ==
  /\ DONE \cap LOADED = DONE /\ INIT \cap LOADED = DONE /\ WAKE_RECV \cap LOADED = DONE
  /\ LOADED \cap LOADED = LOADED /\ WAKE_SEND \cap LOADED = LOADED
  /\ \A b \in Bytes : (b \cup {LOCKED}) \cap LOADED = b \cap LOADED
  /\ \A b \in Bytes : b \cap LOADED \in {DONE, LOADED}
<1>1. /\ DONE \cap LOADED = DONE /\ INIT \cap LOADED = DONE /\ WAKE_RECV \cap LOADED = DONE
      /\ LOADED \cap LOADED = LOADED /\ WAKE_SEND \cap LOADED = LOADED
  BY DEF DONE, INIT, LOADED, WAKE_RECV, WAKE_SEND
<1>2. \A b : (b \cup {LOCKED}) \cap LOADED = b \cap LOADED
  BY DEF LOADED, LOCKED
<1>3. \A b \in Unlocked : b \cap LOADED \in {DONE, LOADED}
  BY <1>1 DEF Unlocked
<1>4. \A b \in Bytes : b \cap LOADED \in {DONE, LOADED}
  BY <1>2, <1>3 DEF Bytes
<1>. QED
  BY <1>1, <1>2, <1>4

LEMMA UnlockedBytes == DONE \in Bytes /\ INIT \in Bytes /\ LOADED \in Bytes
                         /\ WAKE_RECV \in Bytes /\ WAKE_SEND \in Bytes
  BY DEF Bytes, Unlocked

-----------------------------------------------------------------------------
(* Types *)

\* A message that is being sent is one.
Numbered == pc[S] \in {"lock", "use"} => next - 1 \in Message

LEMMA TypeInit == Init => TypeOK /\ Numbered
<1>. SUFFICES ASSUME Init PROVE TypeOK /\ Numbered
  OBVIOUS
<1>1. next \in 1 .. (SendBound + 1) /\ at \in [Message -> {"sender", "channel", "receiver"}]
  BY ChannelAssumption DEF Init
<1>2. /\ pc \in [End -> Place \cup Panics] /\ seen \in [End -> Bytes] /\ state \in Bytes
      /\ call \in [End -> {"none", "send", "track", "wait", "deadline", "poll", "try"}]
      /\ owes \in [End -> BOOLEAN] /\ woken \in [End -> BOOLEAN]
  BY UnlockedBytes DEF Init, Place
<1>3. pc[S] = "idle"
  BY DEF Init, End
<1>. QED
  BY <1>1, <1>2, <1>3 DEF Init, TypeOK, Numbered

\* An end goes where there is a place for it.
LEMMA PlaceType ==
  ASSUME pc \in [End -> Place \cup Panics], NEW e \in End, NEW place \in Place \cup Panics, Goto(e, place)
  PROVE  /\ pc' \in [End -> Place \cup Panics]
         /\ pc'[e] = place /\ \A o \in End : o # e => pc'[o] = pc[o]
  BY DEF Goto

LEMMA AssertType ==
  ASSUME pc \in [End -> Place \cup Panics], NEW e \in End, NEW fault \in Place \cup Panics,
         NEW place \in Place \cup Panics, NEW holds, Assert(e, holds, fault, place)
  PROVE  /\ pc' \in [End -> Place \cup Panics]
         /\ pc'[e] = IF holds THEN place ELSE fault
         /\ \A o \in End : o # e => pc'[o] = pc[o]
  BY PlaceType DEF Assert

LEMMA ReturnsType ==
  ASSUME NEW dropped
  PROVE  SendReturns(dropped) \in {"idle", "free", "gone"} /\ RecvReturns(dropped) \in {"idle", "free", "gone"}
  BY DEF SendReturns, RecvReturns

\* The pieces that TypeOK is made of when an end moves.
LEMMA TypeStep == TypeOK /\ Numbered /\ [Next]_vars => (TypeOK /\ Numbered)'
<1>. SUFFICES ASSUME TypeOK, Numbered, [Next]_vars PROVE (TypeOK /\ Numbered)'
  OBVIOUS
<1>. USE DEF TypeOK, Numbered, own, ledger, box
<1>e. S \in End /\ R \in End /\ S # R /\ \A e \in End : e = S \/ e = R
  BY DEF End, S, R
<1>p. {"idle", "waiting", "lock", "use", "look", "relock", "reuse", "settle", "clear", "load",
       "forget", "take back", "wake", "free", "unpark", "gone"} \subseteq Place \cup Panics
      /\ Panics \subseteq Place \cup Panics
  BY DEF Place
<1>m. ASSUME pc[S] \in {"lock", "use"} PROVE next - 1 \in Message /\ next \in 2 .. (SendBound + 1)
  BY <1>m, ChannelAssumption DEF Message
<1>lock. ASSUME NEW e \in End, NEW from, NEW to \in {"use", "reuse"}, Lock(e, from, to),
                e = S /\ to = "use" => from = "lock"
         PROVE  (TypeOK /\ Numbered)'
  <2>1. state' \in Bytes /\ seen' \in [End -> Bytes]
    BY <1>lock, LockedByte DEF Lock
  <2>2. Goto(e, to) /\ pc[e] = from /\ UNCHANGED <<usage, value, waker, freed, call, owes, woken, next, at, ended>>
    BY <1>lock DEF Lock
  <2>3. pc' \in [End -> Place \cup Panics] /\ pc'[e] = to /\ \A o \in End : o # e => pc'[o] = pc[o]
    BY <2>2, <1>lock, <1>p, PlaceType
  <2>4. Numbered'
    BY <1>lock, <1>e, <2>2, <2>3
  <2>. QED
    BY <2>1, <2>2, <2>3, <2>4
<1>takes. ASSUME NEW e \in End, Takes(e)
          PROVE  value' \in Message \cup {NoMessage} /\ at' \in [Message -> {"sender", "channel", "receiver"}]
  BY <1>takes DEF Takes, End, S, R, NoMessage
<1>goto. ASSUME NEW e \in End, NEW place \in Place, Goto(e, place), UNCHANGED next,
                 e = S => place \notin {"lock", "use"}
         PROVE  pc' \in [End -> Place \cup Panics] /\ Numbered'
  BY <1>goto, <1>e, PlaceType
<1>assert. ASSUME NEW e \in End, NEW place \in Place, NEW fault \in Panics, NEW holds,
                  Assert(e, holds, fault, place), UNCHANGED next,
                  e = S => place \notin {"lock", "use"}
         PROVE  pc' \in [End -> Place \cup Panics] /\ Numbered'
  <2>1. fault \notin {"lock", "use"}
    BY DEF Panics
  <2>. QED
    BY <1>assert, <1>e, <2>1, AssertType
<1>1. CASE SendBegin
  <2>1. next' \in 1 .. (SendBound + 1) /\ next' - 1 \in Message
    BY <1>1, ChannelAssumption DEF SendBegin, Message
  <2>2. pc' \in [End -> Place \cup Panics]
    BY <1>1, <1>e, <1>p, PlaceType DEF SendBegin
  <2>3. call' \in [End -> {"none", "send", "track", "wait", "deadline", "poll", "try"}]
    BY <1>1, <1>e DEF SendBegin
  <2>. QED
    BY <1>1, <2>1, <2>2, <2>3 DEF SendBegin
<1>2. CASE SendLock \/ TrackLock \/ RecvLock
  <2>1. CASE SendLock
    BY <1>lock, <1>e, <2>1 DEF SendLock, Place
  <2>2. CASE TrackLock
    BY <1>lock, <1>e, <2>2 DEF TrackLock, Place
  <2>3. CASE Lock(R, "lock", "use")
    BY <1>lock, <1>e, <2>3 DEF Place
  <2>4. CASE Lock(R, "relock", "reuse")
    BY <1>lock, <1>e, <2>4 DEF Place
  <2>. QED
    BY <1>2, <2>1, <2>2, <2>3, <2>4 DEF RecvLock
<1>3. CASE SendStore
  <2>1. pc[S] = "use" /\ next - 1 \in Message
    BY <1>3, <1>m DEF SendStore
  <2>2. value' \in Message /\ at' \in [Message -> {"sender", "channel", "receiver"}]
    BY <1>3, <2>1 DEF SendStore
  <2>3. /\ waker' \in End \cup {NoWaker} /\ state' \in Bytes /\ owes' \in [End -> BOOLEAN]
        /\ woken' \in [End -> BOOLEAN]
    BY <1>3, <1>e, UnlockedBytes DEF SendStore
  <2>4. pc' \in [End -> Place \cup Panics] /\ Numbered'
    <3>1. PICK place \in {"duplicate store", "take back", "unpark", "waiting", "gone"} :
              \E holds : Assert(S, holds, "invalid state", place)
      BY <1>3 DEF SendStore
    <3>2. PICK q \in {"invalid state", "duplicate store", "take back", "unpark", "waiting", "gone"} :
              Goto(S, q)
      BY <3>1 DEF Assert
    <3>. QED
      BY <3>2, <1>e, PlaceType DEF Place, Panics
  <2>. QED
    BY <1>3, <2>2, <2>3, <2>4 DEF SendStore
<1>4. CASE SendRefused \/ SendDrop \/ TrackTaken
  <2>1. /\ state' \in Bytes
        /\ \E place \in {"idle", "free", "gone", "wake", "invalid state"} : Goto(S, place)
        /\ UNCHANGED <<usage, value, waker, freed, call, own, ledger>>
    <3>1. CASE SendRefused
      BY <3>1, ReturnsType, UnlockedBytes DEF SendRefused
    <3>2. CASE SendDrop
      BY <3>2, UnlockedBytes DEF SendDrop
    <3>3. CASE TrackTaken
      BY <3>3, <1>e, ReturnsType DEF TrackTaken
    <3>. QED
      BY <1>4, <3>1, <3>2, <3>3
  <2>. QED
    BY <2>1, <1>e, PlaceType DEF Place, Panics
<1>5. CASE SendTakeBack \/ TrackLeft \/ RecvLast \/ RecvLoad
  <2>1. CASE SendTakeBack
    BY <2>1, <1>takes, <1>assert, <1>e, ReturnsType DEF SendTakeBack, Place, Panics
  <2>2. CASE TrackLeft
    BY <2>2, <1>takes, <1>assert, <1>e, ReturnsType DEF TrackLeft, Place, Panics
  <2>3. CASE RecvLast
    <3>1. \E place \in {"idle", "free", "gone", "duplicate load"} : Goto(R, place)
      BY <2>3, ReturnsType DEF RecvLast, Assert
    <3>2. pc' \in [End -> Place \cup Panics] /\ Numbered'
      BY <2>3, <3>1, <1>e, PlaceType DEF RecvLast, Place, Panics
    <3>. QED
      BY <2>3, <3>2, <1>takes, <1>e, UnlockedBytes DEF RecvLast
  <2>4. CASE RecvLoad
    BY <2>4, <1>takes, <1>assert, <1>e, ReturnsType DEF RecvLoad, Place, Panics
  <2>. QED
    BY <1>5, <2>1, <2>2, <2>3, <2>4
<1>6. CASE SendWakes \/ RecvWakes
  <2>1. /\ owes' \in [End -> BOOLEAN] /\ woken' \in [End -> BOOLEAN]
        /\ UNCHANGED <<usage, box, call, seen, ledger>>
    BY <1>6, <1>e DEF SendWakes, RecvWakes, Unpark
  <2>2. CASE SendWakes
    BY <2>1, <2>2, <1>goto, <1>e DEF SendWakes, Unpark, Place
  <2>3. CASE RecvWakes
    BY <2>1, <2>3, <1>goto, <1>e, ReturnsType DEF RecvWakes, Unpark, Place
  <2>. QED
    BY <1>6, <2>2, <2>3
<1>7. CASE TrackPoll \/ RecvWoken
  <2>1. CASE TrackPoll
    BY <2>1, <1>goto, <1>e DEF TrackPoll, Place
  <2>2. CASE RecvWoken
    <3>1. PICK place \in {"lock", "look"} : Goto(R, place)
      BY <2>2 DEF RecvWoken
    <3>. QED
      BY <2>2, <3>1, <1>goto, <1>e DEF RecvWoken, Place
  <2>. QED
    BY <1>7, <2>1, <2>2
<1>8. CASE TrackAgain
  <2>1. \E place \in {"waiting", "invalid state", "duplicate load"} : Goto(S, place)
    BY <1>8 DEF TrackAgain, Assert
  <2>2. pc' \in [End -> Place \cup Panics] /\ Numbered'
    BY <1>8, <2>1, <1>e, PlaceType DEF TrackAgain, Place, Panics
  <2>. QED
    BY <1>8, <2>2, <1>e, UnlockedBytes DEF TrackAgain
<1>9. CASE TrackDrop
  <2>1. state' \in Bytes /\ seen' \in [End -> Bytes]
    BY <1>9, LockedByte DEF TrackDrop
  <2>2. \E place \in {"gone", "idle", "settle", "invalid state"} : Goto(S, place)
    BY <1>9 DEF TrackDrop
  <2>3. pc' \in [End -> Place \cup Panics] /\ Numbered'
    BY <2>2, <1>e, PlaceType DEF Place, Panics
  <2>4. call' \in [End -> {"none", "send", "track", "wait", "deadline", "poll", "try"}]
    BY <1>9, <1>e DEF TrackDrop
  <2>5. UNCHANGED next \/ (next \in Message /\ next' = next + 1)
    BY <1>9 DEF TrackDrop
  <2>6. next' \in 1 .. (SendBound + 1)
    BY <2>5, ChannelAssumption DEF Message
  <2>. QED
    BY <1>9, <2>1, <2>3, <2>4, <2>6 DEF TrackDrop
<1>10. CASE TrackSettle
  <2>1. state' \in Bytes /\ waker' \in End \cup {NoWaker}
    BY <1>10, UnlockedBytes DEF TrackSettle
  <2>. QED
    BY <1>10, <2>1, <1>assert, <1>e DEF TrackSettle, Place, Panics
<1>11. CASE Wake(S, R) \/ Wake(R, S)
  <2>1. woken' \in [End -> BOOLEAN] /\ waker' \in End \cup {NoWaker}
    BY <1>11, <1>e DEF Wake
  <2>2. \E e \in End : Assert(e, waker # NoWaker, "duplicate load", "gone")
    BY <1>11, <1>e DEF Wake
  <2>3. pc' \in [End -> Place \cup Panics] /\ Numbered'
    BY <2>2, <1>11, <1>assert DEF Wake, Place, Panics
  <2>. QED
    BY <1>11, <2>1, <2>3 DEF Wake
<1>12. CASE Free(S) \/ Free(R)
  <2>1. \E e \in End : Goto(e, "gone")
    BY <1>12, <1>e DEF Free
  <2>2. pc' \in [End -> Place \cup Panics] /\ Numbered'
    BY <2>1, <1>12, <1>goto DEF Free, Place
  <2>. QED
    BY <1>12, <2>2 DEF Free
<1>13. CASE RecvBegin
  <2>1. \E place \in {"look", "lock"} : Goto(R, place)
    BY <1>13 DEF RecvBegin
  <2>2. pc' \in [End -> Place \cup Panics] /\ Numbered'
    BY <2>1, <1>13, <1>goto, <1>e DEF RecvBegin, Place
  <2>3. /\ call' \in [End -> {"none", "send", "track", "wait", "deadline", "poll", "try"}]
        /\ owes' \in [End -> BOOLEAN] /\ woken' \in [End -> BOOLEAN]
    BY <1>13, <1>e DEF RecvBegin
  <2>. QED
    BY <1>13, <2>2, <2>3 DEF RecvBegin
<1>14. CASE RecvNoMore
  BY <1>14, <1>goto, <1>e, ReturnsType, UnlockedBytes DEF RecvNoMore, Place
<1>15. CASE RecvNext
  <2>1. \E place \in {"idle", "free", "gone", "unpark", "duplicate load"} : Goto(R, place)
    BY <1>15, ReturnsType DEF RecvNext, Assert
  <2>2. pc' \in [End -> Place \cup Panics] /\ Numbered'
    BY <2>1, <1>15, <1>e, PlaceType DEF RecvNext, Place, Panics
  <2>3. owes' \in [End -> BOOLEAN] /\ waker' = NoWaker /\ state' \in Bytes
    BY <1>15, UnlockedBytes DEF RecvNext
  <2>. QED
    BY <1>15, <2>2, <2>3, <1>takes, <1>e DEF RecvNext
<1>16. CASE RecvRegister
  <2>1. \E place \in {"duplicate store", "clear", "waiting", "invalid state"} : Goto(R, place)
    BY <1>16 DEF RecvRegister, Assert
  <2>2. pc' \in [End -> Place \cup Panics] /\ Numbered'
    BY <2>1, <1>16, <1>e, PlaceType DEF RecvRegister, Place, Panics
  <2>. QED
    BY <1>16, <2>2, <1>e, UnlockedBytes DEF RecvRegister
<1>17. CASE RecvClear
  <2>1. \E place \in {"idle", "free", "gone", "duplicate load"} : Goto(R, place)
    BY <1>17, ReturnsType DEF RecvClear, Assert
  <2>2. pc' \in [End -> Place \cup Panics] /\ Numbered'
    BY <1>17, <2>1, <1>e, PlaceType DEF RecvClear, Place, Panics
  <2>. QED
    BY <1>17, <2>2 DEF RecvClear
<1>18. CASE RecvLook
  <2>1. \E place \in {"idle", "waiting", "free", "gone", "reuse", "relock", "invalid state"} : Goto(R, place)
    BY <1>18, ReturnsType DEF RecvLook, Pending
  <2>2. pc' \in [End -> Place \cup Panics] /\ Numbered'
    BY <2>1, <1>18, <1>e, PlaceType DEF RecvLook, Place, Panics
  <2>3. seen' \in [End -> Bytes] /\ ended' \in BOOLEAN
    BY <1>18, <1>e DEF RecvLook
  <2>. QED
    BY <1>18, <2>2, <2>3 DEF RecvLook
<1>19. CASE RecvExpire
  <2>1. state' \in Bytes /\ seen' \in [End -> Bytes]
    BY <1>19, LockedByte DEF RecvExpire
  <2>. QED
    BY <1>19, <2>1, <1>goto, <1>e DEF RecvExpire, Place
<1>20. CASE RecvSettle
  <2>1. \E place \in {"idle", "free", "gone", "unpark", "invalid state", "duplicate load"} : Goto(R, place)
    BY <1>20, ReturnsType DEF RecvSettle, Assert
  <2>2. pc' \in [End -> Place \cup Panics] /\ Numbered'
    BY <2>1, <1>20, <1>e, PlaceType DEF RecvSettle, Place, Panics
  <2>3. value' \in Message \cup {NoMessage} /\ at' \in [Message -> {"sender", "channel", "receiver"}]
    BY <1>20, <1>takes, <1>e DEF RecvSettle
  <2>4. waker' \in End \cup {NoWaker} /\ state' \in Bytes /\ owes' \in [End -> BOOLEAN] /\ ended' \in BOOLEAN
    BY <1>20, UnlockedBytes DEF RecvSettle
  <2>. QED
    BY <1>20, <2>2, <2>3, <2>4 DEF RecvSettle
<1>21. CASE RecvDrop
  <2>1. \E place \in {"gone", "free", "load", "wake", "forget", "invalid state"} : Goto(R, place)
    BY <1>21 DEF RecvDrop
  <2>2. pc' \in [End -> Place \cup Panics] /\ Numbered'
    BY <2>1, <1>21, <1>e, PlaceType DEF RecvDrop, Place, Panics
  <2>3. state' \in Bytes
    BY <1>21, KeptByte, UnlockedBytes DEF RecvDrop
  <2>. QED
    BY <1>21, <2>2, <2>3 DEF RecvDrop
<1>22. CASE RecvForget
  BY <1>22, <1>assert, <1>e DEF RecvForget, Place, Panics
<1>23. CASE UNCHANGED vars
  BY <1>23 DEF vars
<1>. QED
  BY <1>1, <1>2, <1>3, <1>4, <1>5, <1>6, <1>7, <1>8, <1>9, <1>10, <1>11, <1>12, <1>13, <1>14, <1>15,
     <1>16, <1>17, <1>18, <1>19, <1>20, <1>21, <1>22, <1>23
  DEF Next, SenderStep, ReceiverStep, Choice

-----------------------------------------------------------------------------
(* The invariant *)

\* There are two ends, and each moves by itself.
LEMMA Moves ==
  ASSUME TypeOK, NEW e \in End, NEW place, Goto(e, place)
  PROVE  pc'[e] = place /\ \A o \in End : o # e => pc'[o] = pc[o]
  BY DEF TypeOK, Goto

LEMMA TwoEnds == S \in End /\ R \in End /\ S # R /\ NoWaker # S /\ NoWaker # R
  BY DEF End, S, R, NoWaker

\* The sender has the lock and finds the receiver there.
LEMMA StoreKeeps == ASSUME TypeOK, Numbered, IInv, SendStore PROVE IInv'
<1>. USE DEF SenderOut, SenderIn, ReceiverOut, ReceiverIn, Agree, OnceSent, Given, Spent, Woken,
             Tracks, Blocked, Hurried, Spurious, SenderDone, Empty, FreedBy
<1>0. value' # NoMessage
  <2>1. pc[S] = "use" /\ value' = next - 1
    BY DEF SendStore
  <2>. QED
    BY <2>1, ChannelAssumption DEF Numbered, Message, NoMessage
<1>1. /\ value' # NoMessage /\ UNCHANGED <<usage, freed, call, seen>>
      /\ waker' = (IF Tracks THEN S ELSE NoWaker)
      /\ state' = (IF Tracks THEN WAKE_SEND ELSE LOADED)
      /\ owes'[S] = (seen[S] = WAKE_RECV) /\ owes'[R] = owes[R]
      /\ woken'[S] = FALSE /\ woken'[R] = woken[R]
      /\ pc'[R] = pc[R] /\ pc[S] = "use" /\ seen[S] # DONE
  BY <1>0, TwoEnds DEF SendStore, TypeOK, Assert, Goto
<1>2. CASE \E b \in {INIT, WAKE_RECV, WAKE_SEND} : Both(b)
  <2>1. PICK b \in {INIT, WAKE_RECV, WAKE_SEND} : Both(b)
    BY <1>2
  <2>2. state = b \cup {LOCKED} /\ seen[S] = b /\ b # WAKE_SEND /\ ReceiverOut(b) /\ ~freed
    BY <1>1, <2>1, ByteFacts DEF Both
  <2>3. state # DONE
    BY <2>2, ByteFacts
  <2>4. pc'[S] = IF b = WAKE_RECV THEN "unpark" ELSE IF Tracks THEN "waiting" ELSE "gone"
    BY <2>1, <2>2, <2>3, TwoEnds, ByteFacts DEF SendStore, TypeOK, Both, Assert, Goto
  <2>5. CASE Tracks
    <3>1. Both(WAKE_SEND)'
      BY <1>1, <2>1, <2>2, <2>4, <2>5, ByteFacts DEF Both, IInv, Calls
    <3>. QED
      BY <1>1, <2>4, <3>1 DEF IInv, Calls
  <2>6. CASE ~Tracks
    <3>1. Posted'
      BY <1>1, <2>1, <2>2, <2>4, <2>6, ByteFacts DEF Both, Posted, IInv, Calls
    <3>. QED
      BY <1>1, <2>4, <3>1 DEF IInv, Calls
  <2>. QED
    BY <2>5, <2>6
<1>3. CASE Refused
  <2>1. LeftBehind'
    BY <1>1, <1>3, TwoEnds, ByteFacts DEF SendStore, TypeOK, Refused, LeftBehind, Assert, Goto
  <2>2. pc'[S] = "take back"
    BY <1>1, <1>3, TwoEnds, ByteFacts DEF SendStore, TypeOK, Refused, LeftBehind, Assert, Goto
  <2>. QED
    BY <1>1, <2>1, <2>2 DEF IInv, Calls
<1>. QED
  BY <1>1, <1>2, <1>3 DEF IInv, Posted, Ended, Leaving, LeftBehind, Over

\* The LOCKED bit is set when it was clear.
LEMMA LockKeeps ==
  ASSUME TypeOK, IInv, SendLock \/ TrackLock \/ RecvLock PROVE IInv'
<1>. USE DEF SenderOut, SenderIn, ReceiverOut, ReceiverIn, Agree, OnceSent, Given, Spent, Woken,
             Tracks, Blocked, Hurried, Spurious, SenderDone, Empty, FreedBy
<1>1. CASE SendLock \/ TrackLock
  <2>1. /\ UNCHANGED <<usage, value, waker, freed, call, owes, woken>>
        /\ LOCKED \notin state /\ state' = state \cup {LOCKED}
        /\ seen'[S] = state /\ seen'[R] = seen[R] /\ pc'[R] = pc[R]
        /\ \/ pc[S] = "lock" /\ pc'[S] = "use"
           \/ pc[S] = "relock" /\ pc'[S] = "reuse"
    BY <1>1, TwoEnds DEF SendLock, TrackLock, Lock, TypeOK, Goto
  <2>2. CASE \E b \in {INIT, WAKE_RECV, WAKE_SEND} : Both(b)
    <3>1. PICK b \in {INIT, WAKE_RECV, WAKE_SEND} : Both(b)
      BY <2>2
    <3>2. state = b /\ ReceiverOut(b)
      BY <2>1, <3>1, ByteFacts DEF Both
    <3>3. Both(b)'
      BY <2>1, <3>1, <3>2, ByteFacts DEF Both
    <3>. QED
      BY <2>1, <3>3 DEF IInv, Calls
  <2>3. CASE Refused
    <3>1. Refused'
      BY <2>1, <2>3, ByteFacts DEF Refused
    <3>. QED
      BY <2>1, <3>1 DEF IInv, Calls
  <2>4. CASE LeftBehind
    <3>1. LeftBehind'
      BY <2>1, <2>4, ByteFacts DEF LeftBehind
    <3>. QED
      BY <2>1, <3>1 DEF IInv, Calls
  <2>. QED
    BY <2>1, <2>2, <2>3, <2>4 DEF IInv, Posted, Ended, Leaving, Over
<1>2. CASE RecvLock
  <2>1. /\ UNCHANGED <<usage, value, waker, freed, call, owes, woken>>
        /\ LOCKED \notin state /\ state' = state \cup {LOCKED}
        /\ seen'[R] = state /\ seen'[S] = seen[S] /\ pc'[S] = pc[S]
        /\ \/ pc[R] = "lock" /\ pc'[R] = "use"
           \/ pc[R] = "relock" /\ pc'[R] = "reuse"
    BY <1>2, TwoEnds DEF RecvLock, Lock, TypeOK, Goto
  <2>2. CASE \E b \in {INIT, WAKE_RECV, WAKE_SEND} : Both(b)
    <3>1. PICK b \in {INIT, WAKE_RECV, WAKE_SEND} : Both(b)
      BY <2>2
    <3>2. state = b /\ SenderOut(b)
      BY <2>1, <3>1, ByteFacts DEF Both
    <3>3. Both(b)'
      BY <2>1, <3>1, <3>2, ByteFacts DEF Both
    <3>. QED
      BY <2>1, <3>3 DEF IInv, Calls
  <2>3. CASE Posted
    <3>1. Posted'
      BY <2>1, <2>3, ByteFacts DEF Posted
    <3>. QED
      BY <2>1, <3>1 DEF IInv, Calls
  <2>4. CASE Ended
    <3>1. Ended'
      BY <2>1, <2>4, ByteFacts DEF Ended
    <3>. QED
      BY <2>1, <3>1 DEF IInv, Calls
  <2>. QED
    BY <2>1, <2>2, <2>3, <2>4 DEF IInv, Leaving, Refused, LeftBehind, Over
<1>. QED
  BY <1>1, <1>2

\* The sender finds nobody, takes its message back, or has woken the receiver.
LEMMA SendEndKeeps ==
  ASSUME TypeOK, IInv, SendRefused \/ SendTakeBack \/ SendWakes PROVE IInv'
<1>. USE DEF SenderOut, SenderIn, ReceiverOut, ReceiverIn, Agree, OnceSent, Given, Spent, Woken,
             Tracks, Blocked, Hurried, Spurious, SenderDone, Empty, FreedBy
<1>1. CASE SendRefused
  <2>1. /\ UNCHANGED <<usage, value, waker, freed, call, owes, woken, seen>>
        /\ pc[S] = "use" /\ seen[S] = DONE
        /\ pc'[R] = pc[R] /\ pc'[S] = SendReturns(TRUE)
    BY <1>1, TwoEnds, Moves DEF SendRefused, own
  <2>2. Refused /\ usage.once
    BY <2>1, ByteFacts DEF IInv, Both, Posted, Ended, Leaving, Refused, LeftBehind, Over
  <2>3. pc'[S] = "free"
    BY <2>1, <2>2 DEF SendReturns
  <2>4. Over'
    BY <2>1, <2>2, <2>3 DEF Refused, Over
  <2>. QED
    BY <2>1, <2>3, <2>4 DEF IInv, Calls
<1>2. CASE SendTakeBack
  <2>1. /\ UNCHANGED <<usage, freed, call, woken, seen>>
        /\ pc[S] = "take back" /\ waker' = NoWaker /\ value' = NoMessage
        /\ pc'[R] = pc[R]
    BY <1>2, TwoEnds, AssertType DEF SendTakeBack, Takes, TypeOK, Assert, Goto
  <2>2. LeftBehind /\ usage.once /\ value # NoMessage /\ (Tracks => waker = S)
    BY <2>1, ByteFacts DEF IInv, Both, Posted, Ended, Leaving, Refused, LeftBehind, Over
  <2>3. pc'[S] = "free"
    BY <1>2, <2>2, TwoEnds, Moves DEF SendTakeBack, Assert, SendReturns
  <2>4. Over'
    BY <2>1, <2>2, <2>3 DEF LeftBehind, Over
  <2>. QED
    BY <2>1, <2>3, <2>4 DEF IInv, Calls
<1>3. CASE SendWakes
  <2>1. /\ UNCHANGED <<usage, state, value, waker, freed, call, seen>>
        /\ pc[S] = "unpark" /\ pc'[S] = (IF Tracks THEN "waiting" ELSE "gone")
        /\ pc'[R] = pc[R] /\ owes'[S] = FALSE /\ owes'[R] = owes[R]
        /\ woken'[S] = woken[S] /\ woken'[R] = (woken[R] \/ owes[S])
    BY <1>3, TwoEnds DEF SendWakes, Unpark, TypeOK, Goto, box
  <2>2. CASE \E b \in {INIT, WAKE_RECV, WAKE_SEND} : Both(b)
    <3>1. PICK b \in {INIT, WAKE_RECV, WAKE_SEND} : Both(b)
      BY <2>2
    <3>2. Both(b)'
      BY <2>1, <3>1, ByteFacts DEF Both
    <3>. QED
      BY <2>1, <3>2 DEF IInv, Calls
  <2>3. CASE Posted
    <3>1. Posted'
      BY <2>1, <2>3, ByteFacts DEF Posted
    <3>. QED
      BY <2>1, <3>1 DEF IInv, Calls
  <2>4. CASE Ended
    <3>1. Ended'
      BY <2>1, <2>4, ByteFacts DEF Ended
    <3>. QED
      BY <2>1, <3>1 DEF IInv, Calls
  <2>5. CASE Refused
    <3>1. Refused'
      BY <2>1, <2>5, ByteFacts DEF Refused
    <3>. QED
      BY <2>1, <3>1 DEF IInv, Calls
  <2>6. CASE LeftBehind
    <3>1. LeftBehind'
      BY <2>1, <2>6, ByteFacts DEF LeftBehind
    <3>. QED
      BY <2>1, <3>1 DEF IInv, Calls
  <2>7. CASE Over
    <3>1. Over'
      BY <2>1, <2>7, ByteFacts DEF Over
    <3>. QED
      BY <2>1, <3>1 DEF IInv, Calls
  <2>. QED
    BY <2>1, <2>2, <2>3, <2>4, <2>5, <2>6, <2>7 DEF IInv, Leaving
<1>. QED
  BY <1>1, <1>2, <1>3

\* A TrackSend is polled again, and finds its message gone, left behind or still there.
LEMMA TrackKeeps ==
  ASSUME TypeOK, IInv, TrackPoll \/ TrackTaken \/ TrackLeft \/ TrackAgain PROVE IInv'
<1>. USE DEF SenderOut, SenderIn, ReceiverOut, ReceiverIn, Agree, OnceSent, Given, Spent, Woken,
             Tracks, Blocked, Hurried, Spurious, SenderDone, Empty, FreedBy
<1>1. CASE TrackPoll
  <2>1. /\ UNCHANGED <<usage, state, value, waker, freed, call, seen, owes>>
        /\ pc[S] = "waiting" /\ (woken[S] \/ Hurried) /\ pc'[S] = "relock"
        /\ pc'[R] = pc[R] /\ woken'[S] = FALSE /\ woken'[R] = woken[R]
    BY <1>1, TwoEnds DEF TrackPoll, TypeOK, Goto, box
  <2>2. CASE \E b \in {INIT, WAKE_RECV, WAKE_SEND} : Both(b)
    <3>1. PICK b \in {INIT, WAKE_RECV, WAKE_SEND} : Both(b)
      BY <2>2
    <3>2. Both(b)'
      BY <2>1, <3>1, ByteFacts DEF Both
    <3>. QED
      BY <2>1, <3>2 DEF IInv, Calls
  <2>3. CASE Refused
    <3>1. Refused'
      BY <2>1, <2>3, ByteFacts DEF Refused
    <3>. QED
      BY <2>1, <3>1 DEF IInv, Calls
  <2>4. CASE LeftBehind
    <3>1. ~Hurried
      BY <2>1, <2>4 DEF IInv, Calls, Disciplined, LeftBehind
    <3>2. LeftBehind'
      BY <2>1, <2>4, <3>1, ByteFacts DEF LeftBehind
    <3>. QED
      BY <2>1, <3>2 DEF IInv, Calls
  <2>. QED
    BY <2>1, <2>2, <2>3, <2>4 DEF IInv, Posted, Ended, Leaving, Over
<1>2. CASE TrackTaken
  <2>1. /\ UNCHANGED <<usage, value, waker, freed, call, seen, owes, woken>>
        /\ pc[S] = "reuse" /\ seen[S] \in {DONE, INIT, WAKE_RECV}
        /\ state' = IF seen[S] = DONE THEN state ELSE seen[S]
        /\ pc'[R] = pc[R] /\ pc'[S] = SendReturns(seen[S] = DONE)
    BY <1>2, TwoEnds, Moves DEF TrackTaken, own
  <2>2. CASE \E b \in {INIT, WAKE_RECV, WAKE_SEND} : Both(b)
    <3>1. PICK b \in {INIT, WAKE_RECV, WAKE_SEND} : Both(b)
      BY <2>2
    <3>2. b # WAKE_SEND /\ state' = b /\ ReceiverOut(b)
      BY <2>1, <3>1, ByteFacts DEF Both
    <3>3. Tracks /\ pc'[S] = IF usage.once THEN "gone" ELSE "idle"
      BY <2>1, <3>1, <3>2, ByteFacts DEF Both, SendReturns
    <3>4. Both(b)'
      BY <2>1, <3>1, <3>2, <3>3, ByteFacts DEF Both
    <3>. QED
      BY <2>1, <3>3, <3>4 DEF IInv, Calls
  <2>3. CASE Refused
    <3>1. usage.once /\ Tracks
      BY <2>1, <2>3 DEF Refused
    <3>2. CASE seen[S] = DONE
      <4>1. pc'[S] = "free"
        BY <2>1, <3>1, <3>2 DEF SendReturns
      <4>2. Over'
        BY <2>1, <2>3, <4>1 DEF Refused, Over
      <4>. QED
        BY <2>1, <4>1, <4>2 DEF IInv, Calls
    <3>3. CASE seen[S] # DONE
      <4>1. pc'[S] = "gone"
        BY <2>1, <3>1, <3>3 DEF SendReturns
      <4>2. Refused'
        BY <2>1, <2>3, <3>1, <4>1 DEF Refused
      <4>. QED
        BY <2>1, <4>1, <4>2 DEF IInv, Calls
    <3>. QED
      BY <3>2, <3>3
  <2>. QED
    BY <2>1, <2>2, <2>3, ByteFacts DEF IInv, Posted, Ended, Leaving, LeftBehind, Over
<1>3. CASE TrackLeft
  <2>1. /\ UNCHANGED <<usage, state, waker, freed, call, seen, owes, woken>>
        /\ pc[S] = "reuse" /\ seen[S] = LOADED /\ value' = NoMessage
        /\ pc'[R] = pc[R]
    BY <1>3, TwoEnds DEF TrackLeft, Takes, own, TypeOK, Assert, Goto
  <2>2. LeftBehind /\ usage.once /\ value # NoMessage /\ Tracks
    BY <2>1, ByteFacts DEF IInv, Both, Posted, Ended, Leaving, Refused, LeftBehind, Over
  <2>3. pc'[S] = "free"
    BY <1>3, <2>2, TwoEnds, Moves DEF TrackLeft, Assert, SendReturns
  <2>4. Over'
    BY <2>1, <2>2, <2>3 DEF LeftBehind, Over
  <2>. QED
    BY <2>1, <2>3, <2>4 DEF IInv, Calls
<1>4. CASE TrackAgain
  <2>1. /\ UNCHANGED <<usage, value, freed, call, seen, owes, woken>>
        /\ pc[S] = "reuse" /\ seen[S] \notin {DONE, INIT, WAKE_RECV, LOADED}
        /\ waker' = S /\ state' = WAKE_SEND /\ pc'[R] = pc[R]
    BY <1>4, TwoEnds DEF TrackAgain, own, TypeOK, Assert, Goto
  <2>2. Both(WAKE_SEND) /\ seen[S] = WAKE_SEND
    BY <2>1, ByteFacts DEF IInv, Both, Posted, Ended, Leaving, Refused, LeftBehind, Over
  <2>3. pc'[S] = "waiting"
    BY <1>4, <2>2, TwoEnds, Moves DEF TrackAgain, Assert, Both
  <2>4. Both(WAKE_SEND)'
    BY <2>1, <2>2, <2>3, ByteFacts DEF Both
  <2>. QED
    BY <2>1, <2>3, <2>4 DEF IInv, Calls
<1>. QED
  BY <1>1, <1>2, <1>3, <1>4

\* A TrackSend is dropped.
LEMMA TrackDropKeeps ==
  ASSUME TypeOK, IInv, TrackDrop \/ TrackSettle PROVE IInv'
<1>. USE DEF SenderOut, SenderIn, ReceiverOut, ReceiverIn, Agree, OnceSent, Given, Spent, Woken,
             Tracks, Blocked, Hurried, Spurious, SenderDone, Empty, FreedBy
<1>1. CASE TrackDrop
  <2>1. /\ UNCHANGED <<usage, value, waker, freed, owes, woken>>
        /\ call'[R] = call[R] /\ state' = state \cup {LOCKED}
        /\ seen'[S] = state /\ seen'[R] = seen[R] /\ pc'[R] = pc[R]
        /\ \/ pc[S] = "waiting" /\ "abandon" \in usage.send /\ UNCHANGED call
           \/ pc[S] = "idle" /\ "unpolled" \in usage.send /\ call'[S] = "track"
    BY <1>1, TwoEnds DEF TrackDrop, TypeOK, Goto
  <2>2. /\ usage.once /\ usage.send # {} /\ "drop" \notin usage.send /\ "quit" \notin usage.recv
        /\ call'[S] = "track" \/ UNCHANGED call
        /\ "unpolled" \in usage.send => "track" \in usage.send /\ pc[R] \in {"idle", "wake", "load", "free", "gone"}
    BY <2>1, ByteFacts DEF IInv, Calls, Disciplined, Both, Posted, Ended, Leaving, Refused, LeftBehind, Over
  <2>3. /\ LOCKED \in state \/ state = DONE => pc'[S] = "gone"
        /\ state \in {INIT, WAKE_SEND} => pc'[S] = "settle"
    BY <1>1, <2>2, TwoEnds, ByteFacts DEF TrackDrop, TypeOK, Goto
  <2>4. CASE \E b \in {INIT, WAKE_RECV, WAKE_SEND} : Both(b)
    <3>1. PICK b \in {INIT, WAKE_RECV, WAKE_SEND} : Both(b)
      BY <2>4
    <3>2. b # WAKE_RECV
      BY <2>1, <2>2, <3>1, ByteFacts DEF Both, IInv, Calls, Disciplined
    <3>3. Calls'
      BY <2>1, <2>2, <2>3, <3>1, <3>2, ByteFacts DEF Both, IInv, Calls
    <3>4. CASE state = b
      <4>1. pc'[S] = "settle"
        BY <2>3, <3>1, <3>2, <3>4
      <4>2. Both(b)'
        BY <2>1, <2>2, <3>1, <3>2, <3>3, <3>4, <4>1, ByteFacts DEF Both, Calls
      <4>. QED
        BY <3>3, <4>2 DEF IInv
    <3>5. CASE state # b
      <4>1. pc'[S] = "gone" /\ state' = b \cup {LOCKED} /\ seen[R] = b
        BY <2>1, <2>3, <3>1, <3>5 DEF Both
      <4>2. Both(b)'
        BY <2>1, <2>2, <3>1, <3>2, <3>3, <3>5, <4>1, ByteFacts DEF Both, IInv, Calls
      <4>. QED
        BY <3>3, <4>2 DEF IInv
    <3>. QED
      BY <3>4, <3>5
  <2>5. CASE Refused
    <3>1. pc'[S] = "gone"
      BY <2>1, <2>3, <2>5 DEF Refused
    <3>2. Tracks'
      BY <2>1, <2>5 DEF Refused
    <3>3. Refused'
      BY <2>1, <2>2, <2>5, <3>1, <3>2, ByteFacts DEF Refused
    <3>. QED
      BY <2>1, <2>2, <3>1, <3>2, <3>3 DEF IInv, Calls
  <2>6. CASE LeftBehind
    BY <2>1, <2>2, <2>6 DEF LeftBehind, IInv, Calls, Disciplined
  <2>. QED
    BY <2>1, <2>2, <2>4, <2>5, <2>6 DEF IInv, Posted, Ended, Leaving, Over
<1>2. CASE TrackSettle
  <2>1. /\ UNCHANGED <<usage, value, freed, call, seen, owes, woken>>
        /\ pc[S] = "settle" /\ pc'[R] = pc[R]
        /\ state' = IF seen[S] = INIT THEN DONE ELSE LOADED
        /\ waker' = IF seen[S] = INIT THEN waker ELSE NoWaker
    BY <1>2, TwoEnds DEF TrackSettle, own, TypeOK, Assert, Goto
  <2>2. CASE \E b \in {INIT, WAKE_RECV, WAKE_SEND} : Both(b)
    <3>1. PICK b \in {INIT, WAKE_RECV, WAKE_SEND} : Both(b)
      BY <2>2
    <3>2. seen[S] = b /\ b # WAKE_RECV /\ usage.once /\ Tracks /\ ReceiverOut(b)
      BY <2>1, <3>1, ByteFacts DEF Both
    <3>3. pc'[S] = "gone"
      BY <1>2, <3>1, <3>2, TwoEnds, Moves, ByteFacts DEF TrackSettle, Assert, Both
    <3>4. CASE b = INIT
      <4>1. Ended' \/ Refused'
        BY <2>1, <3>1, <3>2, <3>3, <3>4, ByteFacts DEF Both, Ended, Refused, IInv, Calls, Disciplined
      <4>. QED
        BY <2>1, <3>3, <4>1 DEF IInv, Calls
    <3>5. CASE b = WAKE_SEND
      <4>1. Posted'
        BY <2>1, <3>1, <3>2, <3>3, <3>5, ByteFacts DEF Both, Posted, IInv, Calls, Disciplined
      <4>. QED
        BY <2>1, <3>3, <4>1 DEF IInv, Calls
    <3>. QED
      BY <3>2, <3>4, <3>5
  <2>3. CASE Refused
    <3>1. pc'[S] = "gone" /\ usage.once
      BY <1>2, <2>1, <2>3, TwoEnds, Moves, ByteFacts DEF TrackSettle, Assert, Refused
    <3>2. Refused'
      BY <2>1, <2>3, <3>1 DEF Refused
    <3>. QED
      BY <2>1, <3>1, <3>2 DEF IInv, Calls
  <2>. QED
    BY <2>1, <2>2, <2>3 DEF IInv, Posted, Ended, Leaving, LeftBehind, Over
<1>. QED
  BY <1>1, <1>2

\* The sender begins to send, or is dropped.
LEMMA SenderChooses ==
  ASSUME TypeOK, IInv, SendBegin \/ SendDrop PROVE IInv'
<1>. USE DEF SenderOut, SenderIn, ReceiverOut, ReceiverIn, Agree, OnceSent, Given, Spent, Woken,
             Tracks, Blocked, Hurried, Spurious, SenderDone, Empty, FreedBy
<1>1. CASE SendBegin
  <2>1. /\ UNCHANGED <<usage, state, value, waker, freed, seen, owes, woken>>
        /\ pc[S] = "idle" /\ pc'[S] = "lock" /\ pc'[R] = pc[R]
        /\ call'[S] \in {"send", "track"} \cap usage.send /\ call'[R] = call[R]
    BY <1>1, TwoEnds DEF SendBegin, TypeOK, Goto, box, own
  <2>2. Calls'
    BY <2>1 DEF IInv, Calls
  <2>3. CASE \E b \in {INIT, WAKE_RECV, WAKE_SEND} : Both(b)
    <3>1. PICK b \in {INIT, WAKE_RECV, WAKE_SEND} : Both(b)
      BY <2>3
    <3>2. Both(b)'
      BY <2>1, <3>1, ByteFacts DEF Both
    <3>. QED
      BY <2>2, <3>2 DEF IInv
  <2>4. CASE Refused
    <3>1. Refused'
      BY <2>1, <2>4, ByteFacts DEF Refused
    <3>. QED
      BY <2>2, <3>1 DEF IInv
  <2>5. CASE LeftBehind
    BY <2>1, <2>5 DEF LeftBehind
  <2>. QED
    BY <2>1, <2>3, <2>4, <2>5 DEF IInv, Posted, Ended, Leaving, Over
<1>2. CASE SendDrop
  <2>1. /\ UNCHANGED <<usage, value, waker, freed, call, seen, owes, woken>>
        /\ pc[S] = "idle" /\ "drop" \in usage.send /\ state' = DONE /\ pc'[R] = pc[R]
        /\ LOCKED \in state \/ state = INIT => pc'[S] = "gone"
        /\ state = DONE => pc'[S] = "free"
        /\ state = WAKE_RECV => pc'[S] = "wake"
    BY <1>2, TwoEnds, ByteFacts DEF SendDrop, TypeOK, Goto, own
  <2>2. /\ "deadline" \notin usage.recv /\ ~Spurious /\ usage.send # {} /\ "quit" \notin usage.recv
        /\ usage.once => call[R] # "poll"
    BY <2>1 DEF IInv, Calls, Disciplined
  <2>3. CASE \E b \in {INIT, WAKE_RECV, WAKE_SEND} : Both(b)
    <3>1. PICK b \in {INIT, WAKE_RECV, WAKE_SEND} : Both(b)
      BY <2>3
    <3>2. b # WAKE_SEND
      BY <2>1, <3>1 DEF Both
    <3>3. CASE b = INIT
      <4>1. pc'[S] = "gone"
        BY <2>1, <3>1, <3>3 DEF Both
      <4>2. Ended'
        BY <2>1, <2>2, <3>1, <3>3, <4>1, ByteFacts DEF Both, Ended, IInv, Calls
      <4>. QED
        BY <2>1, <4>1, <4>2 DEF IInv, Calls
    <3>4. CASE b = WAKE_RECV
      <4>1. state = WAKE_RECV /\ pc[R] = "waiting" /\ ~woken[R]
        BY <2>1, <2>2, <3>1, <3>4, ByteFacts DEF Both, IInv, Calls
      <4>2. Leaving'
        BY <2>1, <2>2, <3>1, <3>4, <4>1, ByteFacts DEF Both, Leaving
      <4>. QED
        BY <2>1, <4>1, <4>2 DEF IInv, Calls
    <3>. QED
      BY <3>2, <3>3, <3>4
  <2>4. CASE Refused
    <3>1. pc'[S] = "free"
      BY <2>1, <2>4 DEF Refused
    <3>2. Over'
      BY <2>1, <2>4, <3>1 DEF Refused, Over
    <3>. QED
      BY <2>1, <3>1, <3>2 DEF IInv, Calls
  <2>. QED
    BY <2>1, <2>2, <2>3, <2>4 DEF IInv, Posted, Ended, Leaving, LeftBehind, Over
<1>. QED
  BY <1>1, <1>2

\* A waker is loaded and used, and a box is freed.
LEMMA WakeKeeps ==
  ASSUME TypeOK, IInv, Wake(S, R) \/ Wake(R, S) \/ Free(S) \/ Free(R) PROVE IInv'
<1>. USE DEF SenderOut, SenderIn, ReceiverOut, ReceiverIn, Agree, OnceSent, Given, Spent, Woken,
             Tracks, Blocked, Hurried, Spurious, SenderDone, Empty, FreedBy
<1>1. CASE Wake(S, R)
  <2>1. /\ UNCHANGED <<usage, state, value, freed, call, seen, owes>>
        /\ pc[S] = "wake" /\ waker' = NoWaker /\ pc'[R] = pc[R]
    BY <1>1, TwoEnds DEF Wake, TypeOK, Assert, Goto
  <2>2. Leaving
    BY <2>1, ByteFacts DEF IInv, Both, Posted, Ended, Leaving, Refused, LeftBehind, Over
  <2>3. pc'[S] = "gone"
    BY <1>1, <2>1, <2>2, TwoEnds, Moves DEF Wake, Assert, Leaving
  <2>4. Ended'
    BY <2>1, <2>2, <2>3, TwoEnds DEF Leaving, Ended
  <2>. QED
    BY <2>1, <2>3, <2>4 DEF IInv, Calls
<1>2. CASE Wake(R, S)
  <2>1. /\ UNCHANGED <<usage, state, value, freed, call, seen, owes>>
        /\ pc[R] = "wake" /\ waker' = NoWaker /\ pc'[S] = pc[S]
    BY <1>2, TwoEnds DEF Wake, TypeOK, Assert, Goto
  <2>2. LeftBehind
    BY <2>1, ByteFacts DEF IInv, Both, Posted, Ended, Leaving, Refused, LeftBehind, Over
  <2>3. pc'[R] = "gone"
    BY <1>2, <2>1, <2>2, TwoEnds, Moves DEF Wake, Assert, LeftBehind
  <2>4. LeftBehind'
    BY <2>1, <2>2, <2>3, TwoEnds DEF LeftBehind
  <2>. QED
    BY <2>1, <2>3, <2>4 DEF IInv, Calls
<1>3. CASE Free(S)
  <2>1. /\ UNCHANGED <<usage, state, value, waker, call, seen, owes, woken>>
        /\ pc[S] = "free" /\ pc'[S] = "gone" /\ freed' /\ pc'[R] = pc[R]
    BY <1>3, TwoEnds, Moves DEF Free, own
  <2>2. Over
    BY <2>1, ByteFacts DEF IInv, Both, Posted, Ended, Leaving, Refused, LeftBehind, Over
  <2>. QED
    BY <2>1, <2>2 DEF IInv, Calls, Over
<1>4. CASE Free(R)
  <2>1. /\ UNCHANGED <<usage, state, value, waker, call, seen, owes, woken>>
        /\ pc[R] = "free" /\ pc'[R] = "gone" /\ freed' /\ pc'[S] = pc[S]
    BY <1>4, TwoEnds, Moves DEF Free, own
  <2>2. Over
    BY <2>1, ByteFacts DEF IInv, Both, Posted, Ended, Leaving, Refused, LeftBehind, Over
  <2>. QED
    BY <2>1, <2>2 DEF IInv, Calls, Over
<1>. QED
  BY <1>1, <1>2, <1>3, <1>4

\* The receiver begins to wait, is woken, or looks without the lock.
LEMMA RecvLooks ==
  ASSUME TypeOK, IInv, RecvBegin \/ RecvWoken \/ RecvLook PROVE IInv'
<1>. USE DEF SenderOut, SenderIn, ReceiverOut, ReceiverIn, Agree, OnceSent, Given, Spent, Woken,
             Tracks, Blocked, Hurried, Spurious, SenderDone, Empty, FreedBy
<1>1. CASE RecvBegin
  <2>1. PICK how \in {"wait", "deadline", "poll", "try"} \cap usage.recv :
              /\ call' = [call EXCEPT ![R] = how]
              /\ Goto(R, IF how = "try" THEN "look" ELSE "lock")
              /\ owes' = [owes EXCEPT ![S] = @ /\ how = "poll"]
    BY <1>1 DEF RecvBegin
  <2>2. /\ how \in {"wait", "deadline", "poll"} \cap usage.recv
        /\ UNCHANGED <<usage, state, value, waker, freed, seen>>
        /\ pc[R] = "idle" /\ pc'[R] = "lock" /\ pc'[S] = pc[S]
        /\ usage.once /\ call[R] = "poll" => "repoll" \in usage.recv
        /\ call'[R] = how /\ call'[S] = call[S]
        /\ owes'[R] = owes[R]
        /\ owes'[S] => owes[S] /\ how = "poll"
        /\ woken'[R] = FALSE /\ woken'[S] = woken[S]
    BY <1>1, <2>1, TwoEnds DEF RecvBegin, TypeOK, IInv, Calls, Disciplined, Goto, box
  <2>3. Calls'
    BY <2>2 DEF IInv, Calls
  <2>4. CASE \E b \in {INIT, WAKE_RECV, WAKE_SEND} : Both(b)
    <3>1. PICK b \in {INIT, WAKE_RECV, WAKE_SEND} : Both(b)
      BY <2>4
    <3>2. Agree(b)' /\ ~freed'
      BY <2>2, <3>1, ByteFacts DEF Both
    <3>3. (state = b /\ SenderOut(b) /\ ReceiverOut(b))' \/ (state = b \cup {LOCKED} /\ seen[S] = b /\ SenderIn(b) /\ ReceiverOut(b))'
      BY <2>2, <3>1, ByteFacts DEF Both
    <3>4. usage.once => OnceSent(b)'
      BY <2>2, <3>1, ByteFacts DEF Both
    <3>5. Woken(b)'
      BY <2>2, <3>1, ByteFacts DEF Both
    <3>6. Both(b)'
      BY <2>2, <3>2, <3>3, <3>4, <3>5 DEF Both
    <3>. QED
      BY <2>3, <3>6 DEF IInv
  <2>5. CASE Posted
    <3>1. Posted'
      BY <2>2, <2>5, ByteFacts DEF Posted
    <3>. QED
      BY <2>3, <3>1 DEF IInv
  <2>6. CASE Ended
    <3>1. Ended'
      BY <2>2, <2>6, ByteFacts DEF Ended
    <3>. QED
      BY <2>3, <3>1 DEF IInv
  <2>. QED
    BY <2>2, <2>4, <2>5, <2>6 DEF IInv, Leaving, Refused, LeftBehind, Over
<1>2. CASE RecvWoken
  <2>1. /\ UNCHANGED <<usage, state, value, waker, freed, call, seen, owes>>
        /\ pc[R] = "waiting" /\ pc'[S] = pc[S]
        /\ woken[R] \/ (call[R] = "poll" /\ "repoll" \in usage.recv)
        /\ pc'[R] = IF call[R] = "poll" THEN "lock" ELSE "look"
        /\ woken'[R] = FALSE /\ woken'[S] = woken[S]
    BY <1>2, TwoEnds DEF RecvWoken, TypeOK, Goto, box
  <2>2. call[R] \in {"wait", "deadline", "poll"} /\ Calls'
    BY <2>1 DEF IInv, Calls
  <2>3. CASE \E b \in {INIT, WAKE_RECV, WAKE_SEND} : Both(b)
    <3>1. PICK b \in {INIT, WAKE_RECV, WAKE_SEND} : Both(b)
      BY <2>3
    <3>2. Both(b)'
      BY <2>1, <2>2, <3>1, ByteFacts DEF Both
    <3>. QED
      BY <2>2, <3>2 DEF IInv
  <2>4. CASE Posted
    <3>1. Posted'
      BY <2>1, <2>2, <2>4, ByteFacts DEF Posted
    <3>. QED
      BY <2>2, <3>1 DEF IInv
  <2>5. CASE Ended
    <3>1. Ended'
      BY <2>1, <2>2, <2>5, ByteFacts DEF Ended
    <3>. QED
      BY <2>2, <3>1 DEF IInv
  <2>6. CASE Leaving
    BY <2>1, <2>6 DEF Leaving, IInv, Calls, Disciplined
  <2>. QED
    BY <2>1, <2>3, <2>4, <2>5, <2>6 DEF IInv, Refused, LeftBehind, Over
<1>3. CASE RecvLook
  <2>1. /\ UNCHANGED <<usage, state, value, waker, freed, call, owes, woken>>
        /\ pc[R] = "look" \/ (pc[R] = "reuse" /\ seen[R] \in {INIT, WAKE_RECV})
        /\ pc'[S] = pc[S] /\ seen'[S] = seen[S]
    BY <1>3, TwoEnds DEF RecvLook, TypeOK, Goto, box
  <2>2. pc[R] = "look"
    BY <2>1, ByteFacts DEF IInv, Both, Posted, Ended, Leaving, Refused, LeftBehind, Over
  <2>3. /\ seen'[R] = state
        /\ state = DONE => pc'[R] = RecvReturns(TRUE)
        /\ state = LOADED => pc'[R] = "reuse"
        /\ state = WAKE_SEND => pc'[R] = "relock"
    BY <1>3, <2>2, TwoEnds, ByteFacts DEF RecvLook, TypeOK, Goto
  <2>4. CASE \E b \in {INIT, WAKE_RECV, WAKE_SEND} : Both(b)
    <3>1. PICK b \in {INIT, WAKE_RECV, WAKE_SEND} : Both(b)
      BY <2>4
    <3>2. state = WAKE_SEND /\ b = WAKE_SEND
      BY <2>2, <3>1, ByteFacts DEF Both, IInv, Calls, Disciplined
    <3>3. Both(b)'
      BY <2>1, <2>2, <2>3, <3>1, <3>2, ByteFacts DEF Both
    <3>. QED
      BY <2>1, <2>2, <2>3, <3>2, <3>3 DEF IInv, Calls
  <2>5. CASE Posted
    <3>1. state = LOADED
      BY <2>2, <2>5 DEF Posted
    <3>2. Posted'
      BY <2>1, <2>2, <2>3, <2>5, <3>1, ByteFacts DEF Posted
    <3>. QED
      BY <2>1, <2>2, <2>3, <3>1, <3>2 DEF IInv, Calls
  <2>6. CASE Ended
    <3>1. state = DONE /\ Blocked
      BY <2>2, <2>6 DEF Ended
    <3>2. pc'[R] = "free"
      BY <2>3, <3>1 DEF RecvReturns
    <3>3. Over'
      BY <2>1, <2>6, <3>2 DEF Ended, Over
    <3>. QED
      BY <2>1, <3>2, <3>3 DEF IInv, Calls
  <2>. QED
    BY <2>2, <2>4, <2>5, <2>6 DEF IInv, Leaving, Refused, LeftBehind, Over
<1>. QED
  BY <1>1, <1>2, <1>3

\* The receiver is told that there is no more, gets a message, or has woken the sender.
LEMMA RecvGets ==
  ASSUME TypeOK, IInv, RecvNoMore \/ RecvLast \/ RecvNext \/ RecvWakes PROVE IInv'
<1>. USE DEF SenderOut, SenderIn, ReceiverOut, ReceiverIn, Agree, OnceSent, Given, Spent, Woken,
             Tracks, Blocked, Hurried, Spurious, SenderDone, Empty, FreedBy
<1>1. CASE RecvNoMore
  <2>1. /\ UNCHANGED <<usage, value, waker, freed, call, seen, owes, woken>>
        /\ pc[R] \in {"use", "reuse"} /\ seen[R] = DONE /\ state' = DONE
        /\ pc'[S] = pc[S] /\ pc'[R] = RecvReturns(TRUE)
    BY <1>1, TwoEnds, Moves DEF RecvNoMore, own
  <2>2. Ended
    BY <2>1, ByteFacts DEF IInv, Both, Posted, Ended, Leaving, Refused, LeftBehind, Over
  <2>3. pc'[R] = IF usage.once /\ call[R] = "poll" THEN "idle" ELSE "free"
    BY <2>1 DEF RecvReturns
  <2>4. Ended' \/ Over'
    BY <2>1, <2>2, <2>3 DEF Ended, Over
  <2>. QED
    BY <2>1, <2>3, <2>4 DEF IInv, Calls
<1>2. CASE RecvLast
  <2>1. /\ UNCHANGED <<usage, waker, freed, call, seen, owes, woken>>
        /\ pc[R] \in {"use", "reuse"} /\ seen[R] = LOADED /\ state' = DONE
        /\ value' = NoMessage /\ pc'[S] = pc[S]
    BY <1>2, TwoEnds DEF RecvLast, Takes, own, TypeOK, Assert, Goto
  <2>2. Posted
    BY <2>1, ByteFacts DEF IInv, Both, Posted, Ended, Leaving, Refused, LeftBehind, Over
  <2>3. pc'[R] = IF usage.once /\ call[R] = "poll" THEN "idle" ELSE "free"
    BY <1>2, <2>2, TwoEnds, Moves DEF RecvLast, Assert, RecvReturns, Posted
  <2>4. Ended' \/ Over'
    BY <2>1, <2>2, <2>3 DEF Posted, Ended, Over
  <2>. QED
    BY <2>1, <2>3, <2>4 DEF IInv, Calls
<1>3. CASE RecvNext
  <2>1. /\ UNCHANGED <<usage, freed, call, seen, woken>>
        /\ pc[R] \in {"use", "reuse"} /\ seen[R] = WAKE_SEND
        /\ value' = NoMessage /\ waker' = NoWaker /\ state' = INIT
        /\ owes'[R] = (state # DONE) /\ owes'[S] = owes[S] /\ pc'[S] = pc[S]
    BY <1>3, TwoEnds DEF RecvNext, Takes, TypeOK, Assert, Goto
  <2>2. Both(WAKE_SEND) /\ state = WAKE_SEND \cup {LOCKED} /\ SenderOut(WAKE_SEND) /\ ReceiverIn(WAKE_SEND)
    BY <2>1, ByteFacts DEF IInv, Both, Posted, Ended, Leaving, Refused, LeftBehind, Over
  <2>3. pc'[R] = "unpark" /\ owes'[R]
    <3>1. state # DONE /\ value # NoMessage /\ waker # NoWaker
      BY <2>2, TwoEnds, ByteFacts DEF Both
    <3>. QED
      BY <1>3, <2>1, <3>1, TwoEnds, Moves DEF RecvNext, Assert
  <2>4. usage.once => Spent'
    BY <2>1, <2>2, <2>3 DEF Both
  <2>5. Both(INIT)'
    BY <2>1, <2>2, <2>3, <2>4, ByteFacts DEF Both
  <2>. QED
    BY <2>1, <2>3, <2>5 DEF IInv, Calls
<1>4. CASE RecvWakes
  <2>1. /\ UNCHANGED <<usage, state, value, waker, freed, call, seen>>
        /\ pc[R] = "unpark" /\ pc'[S] = pc[S] /\ pc'[R] = RecvReturns(FALSE)
        /\ owes'[R] = FALSE /\ owes'[S] = owes[S]
        /\ woken'[R] = woken[R] /\ woken'[S] = (woken[S] \/ owes[R])
    BY <1>4, TwoEnds DEF RecvWakes, Unpark, TypeOK, Goto, box
  <2>2. pc'[R] = IF usage.once /\ call[R] # "poll" THEN "gone" ELSE "idle"
    BY <2>1 DEF RecvReturns
  <2>3. CASE \E b \in {INIT, WAKE_RECV, WAKE_SEND} : Both(b)
    <3>1. PICK b \in {INIT, WAKE_RECV, WAKE_SEND} : Both(b)
      BY <2>3
    <3>2. Both(b)'
      BY <2>1, <2>2, <3>1, ByteFacts DEF Both
    <3>. QED
      BY <2>1, <2>2, <3>2 DEF IInv, Calls
  <2>4. CASE Posted
    <3>1. Posted'
      BY <2>1, <2>2, <2>4 DEF Posted
    <3>. QED
      BY <2>1, <2>2, <3>1 DEF IInv, Calls
  <2>5. CASE Ended
    <3>1. Ended'
      BY <2>1, <2>2, <2>5 DEF Ended
    <3>. QED
      BY <2>1, <2>2, <3>1 DEF IInv, Calls
  <2>. QED
    BY <2>1, <2>3, <2>4, <2>5 DEF IInv, Leaving, Refused, LeftBehind, Over
<1>. QED
  BY <1>1, <1>2, <1>3, <1>4

\* The receiver finds nothing and registers; its deadline passes.
LEMMA RecvWaits ==
  ASSUME TypeOK, IInv, RecvRegister \/ RecvClear \/ RecvExpire \/ RecvSettle PROVE IInv'
<1>. USE DEF SenderOut, SenderIn, ReceiverOut, ReceiverIn, Agree, OnceSent, Given, Spent, Woken,
             Tracks, Blocked, Hurried, Spurious, SenderDone, Empty, FreedBy
<1>1. CASE RecvRegister
  <2>1. /\ UNCHANGED <<usage, value, freed, call, seen, owes, woken>>
        /\ pc[R] = "use" /\ seen[R] \notin {DONE, LOADED, WAKE_SEND}
        /\ waker' = R /\ state' = WAKE_RECV /\ pc'[S] = pc[S]
    BY <1>1, TwoEnds DEF RecvRegister, own, TypeOK, Assert, Goto
  <2>2. CASE \E b \in {INIT, WAKE_RECV, WAKE_SEND} : Both(b)
    <3>1. PICK b \in {INIT, WAKE_RECV, WAKE_SEND} : Both(b)
      BY <2>2
    <3>2. /\ state = b \cup {LOCKED} /\ seen[R] = b /\ b # WAKE_SEND
          /\ SenderOut(b) /\ ReceiverIn(b) /\ state # DONE
      BY <2>1, <3>1, ByteFacts DEF Both
    <3>3. pc'[R] = "waiting"
      BY <1>1, <3>1, <3>2, TwoEnds, Moves, ByteFacts DEF RecvRegister, Assert, Both
    <3>4. Both(WAKE_RECV)'
      BY <2>1, <3>1, <3>2, <3>3, ByteFacts DEF Both
    <3>. QED
      BY <2>1, <3>3, <3>4 DEF IInv, Calls
  <2>3. CASE Ended
    <3>1. /\ state = DONE /\ seen[R] = INIT /\ waker = NoWaker /\ pc[S] = "gone"
          /\ "drop" \in usage.send
      BY <2>1, <2>3 DEF Ended
    <3>2. pc'[R] = "clear"
      BY <1>1, <3>1, TwoEnds, Moves, ByteFacts DEF RecvRegister, Assert
    <3>3. Leaving'
      BY <2>1, <2>3, <3>1, <3>2 DEF Ended, Leaving
    <3>. QED
      BY <2>1, <3>2, <3>3 DEF IInv, Calls
  <2>. QED
    BY <2>1, <2>2, <2>3, ByteFacts DEF IInv, Posted, Leaving, Refused, LeftBehind, Over
<1>2. CASE RecvClear
  <2>1. /\ UNCHANGED <<usage, state, value, freed, call, seen, owes, woken>>
        /\ pc[R] = "clear" /\ waker' = NoWaker /\ pc'[S] = pc[S]
    BY <1>2, TwoEnds DEF RecvClear, own, TypeOK, Assert, Goto
  <2>2. Leaving /\ ~(usage.once /\ call[R] = "poll")
    BY <2>1, ByteFacts DEF IInv, Calls, Disciplined, Both, Posted, Ended, Leaving, Refused, LeftBehind, Over
  <2>3. pc'[R] = "free"
    BY <1>2, <2>1, <2>2, TwoEnds, Moves DEF RecvClear, Assert, RecvReturns, Leaving
  <2>4. Over'
    BY <2>1, <2>2, <2>3 DEF Leaving, Over
  <2>. QED
    BY <2>1, <2>3, <2>4 DEF IInv, Calls
<1>3. CASE RecvExpire
  <2>1. /\ UNCHANGED <<usage, value, waker, freed, call, owes, woken>>
        /\ pc[R] = "waiting" /\ call[R] = "deadline" /\ pc'[R] = "settle"
        /\ LOCKED \notin state /\ state' = state \cup {LOCKED}
        /\ seen'[R] = state /\ seen'[S] = seen[S] /\ pc'[S] = pc[S]
    BY <1>3, TwoEnds DEF RecvExpire, TypeOK, Goto
  <2>2. Calls'
    BY <2>1 DEF IInv, Calls
  <2>3. CASE \E b \in {INIT, WAKE_RECV, WAKE_SEND} : Both(b)
    <3>1. PICK b \in {INIT, WAKE_RECV, WAKE_SEND} : Both(b)
      BY <2>3
    <3>2. state = b /\ b # INIT /\ SenderOut(b)
      BY <2>1, <3>1, ByteFacts DEF Both
    <3>3. Agree(b)' /\ ~freed'
      BY <2>1, <3>1 DEF Both
    <3>4. (state = b \cup {LOCKED} /\ seen[R] = b /\ SenderOut(b) /\ ReceiverIn(b))'
      BY <2>1, <3>2, ByteFacts
    <3>5. usage.once => OnceSent(b)'
      BY <2>1, <3>1, <3>2 DEF Both
    <3>6. Woken(b)'
      BY <2>1, <3>1, <3>2, ByteFacts DEF Both, IInv, Calls
    <3>7. Both(b)'
      BY <2>1, <3>3, <3>4, <3>5, <3>6 DEF Both
    <3>. QED
      BY <2>2, <3>7 DEF IInv
  <2>4. CASE Posted
    <3>1. Posted'
      BY <2>1, <2>4, ByteFacts DEF Posted
    <3>. QED
      BY <2>2, <3>1 DEF IInv
  <2>5. CASE Ended
    <3>1. Ended'
      BY <2>1, <2>5, ByteFacts DEF Ended
    <3>. QED
      BY <2>2, <3>1 DEF IInv
  <2>6. CASE Leaving
    BY <2>1, <2>6 DEF Leaving, IInv, Calls, Disciplined
  <2>. QED
    BY <2>1, <2>3, <2>4, <2>5, <2>6 DEF IInv, Refused, LeftBehind, Over
<1>4. CASE RecvSettle
  <2>1. /\ UNCHANGED <<usage, freed, call, seen, woken>> /\ pc[R] = "settle"
        /\ value' = (IF seen[R] \in {LOADED, WAKE_SEND} THEN NoMessage ELSE value)
        /\ waker' = (IF seen[R] \in {WAKE_RECV, WAKE_SEND} THEN NoWaker ELSE waker)
        /\ state' = (IF seen[R] \in {WAKE_RECV, WAKE_SEND} THEN INIT ELSE state)
        /\ owes'[R] = (seen[R] = WAKE_SEND) /\ owes'[S] = owes[S] /\ pc'[S] = pc[S]
    BY <1>4, TwoEnds DEF RecvSettle, Takes, TypeOK, Assert, Goto
  <2>2. CASE \E b \in {INIT, WAKE_RECV, WAKE_SEND} : Both(b)
    <3>1. PICK b \in {INIT, WAKE_RECV, WAKE_SEND} : Both(b)
      BY <2>2
    <3>2. /\ state = b \cup {LOCKED} /\ seen[R] = b /\ b # INIT /\ SenderOut(b)
          /\ call[R] = "deadline" /\ waker # NoWaker /\ (b = WAKE_SEND => value # NoMessage)
      BY <2>1, <3>1, TwoEnds, ByteFacts DEF Both
    <3>3. pc'[R] = IF b = WAKE_SEND THEN "unpark" ELSE "idle"
      BY <1>4, <2>1, <3>2, TwoEnds, Moves, ByteFacts DEF RecvSettle, Assert
    <3>4. b = WAKE_SEND /\ usage.once => Spent'
      BY <2>1, <3>1, <3>2 DEF Both
    <3>5. Both(INIT)'
      BY <2>1, <3>1, <3>2, <3>3, <3>4, ByteFacts DEF Both
    <3>. QED
      BY <2>1, <3>3, <3>5 DEF IInv, Calls
  <2>3. CASE Posted \/ Ended
    <3>1. /\ seen[R] \in {LOADED, DONE} /\ call[R] = "deadline"
          /\ seen[R] = LOADED => value # NoMessage
      BY <2>1, <2>3, ByteFacts DEF Posted, Ended
    <3>2. pc'[R] = "free"
      BY <1>4, <2>1, <3>1, TwoEnds, Moves, ByteFacts DEF RecvSettle, Assert, RecvReturns
    <3>3. Over'
      BY <2>1, <2>3, <3>1, <3>2, ByteFacts DEF Posted, Ended, Over
    <3>. QED
      BY <2>1, <3>2, <3>3 DEF IInv, Calls
  <2>. QED
    BY <2>1, <2>2, <2>3 DEF IInv, Leaving, Refused, LeftBehind, Over
<1>. QED
  BY <1>1, <1>2, <1>3, <1>4

\* The receiver is dropped, and what it does then.
LEMMA RecvLeaves ==
  ASSUME TypeOK, IInv, RecvDrop \/ RecvLoad \/ RecvForget PROVE IInv'
<1>. USE DEF SenderOut, SenderIn, ReceiverOut, ReceiverIn, Agree, OnceSent, Given, Spent, Woken,
             Tracks, Blocked, Hurried, Spurious, SenderDone, Empty, FreedBy
<1>1. CASE RecvDrop
  <2>1. /\ UNCHANGED <<usage, value, waker, freed, call, seen, owes, woken>>
        /\ state' = state \cap LOADED /\ pc'[S] = pc[S]
        /\ \/ pc[R] = "idle" /\ ("drop" \in usage.recv \/ (usage.once /\ call[R] = "poll"))
           \/ pc[R] = "waiting" /\ call[R] = "poll" /\ "quit" \in usage.recv
        /\ LOCKED \in state \/ state = INIT => pc'[R] = "gone"
        /\ state = DONE => pc'[R] = "free"
        /\ state = LOADED => pc'[R] = "load"
        /\ state = WAKE_SEND => pc'[R] = "wake"
        /\ state = WAKE_RECV => pc'[R] = "forget"
    BY <1>1, TwoEnds, ByteFacts DEF RecvDrop, TypeOK, Goto, own
  <2>2. /\ call[R] \in {"none", "wait", "deadline", "poll"} /\ Disciplined(usage)
        /\ call[R] = "poll" => "poll" \in usage.recv
        /\ usage.once \/ (pc[R] = "waiting" /\ "quit" \in usage.recv)
    BY <2>1 DEF IInv, Calls, Disciplined
  <2>3. CASE \E b \in {INIT, WAKE_RECV, WAKE_SEND} : Both(b)
    <3>1. PICK b \in {INIT, WAKE_RECV, WAKE_SEND} : Both(b)
      BY <2>3
    <3>2. CASE pc[R] = "waiting"
      <4>1. usage.send = {} /\ pc[S] = "idle"
        BY <2>1, <2>2, <3>1, <3>2 DEF Both, IInv, Calls, Disciplined
      <4>2. b = WAKE_RECV /\ state = WAKE_RECV
        BY <3>1, <3>2, <4>1, ByteFacts DEF Both
      <4>3. pc'[R] = "forget" /\ state' = DONE /\ LeftBehind'
        BY <2>1, <3>1, <4>1, <4>2, KeptByte, ByteFacts DEF Both, LeftBehind
      <4>. QED
        BY <2>1, <4>3 DEF IInv, Calls
    <3>3. CASE pc[R] = "idle" /\ b = INIT
      <4>1. state' = DONE /\ pc'[R] = "gone"
        BY <2>1, <3>1, <3>3, KeptByte, UnlockedBytes, ByteFacts DEF Both
      <4>2. Refused'
        BY <2>1, <2>2, <3>1, <3>3, <4>1, ByteFacts DEF Both, Refused
      <4>. QED
        BY <2>1, <4>1, <4>2 DEF IInv, Calls
    <3>4. CASE pc[R] = "idle" /\ b = WAKE_SEND
      <4>1. usage.once /\ "drop" \in usage.recv /\ ~Hurried
        BY <2>1, <2>2, <3>1, <3>4, ByteFacts DEF Both, Disciplined
      <4>2. state = WAKE_SEND /\ pc[S] \in {"unpark", "waiting"} /\ Tracks /\ ~woken[S]
        BY <2>1, <2>2, <3>1, <3>4, <4>1, ByteFacts DEF Both, Disciplined
      <4>3. pc'[R] = "wake" /\ state' = LOADED
        BY <2>1, <4>2, KeptByte
      <4>4. LeftBehind'
        BY <2>1, <3>1, <3>4, <4>1, <4>2, <4>3 DEF Both, LeftBehind
      <4>. QED
        BY <2>1, <4>3, <4>4 DEF IInv, Calls
    <3>. QED
      BY <2>1, <3>1, <3>2, <3>3, <3>4 DEF Both
  <2>4. CASE Posted
    <3>1. state = LOADED /\ pc'[R] = "load" /\ state' = LOADED
      BY <2>1, <2>4, KeptByte DEF Posted
    <3>2. Posted'
      BY <2>1, <2>4, <3>1 DEF Posted
    <3>. QED
      BY <2>1, <3>1, <3>2 DEF IInv, Calls
  <2>5. CASE Ended
    <3>1. state = DONE /\ pc'[R] = "free"
      BY <2>1, <2>5 DEF Ended
    <3>2. Over'
      BY <2>1, <2>5, <3>1 DEF Ended, Over
    <3>. QED
      BY <2>1, <3>1, <3>2 DEF IInv, Calls
  <2>6. CASE Leaving
    BY <2>1, <2>2, <2>6 DEF Leaving, Disciplined
  <2>. QED
    BY <2>1, <2>3, <2>4, <2>5, <2>6 DEF IInv, Refused, LeftBehind, Over
<1>2. CASE RecvLoad
  <2>1. /\ UNCHANGED <<usage, state, waker, freed, call, seen, owes, woken>>
        /\ pc[R] = "load" /\ value' = NoMessage /\ pc'[S] = pc[S]
    BY <1>2, TwoEnds DEF RecvLoad, Takes, own, TypeOK, Assert, Goto
  <2>2. Posted
    BY <2>1, ByteFacts DEF IInv, Both, Posted, Ended, Leaving, Refused, LeftBehind, Over
  <2>3. pc'[R] = "free"
    BY <1>2, <2>1, <2>2, TwoEnds, Moves DEF RecvLoad, Assert, Posted
  <2>4. Over'
    BY <2>1, <2>2, <2>3 DEF Posted, Over
  <2>. QED
    BY <2>1, <2>3, <2>4 DEF IInv, Calls
<1>3. CASE RecvForget
  <2>1. /\ UNCHANGED <<usage, state, value, freed, call, seen, owes, woken>>
        /\ pc[R] = "forget" /\ waker' = NoWaker /\ pc'[S] = pc[S]
    BY <1>3, TwoEnds DEF RecvForget, own, TypeOK, Assert, Goto
  <2>2. LeftBehind
    BY <2>1, ByteFacts DEF IInv, Both, Posted, Ended, Leaving, Refused, LeftBehind, Over
  <2>3. pc'[R] = "gone"
    BY <1>3, <2>1, <2>2, TwoEnds, Moves DEF RecvForget, Assert, LeftBehind
  <2>4. Refused'
    BY <2>1, <2>2, <2>3 DEF LeftBehind, Refused
  <2>. QED
    BY <2>1, <2>3, <2>4 DEF IInv, Calls
<1>. QED
  BY <1>1, <1>2, <1>3

LEMMA InvInit == Init /\ (\A u \in Usage : Disciplined(u)) => IInv
<1>. SUFFICES ASSUME Init, \A u \in Usage : Disciplined(u) PROVE IInv
  OBVIOUS
<1>1. /\ pc[S] = "idle" /\ pc[R] = "idle" /\ call[S] = "none" /\ call[R] = "none"
      /\ ~owes[S] /\ ~owes[R] /\ ~woken[S] /\ ~woken[R]
  BY TwoEnds DEF Init
<1>2. Calls
  BY <1>1 DEF Init, Calls
<1>3. Both(INIT)
  BY <1>1, ByteFacts, TwoEnds DEF Init, Both, Agree, SenderOut, ReceiverOut, OnceSent, Given, Spent, Woken,
     Tracks, Blocked
<1>. QED
  BY <1>2, <1>3 DEF IInv

LEMMA InvStep == TypeOK /\ Numbered /\ IInv /\ [Next]_vars => IInv'
<1>. SUFFICES ASSUME TypeOK, Numbered, IInv, [Next]_vars PROVE IInv'
  OBVIOUS
<1>1. CASE SenderStep
  BY <1>1, StoreKeeps, LockKeeps, SendEndKeeps, TrackKeeps, TrackDropKeeps, WakeKeeps DEF SenderStep
<1>2. CASE ReceiverStep
  BY <1>2, LockKeeps, RecvLooks, RecvGets, RecvWaits, RecvLeaves, WakeKeeps DEF ReceiverStep
<1>3. CASE Choice
  BY <1>3, SenderChooses, TrackDropKeeps, RecvLooks, RecvWaits, RecvLeaves DEF Choice
<1>4. CASE UNCHANGED vars
  <2>. USE DEF SenderOut, SenderIn, ReceiverOut, ReceiverIn, Agree, OnceSent, Given, Spent, Woken,
               Tracks, Blocked, Hurried, Spurious, SenderDone, Empty, FreedBy
  <2>1. UNCHANGED <<usage, state, value, waker, freed, pc, call, seen, owes, woken>>
    BY <1>4 DEF vars, box, own
  <2>2. Calls'
    BY <2>1 DEF IInv, Calls
  <2>3. CASE \E b \in {INIT, WAKE_RECV, WAKE_SEND} : Both(b)
    <3>1. PICK b \in {INIT, WAKE_RECV, WAKE_SEND} : Both(b)
      BY <2>3
    <3>2. Both(b)'
      BY <2>1, <3>1 DEF Both
    <3>. QED
      BY <2>2, <3>2 DEF IInv
  <2>4. (Posted => Posted') /\ (Ended => Ended') /\ (Leaving => Leaving')
    BY <2>1 DEF Posted, Ended, Leaving
  <2>5. (Refused => Refused') /\ (LeftBehind => LeftBehind') /\ (Over => Over')
    BY <2>1 DEF Refused, LeftBehind, Over
  <2>. QED
    BY <2>2, <2>3, <2>4, <2>5 DEF IInv
<1>. QED
  BY <1>1, <1>2, <1>3, <1>4 DEF Next

-----------------------------------------------------------------------------
(* What holds of every channel *)

\* The byte, the slots and the ends have their types, whatever use is made of the channel.
THEOREM TypeCorrect == Spec => []TypeOK
<1>. QED
  BY TypeInit, TypeStep, PTL DEF Spec

LEMMA Inductive == Spec /\ (\A u \in Usage : Disciplined(u)) => [](TypeOK /\ Numbered /\ IInv)
<1>1. Init /\ (\A u \in Usage : Disciplined(u)) => TypeOK /\ Numbered /\ IInv
  BY TypeInit, InvInit
<1>2. TypeOK /\ Numbered /\ IInv /\ [Next]_vars => (TypeOK /\ Numbered /\ IInv)'
  BY TypeStep, InvStep
<1>. QED
  BY <1>1, <1>2, PTL DEF Spec

\* No end that keeps to the discipline loads an empty slot, stores into a full one, or finds
\* a byte that the code calls invalid (channel.rs:102, 155, 190, 223, 243, 287, 311, 336;
\* util.rs:93, 105, 117).
THEOREM NoPanics == (\A u \in Usage : Disciplined(u)) => (Spec => []NoPanic)
<1>1. TypeOK /\ IInv => NoPanic
  <2>. SUFFICES ASSUME TypeOK, IInv PROVE NoPanic
    OBVIOUS
  <2>1. pc[S] \notin Panics /\ pc[R] \notin Panics
    BY TwoEnds DEF IInv, Both, Posted, Ended, Leaving, Refused, LeftBehind, Over, SenderDone, FreedBy,
       SenderOut, SenderIn, ReceiverOut, ReceiverIn, Panics
  <2>. QED
    BY <2>1 DEF NoPanic, End
<1>. QED
  BY <1>1, Inductive, PTL

\* The box is freed by the last of the two ends to be done with it (channel.rs:164, 198,
\* 295, 318), so that neither uses what is not there.
THEOREM LastFrees == (\A u \in Usage : Disciplined(u)) => (Spec => []FreedLast)
<1>1. TypeOK /\ IInv => FreedLast
  <2>. SUFFICES ASSUME IInv, freed PROVE FreedLast
    BY DEF FreedLast
  <2>1. Over
    BY DEF IInv, Both, Posted, Ended, Leaving, Refused, LeftBehind
  <2>2. ~Uses(S) /\ ~Uses(R)
    BY <2>1, TwoEnds DEF Over, SenderDone, FreedBy, Uses
  <2>. QED
    BY <2>2 DEF FreedLast, End
<1>. QED
  BY <1>1, Inductive, PTL

\* When both ends are gone so is the box, with no message or waker in it (channel.rs:172, 303),
\* but for a TrackSend of send_once().
THEOREM NothingLeft == (\A u \in Usage : Disciplined(u)) => (Spec => []NoLeak)
<1>1. TypeOK /\ IInv => NoLeak
  <2>. SUFFICES ASSUME IInv, \A e \in End : pc[e] = "gone", ~(usage.once /\ "track" \in usage.send)
                PROVE  freed /\ Empty
    BY DEF NoLeak, Empty
  <2>1. pc[S] = "gone" /\ pc[R] = "gone" /\ (Tracks => ~usage.once)
    BY TwoEnds DEF IInv, Calls, Tracks
  <2>2. Over
    BY <2>1 DEF IInv, Both, Posted, Ended, Leaving, Refused, LeftBehind, SenderOut, SenderIn,
       ReceiverOut, ReceiverIn
  <2>. QED
    BY <2>1, <2>2 DEF Over, FreedBy
<1>. QED
  BY <1>1, Inductive, PTL

-----------------------------------------------------------------------------
(* The promise *)

\* A message is in the channel when it is in the slot, and then it is the last one sent.
Located ==
    /\ value # NoMessage => value = next - 1 /\ at[value] = "channel"
    /\ \A m \in Message : at[m] = "channel" => m = value
    /\ \A m \in Message : m >= next => at[m] = "sender"
    /\ pc[S] \in {"lock", "use"} => at[next - 1] = "sender"

LEMMA LocatedInit == Init => Located
  BY TwoEnds DEF Init, Located, NoMessage, Message

\* A sender that begins has nothing in the slot.
LEMMA Vacant == TypeOK /\ IInv /\ pc[S] \in {"idle", "lock", "use"} => value = NoMessage
<1>. USE DEF Agree, SenderOut, SenderIn, SenderDone, Empty, FreedBy, Tracks
<1>. SUFFICES ASSUME TypeOK, IInv, pc[S] \in {"idle", "lock", "use"} PROVE value = NoMessage
  OBVIOUS
<1>1. CASE \E b \in {INIT, WAKE_RECV, WAKE_SEND} : Both(b)
  BY <1>1, ByteFacts DEF Both
<1>. QED
  BY <1>1 DEF IInv, Posted, Ended, Leaving, Refused, LeftBehind, Over

\* A message that an end takes out of the slot is where Takes puts it, and no other moves.
LEMMA TakesFrom ==
  ASSUME TypeOK, Located, NEW e \in End, Takes(e)
  PROVE  /\ value' = NoMessage
         /\ value = NoMessage => at' = at
         /\ value # NoMessage => /\ value \in Message /\ at[value] = "channel"
                                 /\ at' = [at EXCEPT ![value] = e] /\ at'[value] = e
                                 /\ \A m \in Message : m # value => at'[m] = at[m]
         /\ \A m \in Message : at'[m] # "channel"
<1>1. CASE value = NoMessage
  BY <1>1 DEF Takes, Located, NoMessage, Message
<1>2. CASE value # NoMessage
  <2>1. value \in Message /\ at[value] = "channel" /\ at' = [at EXCEPT ![value] = e]
    BY <1>2 DEF Takes, Located, TypeOK
  <2>2. at'[value] = e /\ \A m \in Message : m # value => at'[m] = at[m]
    BY <2>1 DEF TypeOK
  <2>3. e # "channel"
    BY DEF End, S, R
  <2>. QED
    BY <1>2, <2>1, <2>2, <2>3 DEF Takes, Located
<1>. QED
  BY <1>1, <1>2

LEMMA TakenLocated ==
  ASSUME TypeOK, Numbered, IInv, Located, NEW e \in End, Takes(e), UNCHANGED next,
         pc'[S] \in {"lock", "use"} => pc[S] = pc'[S]
  PROVE  Located'
<1>1. \A m \in Message : m >= next => at'[m] = "sender"
  <2>. SUFFICES ASSUME NEW m \in Message, m >= next PROVE at'[m] = "sender"
    OBVIOUS
  <2>1. at[m] = "sender" /\ next \in Int /\ m \in Int
    BY DEF Located, TypeOK, Message
  <2>2. value # NoMessage => m # value
    BY <2>1 DEF Located
  <2>. QED
    BY <2>1, <2>2, TakesFrom
<1>2. pc'[S] \in {"lock", "use"} => at'[next - 1] = "sender"
  BY Vacant, TakesFrom DEF Located
<1>3. \A m \in Message : at'[m] # "channel"
  BY TakesFrom
<1>. QED
  BY <1>1, <1>2, <1>3, TakesFrom DEF Located

LEMMA SentLocated ==
  ASSUME TypeOK, Numbered, IInv, Located, SendBegin \/ SendStore PROVE Located'
<1>0. NoMessage \notin Message
  BY DEF Message, NoMessage
<1>1. next \in Int /\ value = NoMessage /\ (\A m \in Message : at[m] # "channel") /\ NoMessage \notin Message
  <2>1. value = NoMessage
    BY Vacant DEF SendBegin, SendStore
  <2>. QED
    BY <1>0, <2>1 DEF TypeOK, Located
<1>2. CASE SendBegin
  <2>1. value' = NoMessage /\ at' = at /\ next' = next + 1 /\ next \in Message
    BY <1>1, <1>2 DEF SendBegin, box
  <2>2. next' - 1 = next
    BY <1>1, <2>1
  <2>3. \A m \in Message : m >= next' => m >= next
    BY <1>1, <2>1 DEF Message
  <2>4. at[next] = "sender"
    BY <1>1, <2>1 DEF Located
  <2>. QED
    BY <1>1, <2>1, <2>2, <2>3, <2>4 DEF Located
<1>3. CASE SendStore
  <2>1. /\ value' = next - 1 /\ next' = next /\ next - 1 \in Message
        /\ at' = [at EXCEPT ![next - 1] = "channel"]
    BY <1>3 DEF SendStore, Numbered
  <2>2. at'[next - 1] = "channel" /\ \A m \in Message : m # next - 1 => at'[m] = at[m]
    BY <2>1 DEF TypeOK
  <2>3. \A m \in Message : m >= next => m # next - 1
    BY <1>1 DEF Message
  <2>4. pc'[S] \notin {"lock", "use"}
    <3>1. \E place \in {"take back", "unpark", "waiting", "gone", "duplicate store", "invalid state"} :
             Goto(S, place)
      BY <1>3 DEF SendStore, Assert
    <3>. QED
      BY <3>1, Moves, TwoEnds
  <2>. QED
    BY <1>1, <2>1, <2>2, <2>3, <2>4 DEF Located
<1>. QED
  BY <1>2, <1>3

\* The step moves no message, and the sender does not begin to.
Rests == UNCHANGED <<value, at, next>> /\ (pc'[S] \in {"lock", "use"} => pc[S] \in {"lock", "use"})

LEMMA SenderMoves ==
  ASSUME TypeOK, Numbered, IInv, Located, SenderStep PROVE Located'
<1>0. Rests => Located'
  BY DEF Rests, Located
<1>s. \A d \in BOOLEAN : SendReturns(d) \notin {"lock", "use"}
  BY ReturnsType
<1>t. ASSUME NEW place, Goto(S, place), place \notin {"lock", "use"} PROVE pc'[S] \notin {"lock", "use"}
  BY <1>t, Moves, TwoEnds
<1>r. ASSUME NEW place, Goto(R, place) PROVE pc'[S] = pc[S]
  BY <1>r, Moves, TwoEnds
<1>1. CASE SendLock \/ TrackLock
  <2>1. Rests
    BY <1>1, Moves, TwoEnds DEF SendLock, TrackLock, Lock, ledger, Rests
  <2>. QED
    BY <1>0, <2>1
<1>2. CASE SendStore
  BY <1>2, SentLocated
<1>3. CASE SendRefused
  BY <1>0, <1>3, <1>s, <1>t DEF SendRefused, ledger, Rests
<1>4. CASE SendTakeBack
  <2>1. \E place \in {"duplicate load", SendReturns(TRUE)} : Goto(S, place)
    BY <1>4 DEF SendTakeBack, Assert
  <2>2. pc'[S] \notin {"lock", "use"} /\ Takes(S) /\ UNCHANGED next
    BY <1>4, <1>s, <1>t, <2>1 DEF SendTakeBack
  <2>. QED
    BY <2>2, TakenLocated, TwoEnds
<1>5. CASE SendWakes
  <2>1. \E place \in {"waiting", "gone"} : Goto(S, place)
    BY <1>5 DEF SendWakes, Unpark
  <2>. QED
    BY <1>0, <1>5, <1>t, <2>1 DEF SendWakes, Unpark, ledger, box, Rests
<1>6. CASE TrackPoll
  BY <1>0, <1>6, <1>t DEF TrackPoll, ledger, box, Rests
<1>7. CASE TrackTaken
  BY <1>0, <1>7, <1>s, <1>t DEF TrackTaken, ledger, Rests
<1>8. CASE TrackLeft
  <2>1. \E place \in {"duplicate load", SendReturns(TRUE)} : Goto(S, place)
    BY <1>8 DEF TrackLeft, Assert
  <2>2. pc'[S] \notin {"lock", "use"} /\ Takes(S) /\ UNCHANGED next
    BY <1>8, <1>s, <1>t, <2>1 DEF TrackLeft
  <2>. QED
    BY <2>2, TakenLocated, TwoEnds
<1>9. CASE TrackAgain
  <2>1. \E place \in {"duplicate load", "invalid state", "waiting"} : Goto(S, place)
    BY <1>9 DEF TrackAgain, Assert
  <2>. QED
    BY <1>0, <1>9, <1>t, <2>1 DEF TrackAgain, ledger, Rests
<1>10. CASE TrackSettle
  <2>1. \E place \in {"duplicate load", "gone", "idle"} : Goto(S, place)
    BY <1>10 DEF TrackSettle, Assert
  <2>. QED
    BY <1>0, <1>10, <1>t, <2>1 DEF TrackSettle, ledger, Rests
<1>11. CASE Wake(S, R)
  <2>1. \E place \in {"duplicate load", "gone"} : Goto(S, place)
    BY <1>11 DEF Wake, Assert
  <2>. QED
    BY <1>0, <1>11, <1>t, <2>1 DEF Wake, ledger, Rests
<1>12. CASE Free(S)
  BY <1>0, <1>12, <1>t DEF Free, ledger, Rests
<1>. QED
  BY <1>1, <1>2, <1>3, <1>4, <1>5, <1>6, <1>7, <1>8, <1>9, <1>10, <1>11, <1>12 DEF SenderStep

LEMMA ReceiverMoves ==
  ASSUME TypeOK, Numbered, IInv, Located, ReceiverStep PROVE Located'
<1>0. Rests => Located'
  BY DEF Rests, Located
<1>r. ASSUME NEW place, Goto(R, place) PROVE pc'[S] = pc[S]
  BY <1>r, Moves, TwoEnds
<1>1. CASE RecvLock
  BY <1>0, <1>1, <1>r DEF RecvLock, Lock, ledger, Rests
<1>2. CASE RecvNoMore
  BY <1>0, <1>2, <1>r DEF RecvNoMore, Rests
<1>3. CASE RecvLast \/ RecvNext \/ RecvLoad
  <2>1. pc'[S] = pc[S] /\ Takes(R) /\ UNCHANGED next
    BY <1>3, <1>r DEF RecvLast, RecvNext, RecvLoad, Assert
  <2>. QED
    BY <2>1, TakenLocated, TwoEnds
<1>4. CASE RecvWakes
  BY <1>0, <1>4, <1>r DEF RecvWakes, Unpark, ledger, box, Rests
<1>5. CASE RecvRegister
  BY <1>0, <1>5, <1>r DEF RecvRegister, ledger, Assert, Rests
<1>6. CASE RecvClear
  BY <1>0, <1>6, <1>r DEF RecvClear, Assert, Rests
<1>7. CASE RecvWoken
  BY <1>0, <1>7, <1>r DEF RecvWoken, ledger, box, Rests
<1>8. CASE RecvLook
  BY <1>0, <1>8, <1>r DEF RecvLook, box, Rests
<1>9. CASE RecvSettle
  <2>1. pc'[S] = pc[S] /\ UNCHANGED next /\ (Takes(R) \/ UNCHANGED <<value, at>>)
    BY <1>9, <1>r DEF RecvSettle, Assert
  <2>. QED
    BY <1>0, <2>1, TakenLocated, TwoEnds DEF Rests
<1>10. CASE RecvForget
  BY <1>0, <1>10, <1>r DEF RecvForget, ledger, Assert, Rests
<1>11. CASE Wake(R, S)
  BY <1>0, <1>11, <1>r DEF Wake, ledger, Assert, Rests
<1>12. CASE Free(R)
  BY <1>0, <1>12, <1>r DEF Free, ledger, Rests
<1>. QED
  BY <1>1, <1>2, <1>3, <1>4, <1>5, <1>6, <1>7, <1>8, <1>9, <1>10, <1>11, <1>12 DEF ReceiverStep

LEMMA ChoiceMoves ==
  ASSUME TypeOK, Numbered, IInv, Located, Choice PROVE Located'
<1>0. Rests => Located'
  BY DEF Rests, Located
<1>1. CASE SendBegin
  BY <1>1, SentLocated
<1>2. CASE SendDrop
  <2>1. \E place \in {"gone", "free", "wake", "invalid state"} : Goto(S, place)
    BY <1>2 DEF SendDrop
  <2>2. pc'[S] \notin {"lock", "use"}
    BY <2>1, Moves, TwoEnds
  <2>. QED
    BY <1>0, <1>2, <2>2 DEF SendDrop, ledger, Rests
<1>3. CASE TrackDrop
  <2>1. \E place \in {"gone", "idle", "settle", "invalid state"} : Goto(S, place)
    BY <1>3 DEF TrackDrop
  <2>2. pc'[S] \notin {"lock", "use"}
    BY <2>1, Moves, TwoEnds
  <2>3. UNCHANGED <<value, at>> /\ (next' = next \/ (next' = next + 1 /\ pc[S] = "idle"))
    BY <1>3 DEF TrackDrop
  <2>4. value # NoMessage => next' = next
    BY <2>3, Vacant
  <2>5. \A m \in Message : m >= next' => m >= next
    BY <2>3 DEF TypeOK, Message
  <2>. QED
    BY <2>2, <2>3, <2>4, <2>5 DEF Located
<1>4. CASE RecvBegin \/ RecvExpire \/ RecvDrop
  <2>1. pc'[S] = pc[S]
    <3>1. \E place : Goto(R, place)
      BY <1>4 DEF RecvBegin, RecvExpire, RecvDrop
    <3>. QED
      BY <3>1, Moves, TwoEnds
  <2>. QED
    BY <1>0, <1>4, <2>1 DEF RecvBegin, RecvExpire, RecvDrop, ledger, box, Rests
<1>. QED
  BY <1>1, <1>2, <1>3, <1>4 DEF Choice

LEMMA LocatedStep == TypeOK /\ Numbered /\ IInv /\ Located /\ [Next]_vars => Located'
<1>. SUFFICES ASSUME TypeOK, Numbered, IInv, Located, [Next]_vars PROVE Located'
  OBVIOUS
<1>1. CASE UNCHANGED vars
  BY <1>1 DEF vars, box, ledger, Located
<1>. QED
  BY <1>1, SenderMoves, ReceiverMoves, ChoiceMoves DEF Next

-----------------------------------------------------------------------------

\* An end that has not moved is there as it was.
LEMMA StillThere ==
  /\ UNCHANGED <<usage, pc[S], call[S]>> => UNCHANGED SenderThere
  /\ UNCHANGED <<usage, pc[R], call[R]>> => UNCHANGED ReceiverThere
  BY TwoEnds DEF SenderThere, ReceiverThere, Uses, RecvReturns

LEMMA SenderAlone ==
  ASSUME TypeOK, SenderStep \/ SendBegin \/ SendDrop \/ TrackDrop
  PROVE  UNCHANGED <<usage, pc[R], call[R]>>
<1>g. ASSUME NEW place, Goto(S, place) PROVE pc'[R] = pc[R]
  BY <1>g, Moves, TwoEnds
<1>u. CASE SendLock \/ SendStore \/ SendRefused \/ SendTakeBack \/ SendWakes
  BY <1>u, <1>g DEF SendLock, Lock, SendStore, SendRefused, SendTakeBack, SendWakes, Unpark, Assert
<1>t. CASE TrackPoll \/ TrackLock \/ TrackTaken \/ TrackLeft \/ TrackAgain \/ TrackSettle
  BY <1>t, <1>g DEF TrackPoll, TrackLock, Lock, TrackTaken, TrackLeft, TrackAgain, TrackSettle, Assert
<1>w. CASE Wake(S, R) \/ Free(S)
  BY <1>w, <1>g DEF Wake, Free, Assert
<1>c. CASE SendBegin \/ SendDrop \/ TrackDrop
  <2>1. UNCHANGED <<usage, pc[R]>>
    BY <1>c, <1>g DEF SendBegin, SendDrop, TrackDrop
  <2>2. UNCHANGED call[R]
    BY <1>c, TwoEnds DEF SendBegin, SendDrop, TrackDrop, TypeOK
  <2>. QED
    BY <2>1, <2>2
<1>. QED
  BY <1>u, <1>t, <1>w, <1>c DEF SenderStep

LEMMA ReceiverAlone ==
  ASSUME TypeOK, ReceiverStep \/ RecvBegin \/ RecvExpire \/ RecvDrop
  PROVE  UNCHANGED <<usage, pc[S], call[S]>>
<1>g. ASSUME NEW place, Goto(R, place) PROVE pc'[S] = pc[S]
  BY <1>g, Moves, TwoEnds
<1>u. CASE RecvLock \/ RecvNoMore \/ RecvLast \/ RecvNext \/ RecvWakes
  BY <1>u, <1>g DEF RecvLock, Lock, RecvNoMore, RecvLast, RecvNext, RecvWakes, Unpark, Assert
<1>t. CASE RecvRegister \/ RecvClear \/ RecvWoken \/ RecvLook \/ RecvSettle
  BY <1>t, <1>g DEF RecvRegister, RecvClear, RecvWoken, RecvLook, RecvSettle, Assert
<1>w. CASE RecvLoad \/ RecvForget \/ Wake(R, S) \/ Free(R)
  BY <1>w, <1>g DEF RecvLoad, RecvForget, Wake, Free, Assert
<1>c. CASE RecvBegin \/ RecvExpire \/ RecvDrop
  <2>1. UNCHANGED <<usage, pc[S]>>
    BY <1>c, <1>g DEF RecvBegin, RecvExpire, RecvDrop
  <2>2. UNCHANGED call[S]
    BY <1>c, TwoEnds DEF RecvBegin, RecvExpire, RecvDrop, TypeOK
  <2>. QED
    BY <2>1, <2>2
<1>. QED
  BY <1>u, <1>t, <1>w, <1>c DEF ReceiverStep

\* An end that has left does not come back.
LEMMA SenderStays ==
  ASSUME TypeOK, NoPanic', SenderStep \/ SendBegin \/ SendDrop \/ TrackDrop, SenderThere'
  PROVE  SenderThere
<1>n. pc'[S] \notin {"duplicate load"}
  BY TwoEnds DEF NoPanic, Panics
<1>1. CASE Wake(S, R)
  BY <1>n, <1>1, Moves, TwoEnds DEF Wake, Assert, SenderThere, Uses
<1>2. CASE Free(S)
  BY <1>2, Moves, TwoEnds DEF Free, SenderThere, Uses
<1>3. CASE SendWakes
  BY <1>3, Moves, TwoEnds DEF SendWakes, Unpark, SenderThere, Uses, box
<1>4. CASE ~(Wake(S, R) \/ Free(S) \/ SendWakes)
  <2>1. pc[S] \in {"idle", "lock", "use", "take back", "waiting", "relock", "reuse", "settle"}
    BY <1>4 DEF SenderStep, SendLock, TrackLock, Lock, SendStore, SendRefused, SendTakeBack, TrackPoll,
       TrackTaken, TrackLeft, TrackAgain, TrackSettle, SendBegin, SendDrop, TrackDrop
  <2>. QED
    BY <2>1 DEF SenderThere, Uses
<1>. QED
  BY <1>1, <1>2, <1>3, <1>4

LEMMA ReceiverStays ==
  ASSUME TypeOK, NoPanic', ReceiverStep \/ RecvBegin \/ RecvExpire \/ RecvDrop, ReceiverThere'
  PROVE  ReceiverThere
<1>n. pc'[R] \notin {"duplicate load"}
  BY TwoEnds DEF NoPanic, Panics
<1>1. CASE RecvLoad \/ RecvForget \/ Wake(R, S) \/ Free(R)
  <2>1. pc'[R] \in {"free", "gone"}
    BY <1>n, <1>1, Moves, TwoEnds DEF RecvLoad, RecvForget, Wake, Free, Assert
  <2>. QED
    BY <2>1 DEF ReceiverThere, Uses
<1>2. CASE RecvWakes
  <2>1. pc[R] = "unpark" /\ pc'[R] = RecvReturns(FALSE)
    BY <1>2, Moves, TwoEnds DEF RecvWakes, Unpark
  <2>. QED
    BY <2>1, TwoEnds DEF ReceiverThere, Uses
<1>3. CASE ~(RecvLoad \/ RecvForget \/ Wake(R, S) \/ Free(R) \/ RecvWakes)
  <2>1. pc[R] \in {"idle", "lock", "use", "look", "waiting", "relock", "reuse", "settle", "clear"}
    BY <1>3 DEF ReceiverStep, RecvLock, Lock, RecvNoMore, RecvLast, RecvNext, RecvRegister, RecvClear,
       RecvWoken, RecvLook, RecvSettle, RecvBegin, RecvExpire, RecvDrop
  <2>. QED
    BY <2>1 DEF ReceiverThere, Uses
<1>. QED
  BY <1>1, <1>2, <1>3

LEMMA PromiseInit == TypeOK /\ Init => Promise!Init
<1>. SUFFICES ASSUME Init PROVE Promise!Init
  OBVIOUS
<1>1. pc[S] = "idle" /\ pc[R] = "idle"
  BY TwoEnds DEF Init
<1>2. SenderThere = TRUE /\ ReceiverThere = TRUE
  BY <1>1 DEF SenderThere, ReceiverThere, Uses
<1>. QED
  BY <1>2 DEF Init, Promise!Init

\* An end that leaves is there no longer, and one that does not is there as before.
LEMMA Leaves ==
  /\ SenderThere \in BOOLEAN /\ ReceiverThere \in BOOLEAN
  /\ SenderThere' \in BOOLEAN /\ ReceiverThere' \in BOOLEAN
  BY DEF SenderThere, ReceiverThere, Uses

LEMMA LeaveStep ==
  ASSUME UNCHANGED <<at, ended>>, SenderThere' => SenderThere, ReceiverThere' => ReceiverThere
  PROVE  Promise!Next
  BY Leaves DEF Promise!Next, Promise!Leave, Promise!MayLeave

LEMMA ReceiveStep ==
  ASSUME TypeOK, Located, value # NoMessage, Takes(R), UNCHANGED ended,
         UNCHANGED SenderThere, ReceiverThere' => ReceiverThere
  PROVE  Promise!Next
<1>1. value \in Message /\ at[value] = "channel" /\ at' = [at EXCEPT ![value] = "receiver"]
  BY TakesFrom, TwoEnds DEF R
<1>2. Promise!Receive(value)
  BY <1>1, Leaves DEF Promise!Receive, Promise!MayLeave
<1>. QED
  BY <1>1, <1>2 DEF Promise!Next

LEMMA TakeBackStep ==
  ASSUME TypeOK, Located, value # NoMessage, Takes(S), UNCHANGED ended,
         UNCHANGED ReceiverThere, SenderThere' => SenderThere, ~ReceiverThere
  PROVE  Promise!Next
<1>1. value \in Message /\ at[value] = "channel" /\ at' = [at EXCEPT ![value] = "sender"]
  BY TakesFrom, TwoEnds DEF S
<1>2. Promise!TakeBack(value)
  BY <1>1, Leaves DEF Promise!TakeBack, Promise!MayLeave
<1>. QED
  BY <1>1, <1>2 DEF Promise!Next

LEMMA EndStep ==
  ASSUME TypeOK, Located, value = NoMessage, ended' = TRUE, UNCHANGED at,
         UNCHANGED SenderThere, ReceiverThere' => ReceiverThere, ~SenderThere
  PROVE  Promise!Next
<1>1. \A m \in Message : at[m] # "channel"
  BY DEF Located, Message, NoMessage
<1>2. Promise!InChannel = {}
  BY <1>1 DEF Promise!InChannel
<1>3. Promise!End
  BY <1>2, Leaves DEF Promise!End, Promise!MayLeave
<1>. QED
  BY <1>3 DEF Promise!Next

LEMMA SendStep ==
  ASSUME TypeOK, Numbered, IInv, Located, SendStore, UNCHANGED ReceiverThere, SenderThere' => SenderThere
  PROVE  Promise!Next
<1>1. /\ pc[S] = "use" /\ next - 1 \in Message /\ at[next - 1] = "sender" /\ value = NoMessage
      /\ at' = [at EXCEPT ![next - 1] = "channel"] /\ UNCHANGED ended
  BY Vacant DEF SendStore, Numbered, Located
<1>2. SenderThere
  BY <1>1 DEF SenderThere, Uses
<1>3. \A m \in Message : at[m] # "channel"
  BY <1>1 DEF Located, Message, NoMessage
<1>4. Promise!InChannel = {}
  BY <1>3 DEF Promise!InChannel
<1>5. \A n \in Message : n > next - 1 => at[n] = "sender"
  <2>1. \A n \in Message : n > next - 1 => n >= next
    BY DEF TypeOK, Message
  <2>. QED
    BY <2>1 DEF Located
<1>6. Promise!Send(next - 1)
  BY <1>1, <1>2, <1>4, <1>5, Leaves DEF Promise!Send, Promise!MayLeave
<1>. QED
  BY <1>1, <1>6 DEF Promise!Next

LEMMA SenderPromise ==
  ASSUME TypeOK, Numbered, IInv, Located, NoPanic', SenderStep \/ SendBegin \/ SendDrop \/ TrackDrop
  PROVE  Promise!Next
<1>1. (SenderThere' => SenderThere) /\ UNCHANGED ReceiverThere
  BY SenderStays, SenderAlone, StillThere
<1>2. CASE SendStore
  BY <1>1, <1>2, SendStep
<1>3. CASE SendTakeBack \/ TrackLeft
  <2>1. Takes(S) /\ UNCHANGED ended /\ (pc[S] = "take back" \/ (pc[S] = "reuse" /\ seen[S] = LOADED))
    BY <1>3 DEF SendTakeBack, TrackLeft
  <2>2. LeftBehind
    BY <2>1, ByteFacts DEF IInv, Both, Posted, Ended, Leaving, Refused, LeftBehind, Over, SenderOut, SenderIn,
       SenderDone, FreedBy, Tracks
  <2>3. value # NoMessage /\ pc[R] = "gone"
    BY <2>1, <2>2 DEF LeftBehind
  <2>4. ~ReceiverThere
    BY <2>3 DEF ReceiverThere, Uses
  <2>. QED
    BY <1>1, <2>1, <2>3, <2>4, TakeBackStep
<1>4. CASE ~(SendStore \/ SendTakeBack \/ TrackLeft)
  <2>1. UNCHANGED <<at, ended>>
    BY <1>4 DEF SenderStep, SendLock, TrackLock, Lock, SendRefused, SendWakes, Unpark, TrackPoll, TrackTaken,
       TrackAgain, TrackSettle, Wake, Free, SendBegin, SendDrop, TrackDrop, ledger
  <2>. QED
    BY <1>1, <2>1, LeaveStep
<1>. QED
  BY <1>2, <1>3, <1>4

LEMMA ReceiverPromise ==
  ASSUME TypeOK, Numbered, IInv, Located, NoPanic', ReceiverStep \/ RecvBegin \/ RecvExpire \/ RecvDrop
  PROVE  Promise!Next
<1>. USE DEF SenderOut, SenderIn, ReceiverOut, ReceiverIn, Agree, Tracks, Blocked, SenderDone, Empty, FreedBy
<1>1. (ReceiverThere' => ReceiverThere) /\ UNCHANGED SenderThere
  BY ReceiverStays, ReceiverAlone, StillThere
<1>d. SenderDone => ~SenderThere
  BY TwoEnds DEF SenderThere, Uses
<1>n. pc'[R] \notin {"duplicate load", "invalid state"}
  BY TwoEnds DEF NoPanic, Panics
<1>2. CASE RecvLast \/ RecvNext \/ RecvLoad
  <2>1. Takes(R) /\ UNCHANGED ended
    BY <1>2 DEF RecvLast, RecvNext, RecvLoad
  <2>2. value # NoMessage
    BY <1>2, <1>n, Moves, TwoEnds DEF RecvLast, RecvNext, RecvLoad, Assert
  <2>. QED
    BY <1>1, <2>1, <2>2, ReceiveStep
<1>3. CASE RecvNoMore \/ RecvClear
  <2>1. ended' = TRUE /\ UNCHANGED at /\ (pc[R] = "clear" \/ (pc[R] \in {"use", "reuse"} /\ seen[R] = DONE))
    BY <1>3 DEF RecvNoMore, RecvClear
  <2>2. SenderDone /\ value = NoMessage
    BY <2>1, ByteFacts DEF IInv, Both, Posted, Ended, Leaving, Refused, LeftBehind, Over
  <2>. QED
    BY <1>1, <1>d, <2>1, <2>2, EndStep
<1>4. CASE RecvLook
  <2>1. UNCHANGED at
    BY <1>4 DEF RecvLook
  <2>2. pc[R] = "look" /\ state = DONE => SenderDone /\ value = NoMessage
    BY ByteFacts DEF IInv, Both, Posted, Ended, Leaving, Refused, LeftBehind, Over
  <2>3. \/ UNCHANGED ended
        \/ ended' = TRUE /\ pc[R] = "look" /\ state = DONE
    BY <1>4, ByteFacts DEF RecvLook, TypeOK
  <2>. QED
    BY <1>1, <1>d, <2>1, <2>2, <2>3, EndStep, LeaveStep
<1>5. CASE RecvSettle
  <2>1. /\ pc[R] = "settle"
        /\ IF seen[R] \in {LOADED, WAKE_SEND} THEN Takes(R) ELSE UNCHANGED <<value, at>>
        /\ ended' = (ended \/ seen[R] = DONE) /\ ended \in BOOLEAN
    BY <1>5 DEF RecvSettle, TypeOK
  <2>2. seen[R] \in {LOADED, WAKE_SEND} => value # NoMessage
    BY <2>1, ByteFacts DEF IInv, Both, Posted, Ended, Leaving, Refused, LeftBehind, Over
  <2>3. seen[R] = DONE => SenderDone /\ value = NoMessage
    BY <2>1, ByteFacts DEF IInv, Both, Posted, Ended, Leaving, Refused, LeftBehind, Over
  <2>4. CASE seen[R] \in {LOADED, WAKE_SEND}
    BY <1>1, <2>1, <2>2, <2>4, ReceiveStep, ByteFacts
  <2>5. CASE seen[R] = DONE
    BY <1>1, <1>d, <2>1, <2>3, <2>5, EndStep, ByteFacts
  <2>6. CASE seen[R] \notin {DONE, LOADED, WAKE_SEND}
    BY <1>1, <2>1, <2>6, LeaveStep
  <2>. QED
    BY <2>4, <2>5, <2>6
<1>6. CASE ~(RecvLast \/ RecvNext \/ RecvLoad \/ RecvNoMore \/ RecvClear \/ RecvLook \/ RecvSettle)
  <2>1. UNCHANGED <<at, ended>>
    BY <1>6 DEF ReceiverStep, RecvLock, Lock, RecvWakes, Unpark, RecvRegister, RecvWoken, RecvForget, Wake, Free,
       RecvBegin, RecvExpire, RecvDrop, ledger
  <2>. QED
    BY <1>1, <2>1, LeaveStep
<1>. QED
  BY <1>2, <1>3, <1>4, <1>5, <1>6

LEMMA PromiseStep ==
  ASSUME TypeOK, Numbered, IInv, Located, NoPanic', [Next]_vars PROVE [Promise!Next]_(Promise!dvars)
<1>1. CASE UNCHANGED vars
  <2>1. UNCHANGED <<usage, pc, call, at, ended>>
    BY <1>1 DEF vars, ledger
  <2>. QED
    BY <2>1, StillThere DEF Promise!dvars
<1>. QED
  BY <1>1, SenderPromise, ReceiverPromise DEF Next, Choice

\* Messages arrive once and in order, a sender gets one back only when the receiver is gone, and
\* a receiver hears that there is no more only when the sender is gone and everything has arrived:
\* whatever the two do to the byte without the lock (channel.rs:162, 293, 316).
THEOREM Keeping == (\A u \in Usage : Disciplined(u)) => (Spec => KeepsPromise)
<1>1. Init => Located /\ Promise!Init
  BY LocatedInit, TypeInit, PromiseInit
<1>2. TypeOK /\ Numbered /\ IInv /\ Located /\ [Next]_vars => Located'
  BY LocatedStep
<1>3. TypeOK /\ Numbered /\ IInv /\ Located /\ NoPanic' /\ [Next]_vars => [Promise!Next]_(Promise!dvars)
  BY PromiseStep
<1>. QED
  BY <1>1, <1>2, <1>3, Inductive, NoPanics, PTL DEF Spec, KeepsPromise, Promise!Spec
=============================================================================
