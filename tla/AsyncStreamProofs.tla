-------------------------- MODULE AsyncStreamProofs --------------------------
(***************************************************************************)
(* An AsyncStream is a channel that keeps its promise, however its future  *)
(* sends, and one that awaits its sends never panics: for any number of    *)
(* items and events.                                                       *)
(***************************************************************************)
EXTENDS AsyncStream, TLAPS

(* The inductive invariants. *)

\* The items are sent one after the other, and the slot has the one that is on its way.
OneSent(k) == \A i \in Item : at[i] = "sender" <=> i > k
InSlot == \A i \in Item : at[i] = "channel" <=> i = channel
Sent ==
    /\ at \in [Item -> {"sender", "channel", "receiver"}]
    /\ channel \in Item \cup {NoItem}
    /\ \E k \in 0 .. ItemBound : OneSent(k)
    /\ InSlot

\* The future is made when the stream starts, and dropped at its end or with the stream.
Made ==
    /\ state \in {"Init", "Poll", "Complete"}
    /\ state = "Init" /\ reader # "gone" => future = "none"
    /\ state = "Complete" => future = "dropped"

\* A future that awaits each send goes on with an empty slot.
Awaited ==
    usage = {} =>
        /\ ~held /\ reader # "panicked"
        /\ future \in {"none", "start", "run", "event"} => channel = NoItem

-----------------------------------------------------------------------------

\* The next item is the first that is not sent.
LEMMA NextFirst ==
  ASSUME NEW k \in 0 .. ItemBound, OneSent(k), Unsent # {}
  PROVE  NextItem = k + 1 /\ k + 1 \in Item
<1>1. k + 1 \in Unsent /\ \A j \in Unsent : k + 1 <= j
  BY AsyncStreamAssumption DEF OneSent, Unsent, Item
<1>2. \A i \in Unsent : (\A j \in Unsent : i <= j) => i = k + 1
  BY <1>1, AsyncStreamAssumption DEF Unsent, Item
<1>3. \E i \in Unsent : \A j \in Unsent : i <= j
  BY <1>1
<1>4. NextItem \in Unsent /\ \A j \in Unsent : NextItem <= j
  BY <1>3 DEF NextItem
<1>. QED
  BY <1>1, <1>2, <1>4 DEF Unsent

\* A send fills the empty slot with the next item, or panics.
LEMMA ChannelSent ==
  ASSUME Sent, NEW next, Unsent # {}, ChannelSend(next)
  PROVE  \/ /\ channel = NoItem /\ channel' \in Item /\ at[channel'] = "sender"
            /\ at' = [at EXCEPT ![channel'] = "channel"]
            /\ \A i \in Item : i > channel' => at[i] = "sender"
            /\ future' = next /\ UNCHANGED reader
            /\ Sent'
         \/ /\ channel # NoItem /\ reader' = "panicked"
            /\ UNCHANGED <<channel, at, future>>
<1>1. PICK k \in 0 .. ItemBound : OneSent(k)
  BY DEF Sent
<1>2. NextItem = k + 1 /\ k + 1 \in Item
  BY <1>1, NextFirst
<1>3. CASE channel = NoItem
  <2>1. /\ channel' = k + 1 /\ at' = [at EXCEPT ![k + 1] = "channel"]
        /\ future' = next /\ UNCHANGED reader
    BY <1>2, <1>3 DEF ChannelSend
  <2>2. /\ at[k + 1] = "sender" /\ \A i \in Item : i > k + 1 => at[i] = "sender"
        /\ \A i \in Item : at[i] # "channel"
    BY <1>1, <1>2, <1>3, AsyncStreamAssumption DEF OneSent, Sent, InSlot, Item
  <2>3. at' \in [Item -> {"sender", "channel", "receiver"}]
    BY <1>2, <2>1 DEF Sent
  <2>4. OneSent(k + 1)' /\ k + 1 \in 0 .. ItemBound
    BY <1>1, <1>2, <2>1, AsyncStreamAssumption DEF OneSent, Sent, Item
  <2>5. InSlot'
    BY <1>2, <2>1, <2>2 DEF InSlot, Sent
  <2>6. Sent'
    BY <1>2, <2>1, <2>3, <2>4, <2>5 DEF Sent
  <2>. QED
    BY <1>2, <1>3, <2>1, <2>2, <2>6
<1>4. CASE channel # NoItem
  BY <1>4 DEF ChannelSend
<1>. QED
  BY <1>3, <1>4

\* The reader takes what is in the slot.
LEMMA Received ==
  ASSUME Sent, Receive
  PROVE  /\ channel \in Item /\ at[channel] = "channel" /\ channel' = NoItem
         /\ at' = [at EXCEPT ![channel] = "receiver"] /\ reader' = "idle"
         /\ Sent'
<1>1. channel \in Item /\ at[channel] = "channel"
  BY DEF Sent, InSlot, Receive
<1>2. PICK k \in 0 .. ItemBound : OneSent(k)
  BY DEF Sent
<1>3. OneSent(k)'
  BY <1>1, <1>2 DEF OneSent, Receive, Sent
<1>4. InSlot'
  BY <1>1, AsyncStreamAssumption DEF InSlot, Receive, Sent, Item
<1>5. at' \in [Item -> {"sender", "channel", "receiver"}]
  BY <1>1 DEF Receive, Sent
<1>. QED
  BY <1>1, <1>3, <1>4, <1>5 DEF Receive, Sent

\* Nothing is sent at first.
LEMMA StreamInit == Init => Sent /\ Made /\ Awaited
<1>. SUFFICES ASSUME Init PROVE Sent /\ Made /\ Awaited
  OBVIOUS
<1>1. OneSent(0) /\ 0 \in 0 .. ItemBound
  BY AsyncStreamAssumption DEF Init, OneSent, Item
<1>2. InSlot
  BY AsyncStreamAssumption DEF Init, InSlot, Item
<1>. QED
  BY <1>1, <1>2 DEF Init, Sent, Made, Awaited

\* The steps that send, and those that look into the slot.
Sends == Send \/ SendHeld \/ SendDropped \/ ReturnErr
Looks == Complete \/ Recv

\* Every other step leaves the items; the promise sees of it at most that an end leaves.
LEMMA Beside ==
  ASSUME Made, [Next]_vars, ~Sends, ~Looks
  PROVE  /\ UNCHANGED <<at, channel, ended, usage>>
         /\ Made'
         /\ future = "dropped" => future' = "dropped"
         /\ reader \in {"gone", "panicked"} => reader' \in {"gone", "panicked"}
         /\ Awaited => Awaited'
<1>. USE DEF Made, Awaited, Polled
<1>1. CASE CallNext
  BY <1>1 DEF CallNext
<1>2. CASE GiveUp
  BY <1>2 DEF GiveUp
<1>3. CASE DropStream
  BY <1>3 DEF DropStream
<1>4. CASE Event
  BY <1>4 DEF Event
<1>5. CASE Start
  BY <1>5 DEF Start
<1>6. CASE PollFuture
  BY <1>6 DEF PollFuture
<1>7. CASE Begin
  BY <1>7 DEF Begin
<1>8. CASE AwaitHeld
  BY <1>8 DEF AwaitHeld
<1>9. CASE PollSend
  BY <1>9 DEF PollSend
<1>10. CASE Return
  BY <1>10 DEF Return
<1>11. CASE End
  BY <1>11 DEF End
<1>12. CASE AwaitEvent \/ PollEvent
  BY <1>12 DEF AwaitEvent, PollEvent
<1>13. CASE UNCHANGED vars
  BY <1>13 DEF vars
<1>14. CASE Resume
  BY <1>14 DEF Resume
<1>. QED
  BY <1>1, <1>2, <1>3, <1>4, <1>5, <1>6, <1>7, <1>8, <1>9, <1>10, <1>11, <1>12, <1>13, <1>14
  DEF Next, PollStep, Sends, Looks

\* A step that sends is made by a future that is polled.
LEMMA Sending ==
  ASSUME Sends
  PROVE  /\ reader = "future" /\ future = "run" /\ Unsent # {}
         /\ UNCHANGED <<state, ended, usage>>
         /\ \E next \in {"send", "run", "ready"} : ChannelSend(next)
         /\ usage = {} => held' = FALSE \/ held' = held
  BY DEF Sends, Send, SendHeld, SendDropped, ReturnErr, Polled

\* Each step keeps the slot, the future and their agreement.
LEMMA StreamStep == Sent /\ Made /\ Awaited /\ [Next]_vars => (Sent /\ Made /\ Awaited)'
<1>. SUFFICES ASSUME Sent, Made, Awaited, [Next]_vars PROVE (Sent /\ Made /\ Awaited)'
  OBVIOUS
<1>1. CASE Sends
  <2>1. PICK next \in {"send", "run", "ready"} : ChannelSend(next)
    BY <1>1, Sending
  <2>2. /\ reader = "future" /\ future = "run" /\ Unsent # {}
        /\ UNCHANGED <<state, ended, usage>>
        /\ usage = {} => held' = FALSE \/ held' = held
    BY <1>1, Sending
  <2>3. Sent'
    BY <2>1, <2>2, ChannelSent DEF Sent, OneSent, InSlot
  <2>4. Made'
    BY <2>2 DEF Made
  <2>5. ASSUME usage = {} PROVE Awaited'
    <3>1. channel = NoItem /\ ~held
      BY <2>2, <2>5 DEF Awaited
    <3>2. reader' = "future" /\ future' = next
      BY <2>1, <2>2, <3>1, ChannelSent
    <3>3. next # "run"
      BY <1>1, <2>5, <3>1, <3>2
      DEF Sends, Send, SendHeld, SendDropped, ReturnErr, ChannelSend
    <3>. QED
      BY <2>1, <2>2, <3>1, <3>2, <3>3 DEF Awaited
  <2>. QED
    BY <2>2, <2>3, <2>4, <2>5 DEF Awaited
<1>2. CASE Looks
  <2>1. /\ UNCHANGED <<state, future, held, usage>> /\ reader \in {"poll next", "recv"}
        /\ \/ Receive
           \/ UNCHANGED <<channel, at>> /\ reader' \in {"idle", "wait"}
    BY <1>2 DEF Looks, Complete, Recv
  <2>2. Sent' /\ reader' \in {"idle", "wait"} /\ channel' \in {channel, NoItem}
    <3>1. CASE Receive
      BY <3>1, Received
    <3>2. CASE UNCHANGED <<channel, at>> /\ reader' \in {"idle", "wait"}
      BY <3>2 DEF Sent, OneSent, InSlot
    <3>. QED
      BY <2>1, <3>1, <3>2
  <2>. QED
    BY <2>1, <2>2 DEF Made, Awaited
<1>3. CASE ~Sends /\ ~Looks
  <2>1. UNCHANGED <<at, channel>> /\ Made' /\ Awaited'
    BY <1>3, Beside
  <2>. QED
    BY <2>1 DEF Sent, OneSent, InSlot
<1>. QED
  BY <1>1, <1>2, <1>3

\* A future that awaits each send before it sends again, and before it returns, never
\* meets a full slot (async_stream.rs:11-15, 66-75).
THEOREM NoPanics == Spec => []NoPanic
<1>1. Awaited => NoPanic
  BY DEF Awaited, NoPanic
<1>. QED
  BY <1>1, StreamInit, StreamStep, PTL DEF Spec

-----------------------------------------------------------------------------
(* The stream implements Delivery. *)

\* No item is anywhere at first, and both ends are there.
LEMMA PromiseInit == Init => Promise!Init
<1>. SUFFICES ASSUME Init PROVE Promise!Init
  OBVIOUS
<1>1. at = [m \in Item |-> "sender"] /\ ended = FALSE
  BY DEF Init
<1>2. (future # "dropped") = TRUE /\ (reader \notin {"gone", "panicked"}) = TRUE
  BY DEF Init
<1>. QED
  BY <1>1, <1>2, Zenon DEF Promise!Init

\* A step sends the next item into an empty slot, takes one out, tells that there are no
\* more, lets an end go, or is none to the promise.
LEMMA PromiseStep ==
  Sent /\ Made /\ Awaited /\ [Next]_vars => [Promise!Next]_(Promise!dvars)
<1>. SUFFICES ASSUME Sent, Made, Awaited, [Next]_vars
              PROVE  Promise!Next \/ UNCHANGED Promise!dvars
  OBVIOUS
<1>1. CASE Sends
  <2>1. PICK next \in {"send", "run", "ready"} : ChannelSend(next)
    BY <1>1, Sending
  <2>2. /\ reader = "future" /\ future = "run" /\ Unsent # {}
        /\ UNCHANGED <<state, ended, usage>>
    BY <1>1, Sending
  <2>3. CASE /\ channel = NoItem /\ channel' \in Item /\ at[channel'] = "sender"
             /\ at' = [at EXCEPT ![channel'] = "channel"]
             /\ \A i \in Item : i > channel' => at[i] = "sender"
             /\ future' = next /\ UNCHANGED reader
    <3>1. Promise!InChannel = {}
      BY <2>3, AsyncStreamAssumption DEF Sent, InSlot, Promise!InChannel, Item
    <3>2. Promise!Send(channel')
      BY <2>1, <2>2, <2>3, <3>1 DEF Promise!Send, Promise!MayLeave
    <3>. QED
      BY <2>3, <3>2 DEF Promise!Next
  <2>4. CASE reader' = "panicked" /\ UNCHANGED <<channel, at, future>>
    <3>1. Promise!Leave
      BY <2>2, <2>4 DEF Promise!Leave, Promise!MayLeave
    <3>. QED
      BY <3>1 DEF Promise!Next
  <2>. QED
    BY <2>1, <2>2, <2>3, <2>4, ChannelSent
<1>2. CASE Looks
  <2>1. /\ future' = future /\ reader \in {"poll next", "recv"}
        /\ \/ Receive /\ UNCHANGED ended
           \/ /\ state = "Complete" /\ channel = NoItem
              /\ ended' = TRUE /\ reader' = "idle" /\ UNCHANGED at
           \/ reader' = "wait" /\ UNCHANGED <<at, ended>>
    BY <1>2 DEF Looks, Complete, Recv
  <2>2. CASE Receive /\ UNCHANGED ended
    <3>1. Promise!Receive(channel) /\ channel \in Item
      BY <2>1, <2>2, Received DEF Promise!Receive, Promise!MayLeave
    <3>. QED
      BY <3>1 DEF Promise!Next
  <2>3. CASE state = "Complete" /\ channel = NoItem /\ ended' = TRUE /\ reader' = "idle" /\ UNCHANGED at
    <3>1. Promise!InChannel = {} /\ future = "dropped"
      BY <2>3, AsyncStreamAssumption DEF Sent, InSlot, Made, Promise!InChannel, Item
    <3>2. Promise!End
      BY <2>1, <2>3, <3>1 DEF Promise!End, Promise!MayLeave
    <3>. QED
      BY <3>2 DEF Promise!Next
  <2>4. CASE reader' = "wait" /\ UNCHANGED <<at, ended>>
    BY <2>1, <2>4 DEF Promise!dvars
  <2>. QED
    BY <2>1, <2>2, <2>3, <2>4
<1>3. CASE ~Sends /\ ~Looks
  <2>1. /\ UNCHANGED <<at, ended>>
        /\ future = "dropped" => future' = "dropped"
        /\ reader \in {"gone", "panicked"} => reader' \in {"gone", "panicked"}
    BY <1>3, Beside
  <2>2. Promise!Leave
    BY <2>1 DEF Promise!Leave, Promise!MayLeave
  <2>. QED
    BY <2>2 DEF Promise!Next
<1>. QED
  BY <1>1, <1>2, <1>3

\* However the future sends, the stream is a channel that keeps its promise: each item
\* arrives once, in order, and None only when the future has ended and all has arrived
\* (async_stream.rs:109-147).
THEOREM Keeping == Spec => KeepsPromise
<1>. DEFINE IInv == Sent /\ Made /\ Awaited
<1>1. Init => IInv /\ Promise!Init
  BY StreamInit, PromiseInit
<1>2. IInv /\ [Next]_vars => IInv' /\ [Promise!Next]_(Promise!dvars)
  BY StreamStep, PromiseStep
<1>. QED
  BY <1>1, <1>2, PTL DEF Spec, KeepsPromise, Promise!Spec
=============================================================================
