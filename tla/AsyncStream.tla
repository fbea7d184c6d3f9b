----------------------------- MODULE AsyncStream -----------------------------
(***************************************************************************)
(* AsyncStream (src/suspend/src/async_stream.rs), the stream behind the    *)
(* macros stream! and try_stream!, read by a thread through IterStream or  *)
(* block_on.  A future sends the items through one slot that it shares     *)
(* with the stream: poll_next polls the future and then looks into the     *)
(* slot.  The future may also wait for events of its own, which wake the   *)
(* reader.  Everything but the events happens on the reader's thread.      *)
(***************************************************************************)
EXTENDS Integers

CONSTANTS
    ItemBound,  \* the future sends at most this many items
    EventBound, \* and waits for at most this many events
    NoItem,     \* the content of the empty slot
    Usage       \* how the future may use its sender: a set of sets of Usages

\* "hold": a send future may be kept and awaited after an event.
\* "drop": it may be dropped without having been awaited.
\* A future of neither kind awaits each send at once, as send!() does.
Usages == {"hold", "drop"}

ASSUME AsyncStreamAssumption ==
    /\ ItemBound \in Nat /\ EventBound \in Nat
    /\ NoItem \notin 1 .. ItemBound
    /\ Usage \subseteq SUBSET Usages

Item == 1 .. ItemBound

VARIABLES
    state,      \* the AsyncStreamState
    channel,    \* the slot: an item, or NoItem
    reader,     \* where the reader is: "poll next", in "future" which it polls,
                \* at "recv" after a Pending, in "wait", or between two calls
    waker,      \* whether an event has the waker of this call, or has used it
    future,     \* where the future is: at "start" of a turn (not polled yet, or
                \* not since its event), in its own code ("run"), or at what it awaits
    first,      \* AsyncStreamSend::first, of the send future that there is
    held,       \* that send future is kept for later
    events,     \* how many events the future has waited for
    at,         \* at[i]: where item i is
    ended,      \* the reader was told that there is no more
    usage       \* the one of Usage that this future makes

vars == <<state, channel, reader, waker, future, first, held, events, at, ended, usage>>

\* make_stream()
Init ==
    /\ state = "Init"
    /\ channel = NoItem
    /\ reader = "idle"
    /\ waker = "none"
    /\ future = "none"
    /\ first = FALSE /\ held = FALSE
    /\ events = 0
    /\ at = [i \in Item |-> "sender"]
    /\ ended = FALSE
    /\ usage \in Usage

-----------------------------------------------------------------------------
(* The reader *)

\* The reader asks for the next item, with a waker that is good for this call.
CallNext ==
    /\ reader = "idle"
    /\ reader' = "poll next"
    /\ waker' = "none"
    /\ UNCHANGED <<state, channel, future, first, held, events, at, ended, usage>>

\* poll_next() on a stream that has not started: the closure makes the future.
Start ==
    /\ reader = "poll next" /\ state = "Init"
    /\ state' = "Poll"
    /\ future' = "start"
    /\ UNCHANGED <<channel, reader, waker, first, held, events, at, ended, usage>>

\* ... on one that has: the future is polled, with the reader's waker.
PollFuture ==
    /\ reader = "poll next" /\ state = "Poll"
    /\ reader' = "future"
    /\ UNCHANGED <<state, channel, waker, future, first, held, events, at, ended, usage>>

\* channel_recv(): the item goes to the reader, or there is none.
Receive ==
    /\ channel # NoItem
    /\ at' = [at EXCEPT ![channel] = "receiver"]
    /\ channel' = NoItem
    /\ reader' = "idle"

\* Broken variant: an item that the future has left is not looked for.
TellComplete ==
    /\ reader = "poll next" /\ state = "Complete"
    /\ ended' = TRUE /\ reader' = "idle"
    /\ UNCHANGED <<channel, at, state, waker, future, first, held, events, usage>>

\* ... on one whose future has ended: what is left, and then None.
Complete ==
    /\ reader = "poll next" /\ state = "Complete"
    /\ \/ Receive /\ UNCHANGED ended
       \/ /\ channel = NoItem
          /\ ended' = TRUE /\ reader' = "idle"
          /\ UNCHANGED <<channel, at>>
    /\ UNCHANGED <<state, waker, future, first, held, events, usage>>

\* Broken variant: Pending is passed on.
PassPending ==
    /\ reader = "recv"
    /\ reader' = "wait"
    /\ UNCHANGED <<state, channel, waker, future, first, held, events, at, ended, usage>>

\* The future was Pending: the item that it has sent, or Pending.
Recv ==
    /\ reader = "recv"
    /\ \/ Receive
       \/ /\ channel = NoItem
          /\ reader' = "wait"
          /\ UNCHANGED <<channel, at>>
    /\ UNCHANGED <<state, waker, future, first, held, events, ended, usage>>

\* thread_suspend() polls again when its waker has been used.
Resume ==
    /\ reader = "wait" /\ waker = "used"
    /\ waker' = "none"
    /\ reader' = "poll next"
    /\ UNCHANGED <<state, channel, future, first, held, events, at, ended, usage>>

\* block_on_deadline() gives up; the reader may ask again later.
GiveUp ==
    /\ reader = "wait"
    /\ reader' = "idle"
    /\ UNCHANGED <<state, channel, waker, future, first, held, events, at, ended, usage>>

\* The stream is dropped between two calls, with its future and its slot.
DropStream ==
    /\ reader = "idle"
    /\ reader' = "gone"
    /\ future' = "dropped"
    /\ first' = FALSE /\ held' = FALSE
    /\ UNCHANGED <<state, channel, waker, events, at, ended, usage>>

-----------------------------------------------------------------------------
(* The future, polled *)

Polled(place) == reader = "future" /\ future = place

Unsent == {i \in Item : at[i] = "sender"}
NextItem == CHOOSE i \in Unsent : \A j \in Unsent : i <= j

\* channel_send(): a full slot is an invalid use of the sender, and nothing is
\* said of the stream after the panic.
ChannelSend(next) ==
    IF channel = NoItem
      THEN /\ channel' = NextItem
           /\ at' = [at EXCEPT ![NextItem] = "channel"]
           /\ UNCHANGED reader
           /\ future' = next
      ELSE /\ reader' = "panicked"
           /\ UNCHANGED <<channel, at, future>>

Begin ==
    /\ Polled("start")
    /\ future' = "run"
    /\ UNCHANGED <<state, channel, reader, waker, first, held, events, at, ended, usage>>

\* sender.send(item).await
Send ==
    /\ Polled("run") /\ ~held
    /\ Unsent # {}
    /\ ChannelSend("send")
    /\ first' = TRUE
    /\ UNCHANGED <<state, waker, held, events, ended, usage>>

\* let f = sender.send(item), to be awaited later
SendHeld ==
    /\ Polled("run") /\ ~held
    /\ "hold" \in usage
    /\ Unsent # {}
    /\ ChannelSend("run")
    /\ first' = TRUE /\ held' = TRUE
    /\ UNCHANGED <<state, waker, events, ended, usage>>

AwaitHeld ==
    /\ Polled("run") /\ held
    /\ future' = "send"
    /\ held' = FALSE
    /\ UNCHANGED <<state, channel, reader, waker, first, events, at, ended, usage>>

\* drop(sender.send(item))
SendDropped ==
    /\ Polled("run") /\ ~held
    /\ "drop" \in usage
    /\ Unsent # {}
    /\ ChannelSend("run")
    /\ UNCHANGED <<state, waker, first, held, events, ended, usage>>

\* Broken variant: the item is as good as sent.
PollSendOnce ==
    /\ Polled("send")
    /\ first' = FALSE
    /\ future' = "run"
    /\ UNCHANGED <<state, channel, reader, waker, held, events, at, ended, usage>>

\* AsyncStreamSend::poll: pending at the first poll and while the slot is
\* full.  Nobody is told to wake the reader.
PollSend ==
    /\ Polled("send")
    /\ first' = FALSE
    /\ IF first \/ channel # NoItem
         THEN reader' = "recv" /\ UNCHANGED future
         ELSE future' = "run" /\ UNCHANGED reader
    /\ UNCHANGED <<state, channel, waker, held, events, at, ended, usage>>

Register == waker' = IF waker = "used" THEN "used" ELSE "registered"

\* The future awaits an event, which keeps the waker it was polled with.
AwaitEvent ==
    /\ Polled("run")
    /\ events < EventBound
    /\ events' = events + 1
    /\ future' = "event"
    /\ reader' = "recv"
    /\ Register
    /\ UNCHANGED <<state, channel, first, held, at, ended, usage>>

\* It is polled before the event has happened ...
PollEvent ==
    /\ Polled("event")
    /\ reader' = "recv"
    /\ Register
    /\ UNCHANGED <<state, channel, future, first, held, events, at, ended, usage>>

\* ... and the event happens, at any time: the waker is
\* used, and the next poll goes on.
Event ==
    /\ future = "event"
    /\ future' = "start"
    /\ waker' = IF waker = "registered" THEN "used" ELSE waker
    /\ UNCHANGED <<state, channel, reader, first, held, events, at, ended, usage>>

\* The future returns, with a send future that it holds dropped.
Return ==
    /\ Polled("run")
    /\ future' = "ready"
    /\ held' = FALSE
    /\ UNCHANGED <<state, channel, reader, waker, first, events, at, ended, usage>>

\* A try_stream! future returns an error: TryStreamFut sends it.
ReturnErr ==
    /\ Polled("run")
    /\ Unsent # {}
    /\ ChannelSend("ready")
    /\ held' = FALSE
    /\ UNCHANGED <<state, waker, first, events, ended, usage>>

\* poll_next(), the future is Ready: it is dropped, and the loop goes round.
End ==
    /\ Polled("ready")
    /\ future' = "dropped"
    /\ state' = "Complete"
    /\ reader' = "poll next"
    /\ UNCHANGED <<channel, waker, first, held, events, at, ended, usage>>

-----------------------------------------------------------------------------
PollStep ==
    \/ Start \/ PollFuture \/ Complete \/ Recv \/ Resume
    \/ Begin \/ Send \/ SendHeld \/ AwaitHeld \/ SendDropped \/ PollSend
    \/ AwaitEvent \/ PollEvent \/ Return \/ ReturnErr \/ End

Next == CallNext \/ GiveUp \/ DropStream \/ PollStep \/ Event

Spec == Init /\ [][Next]_vars

\* poll_next() runs until it returns, the reader polls again when it is woken,
\* and events happen.  The reader need not ask for more.
FairSpec == Spec /\ WF_vars(PollStep) /\ WF_vars(Event)

-----------------------------------------------------------------------------
(* Properties *)

\* A future that awaits each send before it sends again, and before it
\* returns, never meets a full slot (async_stream.rs:11-15, 66-75).  One that
\* drops or keeps send futures may.
NoPanic == reader = "panicked" => usage # {}

\* However the future sends, the stream is a channel that keeps its promise:
\* each item arrives once, in order, and None only when the future has ended
\* and all has arrived (async_stream.rs:109-147).
Promise == INSTANCE Delivery WITH
    Message <- Item, at <- at,
    sender <- future # "dropped",
    receiver <- reader \notin {"gone", "panicked"},
    ended <- ended

KeepsPromise == Promise!Spec

\* Every call of poll_next() by a reader that waits when it is Pending comes
\* to an item or to None (async_stream.rs:66-72, 126-137).  A future that kept
\* a send future until its item was taken makes the reader wait for ever: the
\* first poll of a send is Pending, and then nobody wakes the reader.
Yields ==
    (reader \notin {"idle", "gone", "panicked"} /\ "hold" \notin usage)
      ~> reader \in {"idle", "panicked"}
=============================================================================
