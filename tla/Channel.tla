------------------------------- MODULE Channel -------------------------------
(***************************************************************************)
(* suspend's channels (src/suspend/src/channel.rs): one state byte, a slot *)
(* for a value and a slot for a waker, shared by a sending and a receiving *)
(* end, either of which frees the box when it finds the other one gone.    *)
(* send_once() makes a pair for one message, channel() one for many.       *)
(*                                                                         *)
(* A section under the LOCKED bit is two steps: the fetch_or that sets it, *)
(* and what the section does with the slots up to the operation that       *)
(* unlocks, for no end touches a slot while the other has the bit.  What   *)
(* an end does with the slots without the bit, or after it has given it    *)
(* up, is a step of its own; so is freeing the box.  The orderings of the  *)
(* atomic operations are not modelled.                                     *)
(*                                                                         *)
(* The slots are Maybe cells, whose debug assertions (util.rs:93, 105,     *)
(* 117) catch a load of an empty and a store into a full one.  An end that *)
(* fails one, or meets a state the code calls invalid, panics and stops.   *)
(***************************************************************************)
EXTENDS Integers, FiniteSets

CONSTANTS
    SendBound,  \* bound: how many messages a sender has at most
    Usage       \* how the program may use a channel: a set of Usages

S == "sender"
R == "receiver"
End == {S, R}

\* once: send_once() or channel().
\* send: "send" and leave (SendOnce::send, Sender::into_send); "track" (by a
\* TrackSend that is polled when woken); "repoll" it also when not; "abandon" a
\* TrackSend, "unpolled" or not; "drop".
\* recv: "wait"; "deadline"; "poll" when woken; "repoll" also when not, or when
\* Ready; "try"; "drop" (or cancel) when not registered; "quit" when registered.
Usages == [once : BOOLEAN,
           send : SUBSET {"send", "track", "repoll", "abandon", "unpolled", "drop"},
           recv : SUBSET {"wait", "deadline", "poll", "repoll", "try", "drop", "quit"}]

ASSUME ChannelAssumption ==
    /\ SendBound \in Nat \ {0}
    /\ Usage \subseteq Usages

Message == 1..SendBound
NoMessage == 0
NoWaker == "nobody"

\* The values of the state byte, as sets of bits.
LOCKED == "LOCKED"
DONE == {}
INIT == {"INIT"}
LOADED == {"LOADED"}
WAKE_RECV == {"WAKE"}
WAKE_SEND == {"WAKE", "LOADED"}
Unlocked == {DONE, INIT, LOADED, WAKE_RECV, WAKE_SEND}
Bytes == Unlocked \cup {byte \cup {LOCKED} : byte \in Unlocked}

VARIABLES
    usage,      \* the one of Usage that this program makes
    state,      \* the state byte
    value,      \* the slot for a value
    waker,      \* the slot for a waker: the end it wakes, or NoWaker
    freed,      \* the box has been freed
    pc,         \* pc[e]: where end e is
    call,       \* call[e]: what e does, or did last
    seen,       \* seen[e]: the byte that e's last fetch_or or load found
    owes,       \* owes[e]: e has loaded a waker that will wake the other end
    woken,      \* woken[e]: e was woken since it began to wait
    next,       \* the next message to send
    at,         \* at[m]: where message m is
    ended       \* the receiver was told that there is no more

box == <<state, value, waker, freed>>
own == <<seen, owes, woken>>
ledger == <<next, at, ended>>
vars == <<usage, box, pc, call, own, ledger>>

Panics == {"duplicate load", "duplicate store", "invalid state"}

Place == {"idle", "waiting", "lock", "use", "look", "relock", "reuse", "settle",
          "clear", "load", "forget", "take back", "wake", "free", "unpark", "gone"}

TypeOK ==
    /\ usage \in Usage
    /\ state \in Bytes
    /\ value \in Message \cup {NoMessage}
    /\ waker \in End \cup {NoWaker}
    /\ freed \in BOOLEAN
    /\ pc \in [End -> Place \cup Panics]
    /\ call \in [End -> {"none", "send", "track", "wait", "deadline", "poll", "try"}]
    /\ seen \in [End -> Bytes]
    /\ owes \in [End -> BOOLEAN]
    /\ woken \in [End -> BOOLEAN]
    /\ next \in 1..(SendBound + 1)
    /\ at \in [Message -> {"sender", "channel", "receiver"}]
    /\ ended \in BOOLEAN

\* Channel::new()
Init ==
    /\ usage \in Usage
    /\ state = INIT
    /\ value = NoMessage /\ waker = NoWaker
    /\ freed = FALSE
    /\ pc = [e \in End |-> "idle"]
    /\ call = [e \in End |-> "none"]
    /\ seen = [e \in End |-> DONE]
    /\ owes = [e \in End |-> FALSE]
    /\ woken = [e \in End |-> FALSE]
    /\ next = 1
    /\ at = [m \in Message |-> "sender"]
    /\ ended = FALSE

Goto(e, place) == pc' = [pc EXCEPT ![e] = place]

\* Go on, if the assertion holds.
Assert(e, holds, fault, place) == Goto(e, IF holds THEN place ELSE fault)

\* The message in the slot goes to one of the ends.
Takes(e) ==
    /\ value' = NoMessage
    /\ at' = IF value = NoMessage THEN at ELSE [at EXCEPT ![value] = e]

\* Broken variant: does not spin.
LockAnyway(e, from, to) ==
    /\ pc[e] = from
    /\ state' = state \cup {LOCKED}
    /\ seen' = [seen EXCEPT ![e] = state]
    /\ Goto(e, to)
    /\ UNCHANGED <<usage, value, waker, freed, call, owes, woken, ledger>>

\* wait_for_lock(): spins until LOCKED is clear.
Lock(e, from, to) ==
    /\ pc[e] = from
    /\ LOCKED \notin state
    /\ state' = state \cup {LOCKED}
    /\ seen' = [seen EXCEPT ![e] = state]
    /\ Goto(e, to)
    /\ UNCHANGED <<usage, value, waker, freed, call, owes, woken, ledger>>

\* The waker that e has loaded is used, and e is done with the call.
Unpark(e, other, place) ==
    /\ pc[e] = "unpark"
    /\ woken' = [woken EXCEPT ![other] = @ \/ owes[e]]
    /\ owes' = [owes EXCEPT ![e] = FALSE]
    /\ Goto(e, place)
    /\ UNCHANGED <<usage, box, call, seen, ledger>>

\* drop(channel.into_box()): what is left in the slots is not dropped.
Free(e) ==
    /\ pc[e] = "free"
    /\ freed' = TRUE
    /\ Goto(e, "gone")
    /\ UNCHANGED <<usage, state, value, waker, call, own, ledger>>

-----------------------------------------------------------------------------
(* The sender *)

\* Where a send that has failed, or a TrackSend that is ready, goes on:
\* Sender::send leaves the box to the Sender.
SendReturns(dropped) ==
    IF call[S] = "track" /\ ~usage.once THEN "idle" ELSE IF dropped THEN "free" ELSE "gone"

\* SendOnce::send, Sender::into_send; the first poll of a TrackSend.
SendBegin ==
    /\ pc[S] = "idle" /\ next \in Message
    /\ usage.once => next = 1
    /\ \E how \in {"send", "track"} \cap usage.send : call' = [call EXCEPT ![S] = how]
    /\ next' = next + 1
    /\ Goto(S, "lock")
    /\ UNCHANGED <<usage, box, own, at, ended>>

SendLock == Lock(S, "lock", "use")

\* send(): with a receiver there, fill the slots and swap.
SendStore ==
    /\ pc[S] = "use" /\ seen[S] # DONE
    /\ LET tracks == call[S] = "track"
           sound == value = NoMessage /\ (waker = IF seen[S] = WAKE_RECV THEN R ELSE NoWaker)
           found == IF state = DONE THEN "take back"
                    ELSE IF seen[S] = WAKE_RECV THEN "unpark"
                    ELSE IF tracks THEN "waiting" ELSE "gone"
       IN
       /\ value' = next - 1
       /\ at' = [at EXCEPT ![next - 1] = "channel"]
       /\ waker' = IF tracks THEN S ELSE NoWaker
       /\ state' = IF tracks THEN WAKE_SEND ELSE LOADED
       /\ owes' = [owes EXCEPT ![S] = (seen[S] = WAKE_RECV)]
       /\ woken' = [woken EXCEPT ![S] = FALSE]
       /\ Assert(S, seen[S] \in {INIT, WAKE_RECV}, "invalid state",
                 IF sound THEN found ELSE "duplicate store")
    /\ UNCHANGED <<usage, freed, call, seen, next, ended>>

\* send() finds the receiver gone, before or after the slots are filled.
SendRefused ==
    /\ pc[S] = "use" /\ seen[S] = DONE
    /\ state' = DONE
    /\ Goto(S, SendReturns(TRUE))
    /\ UNCHANGED <<usage, value, waker, freed, call, own, ledger>>

SendTakeBack ==
    /\ pc[S] = "take back"
    /\ Takes(S)
    /\ waker' = NoWaker
    /\ owes' = [owes EXCEPT ![S] = FALSE]
    /\ Assert(S, value # NoMessage /\ (call[S] = "track" => waker # NoWaker),
              "duplicate load", SendReturns(TRUE))
    /\ UNCHANGED <<usage, state, freed, call, seen, woken, next, ended>>

\* Broken variant: the waker is dropped.
SendWakesNobody ==
    /\ pc[S] = "unpark"
    /\ Goto(S, IF call[S] = "track" THEN "waiting" ELSE "gone")
    /\ UNCHANGED <<usage, box, call, own, ledger>>

SendWakes == Unpark(S, R, IF call[S] = "track" THEN "waiting" ELSE "gone")

\* A TrackSend is polled again: poll_send().
TrackPoll ==
    /\ pc[S] = "waiting" /\ (woken[S] \/ "repoll" \in usage.send)
    /\ woken' = [woken EXCEPT ![S] = FALSE]
    /\ Goto(S, "relock")
    /\ UNCHANGED <<usage, box, call, seen, owes, ledger>>

TrackLock == Lock(S, "relock", "reuse")

\* Broken variant: the initial bit is set whatever the receiver waits for.
TrackTakenInit ==
    /\ pc[S] = "reuse" /\ seen[S] \in {DONE, INIT, WAKE_RECV}
    /\ state' = IF seen[S] = DONE THEN state ELSE seen[S] \cup INIT
    /\ Goto(S, SendReturns(seen[S] = DONE))
    /\ UNCHANGED <<usage, value, waker, freed, call, own, ledger>>

\* Its message is gone; what the receiver has done to the byte meanwhile is
\* overwritten, or the LOCKED bit is left behind.
TrackTaken ==
    /\ pc[S] = "reuse" /\ seen[S] \in {DONE, INIT, WAKE_RECV}
    /\ state' = IF seen[S] = DONE THEN state ELSE seen[S]
    /\ Goto(S, SendReturns(seen[S] = DONE))
    /\ UNCHANGED <<usage, value, waker, freed, call, own, ledger>>

\* The receiver left it behind.
TrackLeft ==
    /\ pc[S] = "reuse" /\ seen[S] = LOADED
    /\ Takes(S)
    /\ Assert(S, value # NoMessage, "duplicate load", SendReturns(TRUE))
    /\ UNCHANGED <<usage, state, waker, freed, call, own, next, ended>>

\* It is still there: wait again.
TrackAgain ==
    /\ pc[S] = "reuse" /\ seen[S] \notin {DONE, INIT, WAKE_RECV, LOADED}
    /\ waker' = S
    /\ state' = WAKE_SEND
    /\ Assert(S, seen[S] = WAKE_SEND, "invalid state",
              IF waker = NoWaker THEN "duplicate load" ELSE "waiting")
    /\ UNCHANGED <<usage, value, freed, call, own, ledger>>

\* Drop of a TrackSend: cancel_send_poll() does not wait for the lock, and
\* whether it was to free the box is not looked at.
TrackDrop ==
    /\ \/ pc[S] = "waiting" /\ "abandon" \in usage.send /\ UNCHANGED <<call, next>>
       \/ /\ pc[S] = "idle" /\ "unpolled" \in usage.send /\ next \in Message
          /\ next' = next + 1
          /\ call' = [call EXCEPT ![S] = "track"]
    /\ state' = state \cup {LOCKED}
    /\ seen' = [seen EXCEPT ![S] = state]
    /\ Goto(S, CASE LOCKED \in state \/ state = DONE  -> IF usage.once THEN "gone" ELSE "idle"
                 [] state \in {INIT, WAKE_SEND}      -> "settle"
                 [] OTHER                            -> "invalid state")
    /\ UNCHANGED <<usage, value, waker, freed, owes, woken, at, ended>>

TrackSettle ==
    /\ pc[S] = "settle"
    /\ state' = IF seen[S] = INIT THEN DONE ELSE LOADED
    /\ waker' = IF seen[S] = INIT THEN waker ELSE NoWaker
    /\ Assert(S, seen[S] = WAKE_SEND => waker # NoWaker, "duplicate load",
              IF usage.once THEN "gone" ELSE "idle")
    /\ UNCHANGED <<usage, value, freed, call, own, ledger>>

\* Drop of the SendOnce or Sender: cancel_send().
SendDrop ==
    /\ pc[S] = "idle" /\ "drop" \in usage.send
    /\ state' = DONE
    /\ Goto(S, CASE LOCKED \in state \/ state = INIT -> "gone"
                 [] state = DONE                     -> "free"
                 [] state = WAKE_RECV                -> "wake"
                 [] OTHER                            -> "invalid state")
    /\ UNCHANGED <<usage, value, waker, freed, call, own, ledger>>

\* Broken variant: the waker is dropped.
WakeNobody(e, other) ==
    /\ pc[e] = "wake"
    /\ waker' = NoWaker
    /\ Assert(e, waker # NoWaker, "duplicate load", "gone")
    /\ UNCHANGED <<usage, state, value, freed, call, own, ledger>>

\* waker.load().wake()
Wake(e, other) ==
    /\ pc[e] = "wake"
    /\ waker' = NoWaker
    /\ woken' = [woken EXCEPT ![other] = TRUE]
    /\ Assert(e, waker # NoWaker, "duplicate load", "gone")
    /\ UNCHANGED <<usage, state, value, freed, call, seen, owes, ledger>>

-----------------------------------------------------------------------------
(* The receiver *)

\* Where a call that is Ready goes on.  A ReceiveOnce that is polled leaves
\* the box to its drop, whatever it is told.
RecvReturns(dropped) ==
    IF usage.once /\ call[R] = "poll" THEN "idle"
    ELSE IF dropped THEN "free" ELSE IF usage.once THEN "gone" ELSE "idle"

\* wait(), wait_deadline(), poll() and the like of either kind; or try_recv().
\* A ReceiveOnce that was Ready is polled again as a Stream.  Each blocking call
\* has a thread waker of its own, and is not woken by one of an earlier call.
RecvBegin ==
    /\ pc[R] = "idle"
    /\ usage.once /\ call[R] = "poll" => "repoll" \in usage.recv
    /\ \E how \in {"wait", "deadline", "poll", "try"} \cap usage.recv :
          /\ call' = [call EXCEPT ![R] = how]
          /\ Goto(R, IF how = "try" THEN "look" ELSE "lock")
          /\ owes' = [owes EXCEPT ![S] = @ /\ how = "poll"]
    /\ woken' = [woken EXCEPT ![R] = FALSE]
    /\ UNCHANGED <<usage, box, seen, ledger>>

RecvLock == Lock(R, "lock", "use") \/ Lock(R, "relock", "reuse")

\* Broken variant: a sender that is gone is taken to have left nothing.
RecvNoMoreEver ==
    /\ pc[R] \in {"use", "reuse"} /\ seen[R] \in {DONE, LOADED}
    /\ state' = DONE
    /\ ended' = TRUE
    /\ Goto(R, RecvReturns(TRUE))
    /\ UNCHANGED <<usage, value, waker, freed, call, own, next, at>>

\* The sender is gone, and left nothing.
RecvNoMore ==
    /\ pc[R] \in {"use", "reuse"} /\ seen[R] = DONE
    /\ state' = DONE
    /\ ended' = TRUE
    /\ Goto(R, RecvReturns(TRUE))
    /\ UNCHANGED <<usage, value, waker, freed, call, own, next, at>>

\* The sender is gone, and left a message.
RecvLast ==
    /\ pc[R] \in {"use", "reuse"} /\ seen[R] = LOADED
    /\ Takes(R)
    /\ state' = DONE
    /\ Assert(R, value # NoMessage, "duplicate load", RecvReturns(TRUE))
    /\ UNCHANGED <<usage, waker, freed, call, own, next, ended>>

\* A message, and the waker of the TrackSend that waits for its receipt; the
\* sender may have left before the swap.
RecvNext ==
    /\ pc[R] \in {"use", "reuse"} /\ seen[R] = WAKE_SEND
    /\ Takes(R)
    /\ waker' = NoWaker
    /\ state' = INIT
    /\ owes' = [owes EXCEPT ![R] = (state # DONE)]
    /\ Assert(R, value # NoMessage /\ waker # NoWaker, "duplicate load",
              IF state = DONE THEN RecvReturns(TRUE) ELSE "unpark")
    /\ UNCHANGED <<usage, freed, call, seen, woken, next, ended>>

\* Broken variant: the sender is taken to be gone.
RecvWakesAndFrees == Unpark(R, S, RecvReturns(TRUE))

RecvWakes == Unpark(R, S, RecvReturns(FALSE))

\* poll_recv() finds nothing: a waker takes the place of the last one.  The
\* sender may have left before the swap.
RecvRegister ==
    /\ pc[R] = "use" /\ seen[R] \notin {DONE, LOADED, WAKE_SEND}
    /\ waker' = R
    /\ state' = WAKE_RECV
    /\ LET was == IF seen[R] = WAKE_RECV THEN R ELSE NoWaker
           found == IF state = DONE THEN "clear" ELSE "waiting"
       IN Assert(R, seen[R] \in {INIT, WAKE_RECV}, "invalid state",
                 IF waker = was THEN found ELSE "duplicate store")
    /\ UNCHANGED <<usage, value, freed, call, own, ledger>>

RecvClear ==
    /\ pc[R] = "clear"
    /\ waker' = NoWaker
    /\ ended' = TRUE
    /\ Assert(R, waker # NoWaker, "duplicate load", RecvReturns(TRUE))
    /\ UNCHANGED <<usage, state, value, freed, call, own, next, at>>

\* Where try_recv() that is Pending goes on.
Pending == IF call[R] = "try" THEN "idle" ELSE "waiting"

\* A blocked thread is woken, and goes on by try_recv(); a future is polled.
RecvWoken ==
    /\ pc[R] = "waiting"
    /\ woken[R] \/ (call[R] = "poll" /\ "repoll" \in usage.recv)
    /\ woken' = [woken EXCEPT ![R] = FALSE]
    /\ Goto(R, IF call[R] = "poll" THEN "lock" ELSE "look")
    /\ UNCHANGED <<usage, box, call, seen, owes, ledger>>

\* try_recv(): a load without the lock, and again with it; then there still
\* is something, for only the receiver takes it (if not, the lock is left).
RecvLook ==
    /\ pc[R] = "look" \/ (pc[R] = "reuse" /\ seen[R] \in {INIT, WAKE_RECV})
    /\ LET found == IF pc[R] = "look" THEN state ELSE seen[R] IN
       /\ seen' = [seen EXCEPT ![R] = found]
       /\ ended' = (ended \/ found = DONE)
       /\ Goto(R, CASE found \in {INIT, WAKE_RECV} -> Pending
                    [] found = DONE               -> RecvReturns(TRUE)
                    [] found = LOADED             -> "reuse"
                    [] found = WAKE_SEND          -> "relock"
                    [] OTHER                      -> "invalid state")
    /\ UNCHANGED <<usage, box, call, owes, woken, next, at>>

\* The deadline passes: cancel_recv_poll().
RecvExpire ==
    /\ pc[R] = "waiting" /\ call[R] = "deadline"
    /\ LOCKED \notin state
    /\ state' = state \cup {LOCKED}
    /\ seen' = [seen EXCEPT ![R] = state]
    /\ Goto(R, "settle")
    /\ UNCHANGED <<usage, value, waker, freed, call, owes, woken, ledger>>

\* It has come too late, or stores the initial state over what the sender may
\* have done to the byte meanwhile.
RecvSettle ==
    /\ pc[R] = "settle"
    /\ IF seen[R] \in {LOADED, WAKE_SEND} THEN Takes(R) ELSE UNCHANGED <<value, at>>
    /\ waker' = IF seen[R] \in {WAKE_RECV, WAKE_SEND} THEN NoWaker ELSE waker
    /\ state' = IF seen[R] \in {WAKE_RECV, WAKE_SEND} THEN INIT ELSE state
    /\ owes' = [owes EXCEPT ![R] = (seen[R] = WAKE_SEND)]
    /\ ended' = (ended \/ seen[R] = DONE)
    /\ Assert(R, (waker' # waker \/ seen[R] \in {DONE, LOADED})
                   /\ (seen[R] \in {LOADED, WAKE_SEND} => value # NoMessage),
              IF seen[R] = INIT THEN "invalid state" ELSE "duplicate load",
              CASE seen[R] \in {DONE, LOADED} -> RecvReturns(TRUE)
                [] seen[R] = WAKE_SEND        -> "unpark"
                [] OTHER                      -> "idle")
    /\ UNCHANGED <<usage, freed, call, seen, woken, next>>

\* Drop or cancel() of the end: cancel_recv(), without the lock.
RecvDrop ==
    /\ \/ pc[R] = "idle" /\ ("drop" \in usage.recv \/ (usage.once /\ call[R] = "poll"))
       \/ pc[R] = "waiting" /\ call[R] = "poll" /\ "quit" \in usage.recv
    /\ state' = state \cap LOADED
    /\ Goto(R, CASE LOCKED \in state \/ state = INIT -> "gone"
                 [] state = DONE                     -> "free"
                 [] state = LOADED                   -> "load"
                 [] state = WAKE_SEND                -> "wake"
                 [] state = WAKE_RECV                -> "forget"
                 [] OTHER                            -> "invalid state")
    /\ UNCHANGED <<usage, value, waker, freed, call, own, ledger>>

\* Broken variant: the box is left to the sender.
RecvLoadOnly ==
    /\ pc[R] = "load"
    /\ Takes(R)
    /\ Assert(R, value # NoMessage, "duplicate load", "gone")
    /\ UNCHANGED <<usage, state, waker, freed, call, own, next, ended>>

RecvLoad ==
    /\ pc[R] = "load"
    /\ Takes(R)
    /\ Assert(R, value # NoMessage, "duplicate load", "free")
    /\ UNCHANGED <<usage, state, waker, freed, call, own, next, ended>>

RecvForget ==
    /\ pc[R] = "forget"
    /\ waker' = NoWaker
    /\ Assert(R, waker # NoWaker, "duplicate load", "gone")
    /\ UNCHANGED <<usage, state, value, freed, call, own, ledger>>

-----------------------------------------------------------------------------

SenderStep ==
    \/ SendLock
    \/ SendStore
    \/ SendRefused
    \/ SendTakeBack
    \/ SendWakes
    \/ TrackPoll
    \/ TrackLock
    \/ TrackTaken
    \/ TrackLeft
    \/ TrackAgain
    \/ TrackSettle
    \/ Wake(S, R)
    \/ Free(S)

ReceiverStep ==
    \/ RecvLock
    \/ RecvNoMore
    \/ RecvLast
    \/ RecvNext
    \/ RecvWakes
    \/ RecvRegister
    \/ RecvClear
    \/ RecvWoken
    \/ RecvLook
    \/ RecvSettle
    \/ RecvLoad
    \/ RecvForget
    \/ Wake(R, S)
    \/ Free(R)

\* What the program decides to do, or time does.
Choice ==
    \/ SendBegin
    \/ SendDrop
    \/ TrackDrop
    \/ RecvBegin
    \/ RecvExpire
    \/ RecvDrop

Next == SenderStep \/ ReceiverStep \/ Choice

Spec == Init /\ [][Next]_vars

\* An end goes on with the call it is in; one that spins gets the byte some time
\* if it is unlocked again and again.
FairSpec ==
    /\ Spec
    /\ WF_vars(SenderStep) /\ SF_vars(SendLock \/ TrackLock)
    /\ WF_vars(ReceiverStep) /\ SF_vars(RecvLock)

-----------------------------------------------------------------------------
(* Properties *)

\* The uses of a channel that are sound.  try_recv() is not called.  A receiver that is
\* registered is only dropped if nothing is sent; neither the receiver of a channel() nor its
\* TrackSend is dropped.  The other conditions keep what one end does to the byte without the
\* lock, or overwrites with what it read, from what the other may do at the time.
Disciplined(u) ==
    /\ "try" \notin u.recv
    /\ "quit" \in u.recv => u.send = {}
    /\ ~u.once => "drop" \notin u.recv /\ "abandon" \notin u.send
    /\ "drop" \in u.send => /\ u.recv \cap {"deadline", "repoll"} = {}
                            /\ u.once => "poll" \notin u.recv
    /\ "repoll" \in u.send => u.recv \subseteq {"poll", "repoll"}
    /\ "abandon" \in u.send => u.recv \subseteq {"poll"} /\ "drop" \notin u.send
    /\ "unpolled" \in u.send => /\ u.once /\ u.recv \subseteq {"drop"}
                                /\ "track" \in u.send /\ "drop" \notin u.send

\* No assertion of the slots fails, and no end finds a state it calls
\* invalid (util.rs:93, 105, 117; channel.rs): the byte vouches for the slots
\* although three of its operations do not wait for the lock.
NoPanic == \A e \in End : pc[e] \notin Panics

\* An end that is not in a call that only has to wake the other end.
Uses(e) ==
    /\ pc[e] # "gone"
    /\ pc[e] = "unpark" => IF e = S THEN call[S] = "track" ELSE RecvReturns(FALSE) # "gone"

\* The box is freed when neither end will use it again, and then by no one
\* else: "sender was holding the lock, will handle drop" (channel.rs:164) and
\* the like must be right on both sides.
FreedLast == freed => \A e \in End : ~Uses(e)

\* When both ends are gone the box is freed, with nothing left in it.  A
\* TrackSend of send_once() does not keep to this: neither end frees the box
\* when it finishes after the message was received (channel.rs:271-275).
NoLeak ==
    (\A e \in End : pc[e] = "gone") /\ ~(usage.once /\ "track" \in usage.send) =>
        freed /\ value = NoMessage /\ waker = NoWaker

\* The ends, in terms of the promise.
SenderThere == Uses(S) /\ pc[S] \notin {"wake", "free"}
ReceiverThere == Uses(R) /\ pc[R] \notin {"load", "wake", "forget", "free"}

Promise == INSTANCE Delivery WITH
    sender <- SenderThere, receiver <- ReceiverThere

\* Messages arrive once and in order, none is refused while the receiver is
\* there, and the receiver is told that there is no more only when there is.
KeepsPromise == Promise!Spec

\* A receiver that waits is woken and gets the message that is there, or the
\* news that the sender has left (channel.rs:261, 308).
Heard ==
    /\ \A m \in Message : pc[R] = "waiting" /\ at[m] = "channel" ~> at[m] = "receiver"
    /\ pc[R] = "waiting" /\ pc[S] = "gone" ~> pc[R] \in {"idle", "gone"}

\* A TrackSend that waits is woken and Ready when its message has been received,
\* or refused for the receiver is gone (channel.rs:92, 152, 182, 214).
Confirmed ==
    pc[S] = "waiting" /\ (value = NoMessage \/ pc[R] = "gone") ~> pc[S] \in {"idle", "gone"}
=============================================================================
