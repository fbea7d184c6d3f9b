------------------------------ MODULE Delivery ------------------------------
(***************************************************************************)
(* What a channel of suspend promises (src/suspend/src/channel.rs): a      *)
(* message is with its sender, in the channel or with the receiver; they   *)
(* arrive one by one and in order.  The sender gets one back only if the   *)
(* receiver is gone, and the receiver hears that there is no more only if  *)
(* the sender is gone and everything it sent has arrived.                  *)
(***************************************************************************)
EXTENDS Integers

CONSTANT Message    \* 1..n, in the order in which they are sent

VARIABLES
    at,         \* at[m]: where message m is
    sender,     \* whether the sender is still there
    receiver,   \* whether the receiver is
    ended       \* the receiver was told that there is no more

dvars == <<at, sender, receiver, ended>>

InChannel == {m \in Message : at[m] = "channel"}

Init ==
    /\ at = [m \in Message |-> "sender"]
    /\ sender = TRUE /\ receiver = TRUE /\ ended = FALSE

\* An end may leave by itself, or with any of its steps.
MayLeave(there) == there' \in {there, FALSE}

Send(m) ==
    /\ sender /\ at[m] = "sender" /\ InChannel = {}
    /\ \A n \in Message : n > m => at[n] = "sender"
    /\ at' = [at EXCEPT ![m] = "channel"]
    /\ MayLeave(sender)
    /\ UNCHANGED <<receiver, ended>>

\* A receiver on its way out may still take what is there.
Receive(m) ==
    /\ at[m] = "channel"
    /\ at' = [at EXCEPT ![m] = "receiver"]
    /\ MayLeave(receiver)
    /\ UNCHANGED <<sender, ended>>

TakeBack(m) ==
    /\ at[m] = "channel" /\ ~receiver
    /\ at' = [at EXCEPT ![m] = "sender"]
    /\ MayLeave(sender)
    /\ UNCHANGED <<receiver, ended>>

\* The receiver is told that there is no more.
End ==
    /\ ~sender /\ InChannel = {}
    /\ ended' = TRUE
    /\ MayLeave(receiver)
    /\ UNCHANGED <<at, sender>>

Leave ==
    /\ MayLeave(sender) /\ MayLeave(receiver)
    /\ UNCHANGED <<at, ended>>

Next ==
    \/ \E m \in Message : Send(m) \/ Receive(m) \/ TakeBack(m)
    \/ End
    \/ Leave

Spec == Init /\ [][Next]_dvars
=============================================================================
