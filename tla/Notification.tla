---------------------------- MODULE Notification ----------------------------
(***************************************************************************)
(* What a Suspend promises to the one that listens on it: a wait returns   *)
(* only after a notification that came after listening began, whatever the *)
(* notifiers do, and a notification stays until the Listener is gone.      *)
(***************************************************************************)
VARIABLES
    phase,      \* what the listening thread does
    notified    \* notify() was called since it began to listen

nvars == <<phase, notified>>

\* A new Suspend, or a ListenOnce, which listens from the start.
Init ==
    \/ phase = "idle" /\ notified = TRUE
    \/ phase = "listening" /\ notified = FALSE

Listen == phase = "idle" /\ phase' = "listening" /\ notified' = FALSE

Wait == phase = "listening" /\ phase' = "waiting" /\ UNCHANGED notified

Notify == notified' = TRUE /\ UNCHANGED phase

\* wait() returns, or the awaited Listener is ready.
Return == phase = "waiting" /\ notified /\ phase' = "done" /\ UNCHANGED notified

\* The deadline passes and the caller has the Listener back.
Expire == phase = "waiting" /\ phase' = "listening" /\ UNCHANGED notified

\* The caller is not going to wait (any more).
Leave == phase = "listening" /\ phase' = "done" /\ UNCHANGED notified

\* The Listener is dropped; a ListenOnce changes nothing then.
Drop == phase = "done" /\ phase' = "idle" /\ (notified' = TRUE \/ UNCHANGED notified)

Next == Listen \/ Wait \/ Notify \/ Return \/ Expire \/ Leave \/ Drop

Spec == Init /\ [][Next]_nvars
=============================================================================
