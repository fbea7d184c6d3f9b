------------------------------ MODULE MCChannel ------------------------------
(* Instances of Channel for TLC. *)
EXTENDS Channel

\* A ReceiveOnce that was Ready is polled again as a Stream, and waits for ever: a TrackSend
\* goes without telling it.
Asks(u) == u.once /\ {"poll", "repoll"} \subseteq u.recv /\ "track" \in u.send

\* The uses that keep the promise.
SoundUsage == {u \in Usages : Disciplined(u) /\ ~Asks(u)}
=============================================================================
