------------------------------- MODULE MCPool -------------------------------
(* Instances of Pool for TLC. *)
EXTENDS Pool

CONSTANT Two    \* two of the clients: those of a program that has no third

Symmetric == Permutations(Two) \cup Permutations(Lock) \cup Permutations(Ticket)

\* One resource that is kept while it is idle, room for every waiter, no
\* callbacks but to create, nothing out of the ordinary.
Plain == [ clients |-> Client, acquire_bound |-> 3,
           min_count |-> 0, max_count |-> 1, max_waiters |-> 2, idle_timeout |-> TRUE,
           elapses |-> {}, on_release |-> {TRUE}, on_create |-> {"ok"},
           on_verify |-> {}, may |-> {} ]
KeptLong == [Plain EXCEPT !.acquire_bound = 4]
KeptDrained == [Plain EXCEPT !.acquire_bound = 2, !.may = {"drain"}]
KeptClosed == {[KeptDrained EXCEPT !.clients = {c}, !.may = {"drain", "close"}] : c \in Two}
Kept == {KeptLong, KeptDrained} \cup KeptClosed

\* No idle timeout, so that nothing is kept but for waiters.
Unkept == [Plain EXCEPT !.idle_timeout = FALSE]
UnkeptBriefly == [Unkept EXCEPT !.acquire_bound = 2]
NotKept == {UnkeptBriefly}
NotKeptDrained == {[UnkeptBriefly EXCEPT !.clients = {c}, !.may = {"drain", "close"}]
                      : c \in Two}

\* An idle timeout with a verify callback: verify timers, stale timers, futures
\* that fail or are abandoned, callbacks that refuse; nobody can wait.
Verified == [Plain EXCEPT !.clients = Two, !.min_count = 1, !.max_waiters = 0,
                          !.elapses = {"verify"},
                          !.on_verify = {"verified", "rejected", "err"},
                          !.may = {"abandon"}]
VerifiedBriefly == [Verified EXCEPT !.acquire_bound = 2, !.on_create = {"ok", "err"},
                                    !.may = {"discard", "abandon"}]

\* An idle timeout without one, and waiters; or a drain that may time out.
Timed == [Plain EXCEPT !.clients = Two, !.elapses = {"verify"}]
Drained == [Timed EXCEPT !.acquire_bound = 2, !.elapses = {"verify", "drain"},
                         !.may = {"drain"}]

\* All clients race to create; or two do, whose waiters may time out or give up,
\* and a release callback may refuse.
Racing == Unkept
Waiting == [Unkept EXCEPT !.clients = Two, !.elapses = {"waiter"}, !.on_release = BOOLEAN]
GivingUp == [Waiting EXCEPT !.acquire_bound = 2, !.may = {"abandon"}]

\* One client, and a drain that may time out, each dropping its handle.
Closed == {[Drained EXCEPT !.clients = {c}, !.elapses = {"drain"},
                           !.may = {"drain", "close"}] : c \in Two}

AllKinds == {Verified, VerifiedBriefly, Timed, Drained, Racing, Waiting, GivingUp}
                \cup Closed
=============================================================================
