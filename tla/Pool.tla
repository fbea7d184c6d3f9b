-------------------------------- MODULE Pool ---------------------------------
(***************************************************************************)
(* The resource pool (src/async-resource/src/pool, shared, resource).      *)
(*                                                                         *)
(* Clients run the state machine of Acquire, hold a Managed resource and   *)
(* drop it.  The manager thread keeps the list of locks, the timers and    *)
(* the waiters.  Workers are the executor's tasks that finish a create or  *)
(* verify future nobody waits for any more.  Drainers call Pool::drain.    *)
(* They share the resource locks, the idle queue, the event and register   *)
(* queues and three counters; each access to one of these is a step.       *)
(*                                                                         *)
(* A resource lives in a lock; whoever holds the lock's guard holds the    *)
(* resource.  Time is abstract: a timer whose kind may elapse does so at   *)
(* any moment after the manager has it.  The Suspend between the threads   *)
(* and the manager is one flag, as module Notification has it.             *)
(***************************************************************************)
EXTENDS Integers, Sequences, FiniteSets, SequencesExt

CONSTANTS
    Client, Worker, Drainer, Manager,
    Lock,           \* the ResourceLocks; one that nothing refers to is free
    Ticket,         \* the waiter pairs; likewise
    NoLock, NoTicket,
    Configs,        \* the pools, and the programs that use them: a set of
                    \* PoolConfigs
    UsizeMax        \* the largest usize

\* What the options of PoolConfig come to.  max_count zero is no maximum, and a
\* max_waiters of None any number that the waiters do not reach.  elapses are the kinds of
\* timers that elapse; on_release, on_create and on_verify what the callbacks
\* may answer and how their futures may end, with no verify callback where
\* on_verify is empty; may is what the program does beside acquiring and
\* releasing.  clients are the threads that acquire, and
\* acquire_bound is a bound: how many times they do so in all.
PoolConfig ==
    [ clients : SUBSET Client, acquire_bound : Nat,
      min_count : Nat, max_count : Nat, max_waiters : Nat,
      idle_timeout : BOOLEAN,
      elapses    : SUBSET {"verify", "waiter", "drain"},
      on_release : SUBSET BOOLEAN,
      on_create  : SUBSET {"ok", "err"},
      on_verify  : SUBSET {"verified", "rejected", "err"},
      may        : SUBSET {"discard", "abandon", "drain", "close"} ]

\* No two of the names that threads, locks and waiter pairs have here are the same.
ASSUME NamesAssumption ==
    /\ Client \cap Worker = {} /\ Drainer \cap (Client \cup Worker) = {}
    /\ Manager \notin Client \cup Worker \cup Drainer
    /\ Ticket \cap Lock = {}
    /\ (Client \cup Worker \cup {Manager} \cup Drainer) \cap (Lock \cup Ticket) = {}
    /\ NoLock \notin Lock /\ NoTicket \notin Ticket
    /\ "pending" \notin Lock /\ "taken" \notin Lock

ASSUME PoolAssumption ==
    /\ Configs \subseteq PoolConfig
    /\ UsizeMax \in Nat
    /\ \A c \in Configs : c.max_count < UsizeMax /\ c.max_waiters <= UsizeMax

\* Every resource, and every future that creates one, has an address of its own.
ASSUME MemoryAssumption ==
    /\ IsFiniteSet(Client \cup Worker \cup Lock)
    /\ Cardinality(Client \cup Worker \cup Lock) <= UsizeMax

VARIABLES
    count, waiter_count,        \* Shared: the counters
    idle_queue, event_queue,    \* Shared: the queues
    register_inject, state,     \* PoolManageState
    lock,           \* lock[l]: the lock's state byte, Option and ResourceInfo
    letter,         \* letter[k]: what the sender of waiter k has done
    notified,       \* the manager's Suspend was notified since it listened
    pc,             \* pc[t]: where thread t is
    back,           \* back[t]: where t goes on after a release or a drop
    hand,           \* hand[t]: the lock thread t works on
    ticket,         \* ticket[c]: the waiter client c waits on
    seen,           \* seen[c]: the count client c last saw
    acquired,       \* how many acquisitions have begun
    handle,         \* handle[t]: the Pool (or PoolDrain) that thread t has
    \* the manager's own variables
    repo, timers, waiters,
    next_check,     \* whether the manager waits with a deadline
    todo,           \* the locks the manager's drain has still to try
    disposed,       \* whether dispose_count has moved since it was last read
    config          \* the one of Configs that this is about; it does not change

counters == <<count, waiter_count>>
queues == <<idle_queue, event_queue, register_inject>>
client == <<ticket, seen, acquired>>
manager == <<repo, timers, waiters, next_check, todo>>
vars == <<counters, queues, state, lock, letter, notified, pc, back, hand,
          client, manager, disposed, handle, config>>

MinCount == config.min_count
MaxCount == config.max_count
MaxWaiters == config.max_waiters
IdleTimeout == config.idle_timeout

Thread == Client \cup Worker \cup {Manager}

\* Where a thread holds the guard of the lock in its hand.
Guarded == {"peek", "creating", "verifying", "managed", "release", "recheck",
            "dispose", "dispose_count", "unlock", "send"}
\* Where it is inside Shared::release, after the guard is gone.
Returning == {"return", "tell"}

ClientPlace == {"idle", "init", "pop", "lock", "count", "cas", "create", "wait",
                "register", "notify", "notify again", "waiting"}
ManagerPlace == {"timers", "events", "registers", "waiters", "skip", "pop", "lock",
                 "decrement", "state", "drain", "park", "stopped"}
DrainerPlace == {"idle", "notify", "draining", "drained", "undrained",
                 "notify drained", "notify undrained"}

Place(t) ==
    CASE t \in Client -> ClientPlace \cup Guarded \cup Returning
      [] t \in Worker -> {"idle"} \cup Guarded \cup Returning
      [] t = Manager  -> ManagerPlace \cup Guarded \cup Returning
      [] OTHER        -> DrainerPlace
Somewhere == ClientPlace \cup ManagerPlace \cup DrainerPlace \cup Guarded \cup Returning

Entry == [kind : {"verify"}, of : Lock, current : BOOLEAN]
            \cup [kind : {"created"}, of : Lock, current : {TRUE}]
            \cup [kind : {"waiter"}, of : Ticket, current : {TRUE}]
            \cup [kind : {"drain"}, of : Drainer, current : {TRUE}]

ResourceLock == [ state : {"NONE", "SOME", "HELD"}, full : BOOLEAN,
                  reusable : BOOLEAN, expired : BOOLEAN ]

TypeOK ==
    /\ count \in 0..UsizeMax /\ waiter_count \in 0..UsizeMax
    /\ idle_queue \in Seq(Lock)
    /\ event_queue \in Seq(Entry) /\ register_inject \in Seq(Entry)
    /\ state \in {"ACTIVE", "DRAIN", "SHUTDOWN", "STOPPED"}
    /\ lock \in [Lock -> ResourceLock]
    /\ letter \in [Ticket -> {"pending", "taken"} \cup Lock]
    /\ notified \in BOOLEAN
    /\ pc \in [Thread \cup Drainer -> Somewhere]
    /\ \A t \in Thread \cup Drainer : pc[t] \in Place(t)
    /\ back \in [Thread -> ClientPlace \cup ManagerPlace]
    /\ hand \in [Thread -> Lock \cup {NoLock}]
    /\ ticket \in [Client -> Ticket \cup {NoTicket}]
    /\ seen \in [Client -> 0..UsizeMax]
    /\ acquired \in 0..config.acquire_bound
    /\ repo \subseteq Lock /\ todo \subseteq Lock
    /\ timers \in Seq(Entry) /\ waiters \in Seq(Ticket)
    /\ next_check \in BOOLEAN /\ disposed \in BOOLEAN
    /\ handle \in [Client \cup Drainer -> {"held", "last", "shut", "counted", "gone"}]
    /\ config \in Configs

\* A lock without a resource; its ResourceInfo is not read any more.
Empty == [state |-> "NONE", full |-> FALSE, reusable |-> FALSE, expired |-> FALSE]

Init ==
    /\ count = 0 /\ waiter_count = 0
    /\ idle_queue = <<>> /\ event_queue = <<>> /\ register_inject = <<>>
    /\ state = "ACTIVE"
    /\ lock = [l \in Lock |-> Empty]
    /\ letter = [k \in Ticket |-> "taken"]
    /\ notified = TRUE
    /\ pc = [t \in Thread \cup Drainer |-> IF t = Manager THEN "timers" ELSE "idle"]
    /\ back = [t \in Thread |-> "idle"]
    /\ hand = [t \in Thread |-> NoLock]
    /\ ticket = [c \in Client |-> NoTicket]
    /\ seen = [c \in Client |-> 0]
    /\ acquired = 0
    /\ repo = {} /\ todo = {} /\ timers = <<>> /\ waiters = <<>>
    /\ next_check = FALSE /\ disposed = FALSE
    /\ config \in Configs
    /\ handle = [t \in Client \cup Drainer |->
                    IF t \in config.clients \/ (t \in Drainer /\ "drain" \in config.may)
                      THEN "held" ELSE "gone"]

Goto(t, next) == pc' = [pc EXCEPT ![t] = next]

\* Thread t goes on at next and comes back at ret when it is done there.
Call(t, next, ret) == Goto(t, next) /\ back' = [back EXCEPT ![t] = ret]
Return(t) == Goto(t, back[t]) /\ back' = [back EXCEPT ![t] = "idle"]

Hold(t, l) == hand' = [hand EXCEPT ![t] = l]
LetGo(t) == Hold(t, NoLock)

\* Broken variant: a counter that goes below zero.
LessSigned(n) == n - 1

\* usize arithmetic: fetch_sub wraps.
Less(n) == (n - 1) % (UsizeMax + 1)
More(n) == (n + 1) % (UsizeMax + 1)

Named(entries) == {e.of : e \in Range(entries)}

\* What the program has no reference to, and may as well be new.
FreshLock == Lock \ (Range(idle_queue) \cup repo \cup Range(hand) \cup Range(letter)
                       \cup Named(event_queue) \cup Named(timers))
FreshTicket == Ticket \ (Range(ticket) \cup Range(waiters)
                           \cup Named(register_inject) \cup Named(timers))

Entered(kind, of) == [kind |-> kind, of |-> of, current |-> TRUE]

\* The `verify_at` of lock l moves on, and entries for l no longer match it.
Outdated(entries, l) ==
    [i \in DOMAIN entries |->
        IF entries[i].kind = "verify" /\ entries[i].of = l
          THEN [entries[i] EXCEPT !.current = FALSE] ELSE entries[i]]

IdleElapses == IdleTimeout /\ "verify" \in config.elapses

-----------------------------------------------------------------------------
(* Shared::release and Shared::dispose, run by whoever holds a guard. *)

\* The release callback has its say before the resource is kept: verify_at
\* is set, and the guard's drop opens the lock.
KeepOr(t, next) ==
    \E reuse \in config.on_release :
        IF reuse
          THEN /\ lock' = [lock EXCEPT ![hand[t]].state = "SOME"]
               /\ event_queue' = Outdated(event_queue, hand[t])
               /\ timers' = Outdated(timers, hand[t])
               /\ Goto(t, "return")
          ELSE /\ Goto(t, next)
               /\ UNCHANGED <<lock, event_queue, timers>>

\* check_reuse: is_busy() and count() are loads of their own.
Release(t) ==
    /\ pc[t] = "release"
    /\ LET held == lock[hand[t]] IN
          IF held.full /\ ~held.expired /\ (held.reusable \/ waiter_count > 0)
            THEN KeepOr(t, "dispose")
            ELSE /\ Goto(t, IF held.full /\ ~held.expired /\ MinCount > 0
                              THEN "recheck" ELSE "dispose")
                 /\ UNCHANGED <<lock, event_queue, timers>>
    /\ UNCHANGED <<counters, idle_queue, register_inject, state, letter, notified, back,
                   hand, client, repo, waiters, next_check, todo, disposed, handle, config>>

ReleaseRecheck(t) ==
    /\ pc[t] = "recheck"
    /\ IF count <= MinCount
         THEN KeepOr(t, "dispose")
         ELSE Goto(t, "dispose") /\ UNCHANGED <<lock, event_queue, timers>>
    /\ UNCHANGED <<counters, idle_queue, register_inject, state, letter, notified, back,
                   hand, client, repo, waiters, next_check, todo, disposed, handle, config>>

\* The lock is open, and only now goes to the manager and the idle queue.
ReleaseReturn(t) ==
    /\ pc[t] = "return"
    /\ event_queue' = IF IdleElapses THEN Append(event_queue, Entered("verify", hand[t]))
                                     ELSE event_queue
    /\ idle_queue' = Append(idle_queue, hand[t])
    /\ LetGo(t)
    /\ Goto(t, "tell")
    /\ UNCHANGED <<counters, register_inject, state, lock, letter, notified, back,
                   client, manager, disposed, handle, config>>

\* Broken variant: the manager is not told.
ReleaseQuietly(t) ==
    /\ pc[t] = "tell"
    /\ Return(t)
    /\ UNCHANGED <<counters, queues, state, lock, letter, notified, hand, client,
                   manager, disposed, handle, config>>

ReleaseTell(t) ==
    /\ pc[t] = "tell"
    /\ notified' = TRUE
    /\ Return(t)
    /\ UNCHANGED <<counters, queues, state, lock, letter, hand, client, manager,
                   disposed, handle, config>>

\* Broken variant: the resource is not taken out of the guard.
DisposeKeeps(t) ==
    /\ pc[t] = "dispose"
    /\ count' = Less(count)
    /\ Goto(t, "dispose_count")
    /\ UNCHANGED <<waiter_count, queues, state, lock, letter, notified, back, hand, client,
                   manager, disposed, handle, config>>

Dispose(t) ==
    /\ pc[t] = "dispose"
    /\ count' = Less(count)
    /\ lock' = [lock EXCEPT ![hand[t]].full = FALSE]
    /\ Goto(t, "dispose_count")
    /\ UNCHANGED <<waiter_count, queues, state, letter, notified, back, hand, client,
                   manager, disposed, handle, config>>

\* The manager is told before the guard is dropped.
DisposeTell(t) ==
    /\ pc[t] = "dispose_count"
    /\ disposed' = TRUE
    /\ notified' = TRUE
    /\ Goto(t, "unlock")
    /\ UNCHANGED <<counters, queues, state, lock, letter, back, hand, client, manager,
                   handle, config>>

\* Drop of a ResourceGuard without a value.
UnlockNone(t) ==
    /\ pc[t] = "unlock"
    /\ lock' = [lock EXCEPT ![hand[t]] = Empty]
    /\ LetGo(t)
    /\ Return(t)
    /\ UNCHANGED <<counters, queues, state, letter, notified, client, manager, disposed,
                   handle, config>>

-----------------------------------------------------------------------------
(* Shared::try_acquire_idle, run by clients and by the manager. *)

PopIdle(t) ==
    /\ pc[t] = "pop"
    /\ IF idle_queue = <<>>
         THEN /\ Goto(t, IF t = Manager THEN "state" ELSE "count")
              /\ UNCHANGED <<idle_queue, hand>>
         ELSE /\ Hold(t, Head(idle_queue))
              /\ idle_queue' = Tail(idle_queue)
              /\ Goto(t, "lock")
    /\ UNCHANGED <<counters, event_queue, register_inject, state, lock, letter,
                   notified, back, client, manager, disposed, handle, config>>

\* Broken variant: what the swap found is not looked at.
LockIdleBlind(t) ==
    /\ pc[t] = "lock"
    /\ lock' = [lock EXCEPT ![hand[t]].state = "HELD"]
    /\ IF lock[hand[t]].full
         THEN Goto(t, IF t = Manager THEN "send" ELSE "peek") /\ UNCHANGED back
         ELSE Call(t, "unlock", "pop")
    /\ UNCHANGED <<counters, queues, state, letter, notified, hand, client, manager,
                   disposed, handle, config>>

\* swap(HELD).  A lock that somebody holds, or whose resource is gone, is
\* left out of the queue.
LockIdle(t) ==
    /\ pc[t] = "lock"
    /\ lock' = [lock EXCEPT ![hand[t]].state = "HELD"]
    /\ IF lock[hand[t]].state = "HELD"
         THEN LetGo(t) /\ Goto(t, "pop") /\ UNCHANGED back
         ELSE /\ IF lock[hand[t]].full
                   THEN Goto(t, IF t = Manager THEN "send" ELSE "peek") /\ UNCHANGED back
                   ELSE Call(t, "unlock", "pop")
              /\ UNCHANGED hand
    /\ UNCHANGED <<counters, queues, state, letter, notified, client, manager, disposed,
                   handle, config>>

-----------------------------------------------------------------------------
(* Clients: the state machine of Acquire, and the Managed it ends with. *)

\* PoolInternal::try_acquire_idle: not while others wait.
CheckBusy(c) ==
    /\ Goto(c, IF waiter_count = 0 THEN "pop" ELSE "count")
    /\ UNCHANGED <<counters, queues, state, lock, letter, notified, back, hand, ticket,
                   seen, manager, disposed, handle, config>>

Acquire(c) ==
    /\ pc[c] = "idle"
    /\ handle[c] = "held"
    /\ acquired < config.acquire_bound
    /\ acquired' = acquired + 1
    /\ CheckBusy(c)

AcquireAgain(c) == pc[c] = "init" /\ CheckBusy(c) /\ UNCHANGED acquired

\* Acquire has a resource: an expired one goes back, and it starts again.
Resolved(c, expired) ==
    IF expired THEN Call(c, "release", "init")
               ELSE Goto(c, "managed") /\ UNCHANGED back

\* An idle resource whose verify_at is past is verified, or marked expired.
Peek(c) ==
    /\ pc[c] = "peek"
    /\ \/ Resolved(c, lock[hand[c]].expired) /\ UNCHANGED lock
       \/ /\ IdleElapses
          /\ IF config.on_verify # {}
               THEN Goto(c, "verifying") /\ UNCHANGED <<lock, back>>
               ELSE /\ lock' = [lock EXCEPT ![hand[c]].expired = TRUE]
                    /\ Call(c, "release", "pop")
    /\ UNCHANGED <<counters, queues, state, letter, notified, hand, client, manager,
                   disposed, handle, config>>

Room(n) == MaxCount = 0 \/ MaxCount > n

\* create_from_count()
CreateFromCount(c) ==
    /\ pc[c] = "count"
    /\ IF Room(count) THEN Goto(c, "cas") /\ seen' = [seen EXCEPT ![c] = count]
                      ELSE Goto(c, "wait") /\ UNCHANGED seen
    /\ UNCHANGED <<counters, queues, state, lock, letter, notified, back, hand, ticket,
                   acquired, manager, disposed, handle, config>>

\* Broken variant: a client that loses the race never gives up.
TooManyNever(found, last) == FALSE

\* try_create's loop around compare_exchange_weak: a client that loses the
\* race gives up only when it finds the maximum exceeded.
TooMany(found, last) == found > last /\ MaxCount # 0 /\ found > MaxCount

\* Broken variant: a store where the compare-exchange is.
UpdateCountStore(c) ==
    /\ pc[c] = "cas"
    /\ count' = More(seen[c]) /\ Goto(c, "create") /\ seen' = [seen EXCEPT ![c] = 0]
    /\ UNCHANGED <<waiter_count, queues, state, lock, letter, notified, back, hand,
                   ticket, acquired, manager, disposed, handle, config>>

UpdateCount(c) ==
    /\ pc[c] = "cas"
    /\ IF count = seen[c]
         THEN count' = More(count) /\ Goto(c, "create") /\ seen' = [seen EXCEPT ![c] = 0]
         ELSE /\ IF TooMany(count, seen[c])
                   THEN Goto(c, "wait") /\ seen' = [seen EXCEPT ![c] = 0]
                   ELSE UNCHANGED pc /\ seen' = [seen EXCEPT ![c] = count]
              /\ UNCHANGED count
    /\ UNCHANGED <<waiter_count, queues, state, lock, letter, notified, back, hand,
                   ticket, acquired, manager, disposed, handle, config>>

\* PoolInternal::create
Create(c) ==
    /\ pc[c] = "create"
    /\ \E l \in FreshLock :
          /\ lock' = [lock EXCEPT ![l] = [state |-> "HELD", full |-> FALSE,
                                         reusable |-> IdleTimeout, expired |-> FALSE]]
          /\ event_queue' = Append(event_queue, Entered("created", l))
          /\ Hold(c, l)
    /\ Goto(c, "creating")
    /\ UNCHANGED <<counters, idle_queue, register_inject, state, letter, notified, back,
                   client, manager, disposed, handle, config>>

\* try_increment_waiters(); without room the acquisition fails: PoolBusy.
TryWait(c) ==
    /\ pc[c] = "wait"
    /\ IF waiter_count < MaxWaiters
         THEN /\ waiter_count' = More(waiter_count)
              /\ \E k \in FreshTicket :
                    /\ ticket' = [ticket EXCEPT ![c] = k]
                    /\ letter' = [letter EXCEPT ![k] = "pending"]
              /\ Goto(c, "register")
         ELSE Goto(c, "idle") /\ UNCHANGED <<waiter_count, ticket, letter>>
    /\ UNCHANGED <<count, queues, state, lock, notified, back, hand, seen, acquired,
                   manager, disposed, handle, config>>

RegisterWaiter(c) ==
    /\ pc[c] = "register"
    /\ register_inject' = Append(register_inject, Entered("waiter", ticket[c]))
    /\ Goto(c, "notify")
    /\ UNCHANGED <<counters, idle_queue, event_queue, state, lock, letter, notified,
                   back, hand, client, manager, disposed, handle, config>>

\* register() notifies, and then so does try_wait().
NotifyManager(c) ==
    /\ \/ pc[c] = "notify" /\ Goto(c, "notify again")
       \/ pc[c] = "notify again" /\ Goto(c, "waiting")
    /\ notified' = TRUE
    /\ UNCHANGED <<counters, queues, state, lock, letter, back, hand, client, manager,
                   disposed, handle, config>>

\* The Waiter resolves with a resource, or was cancelled: Timeout.
Answered(c) ==
    /\ pc[c] = "waiting"
    /\ LET sent == letter[ticket[c]] IN
          /\ sent # "pending"
          /\ IF sent = "taken"
               THEN Goto(c, "idle") /\ UNCHANGED <<back, hand>>
               ELSE Hold(c, sent) /\ Resolved(c, lock[sent].expired)
    /\ letter' = [letter EXCEPT ![ticket[c]] = "taken"]
    /\ ticket' = [ticket EXCEPT ![c] = NoTicket]
    /\ UNCHANGED <<counters, queues, state, lock, notified, seen, acquired, manager,
                   disposed, handle, config>>

\* The future ends, polled by its client or by an executor's task.  When it
\* fails, the guard is dropped without a resource, and not disposed.
Fail(t) == Call(t, "unlock", "idle")

Complete(t, expired) ==
    IF t \in Client THEN Resolved(t, expired) ELSE Call(t, "release", "idle")

EndCreate(t) ==
    /\ pc[t] = "creating"
    /\ \/ /\ "ok" \in config.on_create
          /\ lock' = [lock EXCEPT ![hand[t]].full = TRUE]
          /\ Complete(t, FALSE)
       \/ "err" \in config.on_create /\ Fail(t) /\ UNCHANGED lock
    /\ UNCHANGED <<counters, queues, state, letter, notified, hand, client, manager,
                   disposed, handle, config>>

EndVerify(t) ==
    /\ pc[t] = "verifying"
    /\ \E outcome \in config.on_verify :
          IF outcome = "err"
            THEN Fail(t) /\ lock' = [lock EXCEPT ![hand[t]].full = FALSE]
            ELSE /\ lock' = [lock EXCEPT ![hand[t]].expired = (outcome = "rejected")]
                 /\ Complete(t, outcome = "rejected")
    /\ UNCHANGED <<counters, queues, state, letter, notified, hand, client, manager,
                   disposed, handle, config>>

\* Managed::discard
Discard(c) ==
    /\ "discard" \in config.may
    /\ pc[c] = "managed"
    /\ lock' = [lock EXCEPT ![hand[c]].reusable = FALSE]
    /\ UNCHANGED <<counters, queues, state, letter, notified, pc, back, hand, client,
                   manager, disposed, handle, config>>

DropManaged(c) ==
    /\ pc[c] = "managed"
    /\ Call(c, "release", "idle")
    /\ UNCHANGED <<counters, queues, state, lock, letter, notified, hand, client,
                   manager, disposed, handle, config>>

\* An Acquire is dropped before it is ready.  Its future goes to the
\* executor; its Waiter goes, with the resource that was sent to it.
AbandonFuture(c) ==
    /\ "abandon" \in config.may
    /\ pc[c] \in {"creating", "verifying"}
    /\ \E w \in Worker :
          /\ pc[w] = "idle"
          /\ pc' = [pc EXCEPT ![w] = pc[c], ![c] = "idle"]
          /\ hand' = [hand EXCEPT ![w] = hand[c], ![c] = NoLock]
    /\ UNCHANGED <<counters, queues, state, lock, letter, notified, back, client,
                   manager, disposed, handle, config>>

AbandonWaiter(c) ==
    /\ "abandon" \in config.may
    /\ pc[c] = "waiting"
    /\ LET sent == letter[ticket[c]] IN
          IF sent \in Lock
            THEN /\ Hold(c, sent)
                 /\ Call(c, "release", "idle")
                 /\ letter' = [letter EXCEPT ![ticket[c]] = "taken"]
            ELSE Goto(c, "idle") /\ UNCHANGED <<hand, back, letter>>
    /\ ticket' = [ticket EXCEPT ![c] = NoTicket]
    /\ UNCHANGED <<counters, queues, state, lock, notified, seen, acquired, manager,
                   disposed, handle, config>>

-----------------------------------------------------------------------------
(* The manager: PoolInternal::manage, one turn of its loop after another. *)

\* Whether the i-th timer may be the next to fire: those of one lock fire in
\* the order they were set.
Due(i) ==
    /\ timers[i].kind \in config.elapses
    /\ \A j \in 1..(i - 1) : timers[j].of # timers[i].of

\* Broken variants: a resource that was used again since the timer was set is
\* unlocked, not released; and it is released, but not listed again.
FireVerifyUnlock(i) ==
    LET old == timers[i].of
        res == lock[old]
    IN
    IF res.state = "HELD" \/ ~res.full \/ timers[i].current
      THEN UNCHANGED <<lock, repo, pc, back, hand>>
      ELSE \E new \in FreshLock :
             /\ lock' = [lock EXCEPT ![new] = res, ![old] = Empty]
             /\ repo' = (repo \ {old}) \cup {new}
             /\ UNCHANGED <<pc, back, hand>>

FireVerifyUnlisted(i) ==
    LET old == timers[i].of
        res == lock[old]
    IN
    IF res.state = "HELD"
      THEN UNCHANGED <<lock, repo, pc, back, hand>>
      ELSE \E new \in FreshLock :
             /\ lock' = [lock EXCEPT ![new] = [res EXCEPT !.state = "HELD"],
                                     ![old] = Empty]
             /\ repo' = repo \ {old}
             /\ Hold(Manager, new)
             /\ Call(Manager, "release", "timers")

\* A Verify timer locks the resource and moves it to a new lock, for the old
\* one is in the idle queue.  The lock may have been emptied since.
FireVerify(i) ==
    LET old == timers[i].of
        res == lock[old]
    IN
    IF res.state = "HELD"
      THEN UNCHANGED <<lock, repo, pc, back, hand>>
      ELSE \E new \in FreshLock :
             /\ lock' = [lock EXCEPT ![new] = [res EXCEPT !.state = "HELD"],
                                     ![old] = Empty]
             /\ IF res.full /\ timers[i].current
                  THEN /\ repo' = repo \ {old}
                       \* verify_or_dispose()
                       /\ IF res.reusable /\ config.on_verify # {} /\ count <= MinCount
                            THEN \E w \in Worker :
                                   /\ pc[w] = "idle"
                                   /\ Goto(w, "verifying")
                                   /\ Hold(w, new)
                                   /\ UNCHANGED back
                            ELSE Hold(Manager, new) /\ Call(Manager, "dispose", "timers")
                  ELSE /\ repo' = (repo \ {old}) \cup {new}
                       /\ Hold(Manager, new)
                       /\ Call(Manager, "release", "timers")

VerifyTimer ==
    /\ pc[Manager] = "timers"
    /\ \E i \in DOMAIN timers :
          /\ timers[i].kind = "verify" /\ Due(i)
          /\ timers' = RemoveAt(timers, i)
          /\ FireVerify(i)
    /\ UNCHANGED <<counters, queues, state, letter, notified, client, waiters,
                   next_check, todo, disposed, handle, config>>

\* Cancel the waiter, unless it was served; it stays in the list of waiters.
WaiterTimer ==
    /\ pc[Manager] = "timers"
    /\ \E i \in DOMAIN timers :
          /\ timers[i].kind = "waiter" /\ Due(i)
          /\ timers' = RemoveAt(timers, i)
          /\ letter' = [letter EXCEPT ![timers[i].of] = IF @ = "pending" THEN "taken" ELSE @]
    /\ UNCHANGED <<counters, queues, state, lock, notified, pc, back, hand, client,
                   repo, waiters, next_check, todo, disposed, handle, config>>

Draining(entries) == \E e \in Range(entries) : e.kind = "drain"

\* Where a thread is just about to notify the manager.
Telling(t) == pc[t] \in {"tell", "notify", "notify drained", "notify undrained"}

\* Where the answer to its drain finds drainer d: waiting for it, or not even there.
WhenDrained(d) == IF Telling(d) THEN "notify drained" ELSE "drained"
WhenUndrained(d) == IF Telling(d) THEN "notify undrained" ELSE "undrained"

\* The drain failed; the last one to fail sets the pool going again.
DrainTimer ==
    /\ pc[Manager] = "timers"
    /\ \E i \in DOMAIN timers :
          /\ timers[i].kind = "drain" /\ Due(i)
          /\ timers' = RemoveAt(timers, i)
          /\ Goto(timers[i].of, WhenUndrained(timers[i].of))
          /\ state' = IF Draining(timers') \/ state # "DRAIN" THEN state ELSE "ACTIVE"
    /\ UNCHANGED <<counters, queues, lock, letter, notified, back, hand, client, repo,
                   waiters, next_check, todo, disposed, handle, config>>

\* next_check is set from the timers of the turns before, and listen() makes
\* way for new notifications.
Listen ==
    /\ pc[Manager] = "timers"
    /\ next_check' = (timers # <<>>)
    /\ notified' = FALSE
    /\ Goto(Manager, "events")
    /\ UNCHANGED <<counters, queues, state, lock, letter, back, hand, client, repo,
                   timers, waiters, todo, disposed, handle, config>>

\* The loops that empty the two queues end with a pop that finds nothing, and
\* what they do before is nobody else's: each is one step.
VerifyAt(seq) == {i \in DOMAIN seq : seq[i].kind = "verify"}
WaiterAt(seq) == {i \in DOMAIN seq : seq[i].kind = "waiter" /\ letter[seq[i].of] = "pending"}
TimedAt(seq) == {i \in DOMAIN seq : seq[i].kind = "drain"}
                 \cup (IF "waiter" \in config.elapses THEN WaiterAt(seq) ELSE {})

\* The elements of seq at the indices in I, in their order.
Rank(I, i) == Cardinality({j \in I : j <= i})
Pick(seq, I) == [n \in 1..Cardinality(I) |-> seq[CHOOSE i \in I : Rank(I, i) = n]]

TakeEvents ==
    /\ pc[Manager] = "events"
    /\ repo' = repo \cup {e.of : e \in {x \in Range(event_queue) : x.kind = "created"}}
    /\ timers' = timers \o Pick(event_queue, VerifyAt(event_queue))
    /\ event_queue' = <<>>
    /\ Goto(Manager, "registers")
    /\ UNCHANGED <<counters, idle_queue, register_inject, state, lock, letter, notified,
                   back, hand, client, waiters, next_check, todo, disposed, handle, config>>

\* Broken variant: the manager listens only after it has read the queues.
TakeRegistersLate ==
    /\ pc[Manager] = "registers"
    /\ timers' = timers \o Pick(register_inject, TimedAt(register_inject))
    /\ LET joined == Pick(register_inject, WaiterAt(register_inject)) IN
          waiters' = waiters \o [i \in DOMAIN joined |-> joined[i].of]
    /\ state' = IF Draining(register_inject) /\ state = "ACTIVE" THEN "DRAIN" ELSE state
    /\ notified' = FALSE
    /\ register_inject' = <<>>
    /\ Goto(Manager, "waiters")
    /\ UNCHANGED <<counters, idle_queue, event_queue, lock, letter, back, hand, client,
                   repo, next_check, todo, disposed, handle, config>>

\* A Drain starts the drain, which notifies; a Waiter joins the waiters.
TakeRegisters ==
    /\ pc[Manager] = "registers"
    /\ timers' = timers \o Pick(register_inject, TimedAt(register_inject))
    /\ LET joined == Pick(register_inject, WaiterAt(register_inject)) IN
          waiters' = waiters \o [i \in DOMAIN joined |-> joined[i].of]
    /\ IF Draining(register_inject) /\ state = "ACTIVE"
         THEN state' = "DRAIN" /\ notified' = TRUE
         ELSE UNCHANGED <<state, notified>>
    /\ register_inject' = <<>>
    /\ Goto(Manager, "waiters")
    /\ UNCHANGED <<counters, idle_queue, event_queue, lock, letter, back, hand, client,
                   repo, next_check, todo, disposed, handle, config>>

\* What the first of these waiters calls for, the manager holding lock l.  The
\* resource of a waiter that would not have it is still in its hand.
NextWaiter(list, l) ==
    CASE list = <<>> /\ l = NoLock             -> "state"
      [] list = <<>> /\ l # NoLock             -> "release"
      [] list # <<>> /\ letter[Head(list)] # "pending" -> "skip"
      [] OTHER                                 -> IF l = NoLock THEN "pop" ELSE "send"

\* Waiters are looked at when there seems to be something for them.
CheckWaiters ==
    /\ pc[Manager] = "waiters"
    /\ Goto(Manager, IF idle_queue # <<>> \/ Room(count)
                       THEN NextWaiter(waiters, NoLock) ELSE "state")
    /\ UNCHANGED <<counters, queues, state, lock, letter, notified, back, hand, client,
                   manager, disposed, handle, config>>

DecrementWaiters(list) ==
    /\ waiter_count' = Less(waiter_count)
    /\ Call(Manager, NextWaiter(list, hand[Manager]), "state")
    /\ UNCHANGED <<count, queues, state, lock, letter, notified, hand, client, repo,
                   timers, next_check, todo, disposed, handle, config>>

\* Broken variant: a cancelled waiter is not taken off the count.
SkipUncounted ==
    /\ pc[Manager] = "skip"
    /\ waiters' = Tail(waiters)
    /\ Call(Manager, NextWaiter(waiters', hand[Manager]), "state")
    /\ UNCHANGED <<counters, queues, state, lock, letter, notified, hand, client, repo,
                   timers, next_check, todo, disposed, handle, config>>

SkipWaiter ==
    /\ pc[Manager] = "skip"
    /\ waiters' = Tail(waiters)
    /\ DecrementWaiters(waiters')

Send ==
    /\ pc[Manager] = "send"
    /\ LET k == Head(waiters) IN
          IF \E c \in Client : ticket[c] = k
            THEN letter' = [letter EXCEPT ![k] = hand[Manager]] /\ LetGo(Manager)
            ELSE letter' = [letter EXCEPT ![k] = "taken"] /\ UNCHANGED hand
    /\ waiters' = Tail(waiters)
    /\ Goto(Manager, "decrement")
    /\ UNCHANGED <<counters, queues, state, lock, notified, back, client, repo, timers,
                   next_check, todo, disposed, handle, config>>

CountServed ==
    /\ pc[Manager] = "decrement"
    /\ DecrementWaiters(waiters)
    /\ UNCHANGED waiters

Present == {l \in repo : lock[l].state # "NONE"}

\* Draining, or clean up the repo if anything was disposed.
CheckState ==
    /\ pc[Manager] = "state"
    /\ IF state = "DRAIN"
         THEN todo' = repo /\ Goto(Manager, "drain") /\ UNCHANGED <<repo, disposed>>
         ELSE /\ repo' = IF disposed THEN Present ELSE repo
              /\ disposed' = FALSE
              /\ Goto(Manager, "park")
              /\ UNCHANGED todo
    /\ UNCHANGED <<counters, queues, state, lock, letter, notified, back, hand, client,
                   timers, waiters, next_check, handle, config>>

\* Dispose whatever can be locked, the locks without a resource included.
DrainLock ==
    /\ pc[Manager] = "drain"
    /\ \E l \in todo :
          /\ todo' = todo \ {l}
          /\ lock' = [lock EXCEPT ![l].state = "HELD"]
          /\ IF lock[l].state = "HELD"
               THEN UNCHANGED <<pc, back, hand>>
               ELSE Hold(Manager, l) /\ Call(Manager, "dispose", "drain")
    /\ UNCHANGED <<counters, queues, state, letter, notified, client, repo, timers,
                   waiters, next_check, disposed, handle, config>>

\* The repo is empty: the drains succeed, the waiters are dropped, and the
\* state is set as the thread ends.
DrainRetain ==
    /\ pc[Manager] = "drain" /\ todo = {}
    /\ repo' = Present
    /\ IF Present # {}
         THEN Goto(Manager, "park") /\ UNCHANGED <<state, letter, timers, waiters>>
         ELSE /\ pc' = [t \in DOMAIN pc |->
                          IF t = Manager THEN "stopped"
                          ELSE IF t \in Named(timers) THEN WhenDrained(t) ELSE pc[t]]
              /\ letter' = [k \in Ticket |->
                              IF letter[k] = "pending" /\ k \in Named(timers) \cup Range(waiters)
                                THEN "taken" ELSE letter[k]]
              /\ state' = "STOPPED"
              /\ timers' = <<>> /\ waiters' = <<>>
    /\ UNCHANGED <<counters, queues, lock, notified, back, hand, client, next_check,
                   todo, disposed, handle, config>>

\* listener.wait(), or wait_deadline() when a deadline was known.
Park ==
    /\ pc[Manager] = "park"
    /\ \/ notified
       \/ next_check /\ (\E i \in DOMAIN timers : Due(i))
    /\ next_check' = FALSE
    /\ Goto(Manager, "timers")
    /\ UNCHANGED <<counters, queues, state, lock, letter, notified, back, hand, client,
                   repo, timers, waiters, todo, disposed, handle, config>>

-----------------------------------------------------------------------------
(* Pool::drain *)

Drain(d) ==
    /\ handle[d] = "held"
    /\ pc[d] = "idle"
    /\ register_inject' = Append(register_inject, Entered("drain", d))
    /\ Goto(d, "notify")
    /\ UNCHANGED <<counters, idle_queue, event_queue, state, lock, letter, notified,
                   back, hand, client, manager, disposed, handle, config>>

DrainNotify(d) ==
    /\ \/ pc[d] = "notify" /\ Goto(d, "draining")
       \/ pc[d] = "notify drained" /\ Goto(d, "drained")
       \/ pc[d] = "notify undrained" /\ Goto(d, "undrained")
    /\ notified' = TRUE
    /\ UNCHANGED <<counters, queues, state, lock, letter, back, hand, client, manager,
                   disposed, handle, config>>

-----------------------------------------------------------------------------
(* The handles: Pools, and the PoolDrain that a Pool becomes.  They hold a *)
(* Sentinel, whose drop looks whether it was the last.                     *)

\* No method of the handle's is running; a resource may outlive it.
MayDrop(t) == pc[t] \in {"idle", "managed", "draining", "drained", "undrained"}

\* ref_count() still counts this handle: two that are dropped at once may each
\* find that the other is left.
DropHandle(t) ==
    /\ "close" \in config.may
    /\ handle[t] = "held" /\ MayDrop(t)
    /\ LET others == {u \in DOMAIN handle \ {t} : handle[u] # "gone"} IN
          handle' = [handle EXCEPT ![t] = IF others = {} THEN "last" ELSE "counted"]
    /\ UNCHANGED <<counters, queues, state, lock, letter, notified, pc, back, hand,
                   client, manager, disposed, config>>

\* start_drain(true)
ShutDown(t) ==
    /\ handle[t] = "last"
    /\ IF state = "STOPPED"
         THEN handle' = [handle EXCEPT ![t] = "counted"] /\ UNCHANGED state
         ELSE handle' = [handle EXCEPT ![t] = "shut"] /\ state' = "SHUTDOWN"
    /\ UNCHANGED <<counters, queues, lock, letter, notified, pc, back, hand, client,
                   manager, disposed, config>>

ShutDownNotify(t) ==
    /\ handle[t] = "shut"
    /\ handle' = [handle EXCEPT ![t] = "counted"]
    /\ notified' = TRUE
    /\ UNCHANGED <<counters, queues, state, lock, letter, pc, back, hand, client,
                   manager, disposed, config>>

Uncount(t) ==
    /\ handle[t] = "counted"
    /\ handle' = [handle EXCEPT ![t] = "gone"]
    /\ UNCHANGED <<counters, queues, state, lock, letter, notified, pc, back, hand,
                   client, manager, disposed, config>>

-----------------------------------------------------------------------------

Releasing(t) ==
    \/ Release(t)
    \/ ReleaseRecheck(t)
    \/ ReleaseReturn(t)
    \/ ReleaseTell(t)
    \/ Dispose(t)
    \/ DisposeTell(t)
    \/ UnlockNone(t)

Dropping(t) ==
    \/ ShutDown(t)
    \/ ShutDownNotify(t)
    \/ Uncount(t)

\* What a client does once it has begun to acquire, until it has released.
ClientStep(c) ==
    \/ AcquireAgain(c)
    \/ PopIdle(c)
    \/ LockIdle(c)
    \/ Peek(c)
    \/ CreateFromCount(c)
    \/ UpdateCount(c)
    \/ Create(c)
    \/ TryWait(c)
    \/ RegisterWaiter(c)
    \/ NotifyManager(c)
    \/ Answered(c)
    \/ EndCreate(c)
    \/ EndVerify(c)
    \/ DropManaged(c)
    \/ Releasing(c)
    \/ Dropping(c)

ClientChoice(c) ==
    \/ Acquire(c)
    \/ DropHandle(c)
    \/ Discard(c)
    \/ AbandonFuture(c)
    \/ AbandonWaiter(c)

WorkerStep(w) ==
    \/ EndCreate(w)
    \/ EndVerify(w)
    \/ Releasing(w)

DrainerStep(d) ==
    \/ DrainNotify(d)
    \/ Dropping(d)

ManagerStep ==
    \/ VerifyTimer
    \/ WaiterTimer
    \/ DrainTimer
    \/ Listen
    \/ TakeEvents
    \/ TakeRegisters
    \/ CheckWaiters
    \/ SkipWaiter
    \/ PopIdle(Manager)
    \/ LockIdle(Manager)
    \/ Send
    \/ CountServed
    \/ CheckState
    \/ DrainLock
    \/ DrainRetain
    \/ Park
    \/ Releasing(Manager)

Next ==
    \/ \E c \in Client : ClientStep(c) \/ ClientChoice(c)
    \/ \E w \in Worker : WorkerStep(w)
    \/ ManagerStep
    \/ \E d \in Drainer : DrainerStep(d) \/ Drain(d) \/ DropHandle(d)

Spec == Init /\ [][Next]_vars

\* Every thread runs on, a future that is polled ends, and whoever holds a
\* resource drops it some day.  Nobody need acquire, discard, abandon or drain.
FairSpec ==
    /\ Spec
    /\ \A c \in Client : WF_vars(ClientStep(c))
    /\ \A w \in Worker : WF_vars(WorkerStep(w))
    /\ \A d \in Drainer : WF_vars(DrainerStep(d))
    /\ WF_vars(ManagerStep)

-----------------------------------------------------------------------------
(* Properties *)

\* Where the guard of lock l is.  A resource that was refused by one waiter
\* stays with the manager while it looks for the next.
GuardOf(t) ==
    \/ pc[t] \in Guarded
    \/ t = Manager /\ pc[t] \in {"skip", "decrement"}

Guards(l) == {t \in Thread : hand[t] = l /\ GuardOf(t)} \cup {k \in Ticket : letter[k] = l}

\* A resource is with one holder at a time (lock.rs:54-61, 155-160), be it
\* a client, a message to a client, a future, the manager or the drain; and a
\* lock that reads HELD has a holder.
OneHolder ==
    \A l \in Lock :
        Cardinality(Guards(l)) = IF lock[l].state = "HELD" THEN 1 ELSE 0

\* The state byte tells whether there is a resource, and a resource nobody
\* holds is in the idle queue, or about to be put there: none is forgotten
\* when a consumer and the manager take turns at stale entries for it.
NothingLost ==
    \A l \in Lock :
        /\ lock[l].state # "HELD" => (lock[l].full <=> lock[l].state = "SOME")
        /\ lock[l].state = "SOME" =>
              \/ l \in Range(idle_queue)
              \/ \E t \in Thread : hand[t] = l /\ pc[t] \in {"return", "lock"}

Times(x, seq) == Cardinality({i \in DOMAIN seq : seq[i] = x})

\* Every waiter is listed once until it is answered, and waiter_count, by
\* which is_busy() and max_waiters go, counts those listed and in passing.
\* After the manager has stopped, nobody keeps either.
WaitersListed ==
    pc[Manager] # "stopped" =>
        /\ \A c \in Client :
              pc[c] \in {"notify", "notify again", "waiting"} /\ letter[ticket[c]] = "pending"
                => Times(ticket[c], waiters)
                     + Times(Entered("waiter", ticket[c]), register_inject) = 1
        /\ waiter_count = Len(waiters)
              + Cardinality({i \in DOMAIN register_inject : register_inject[i].kind = "waiter"})
              + Cardinality({c \in Client : pc[c] = "register"})
              + (IF pc[Manager] = "decrement" THEN 1 ELSE 0)

\* The manager sleeps without a wake-up only when there is nothing for it to
\* do: no timer to set, no registration, no waiter an idle resource is there
\* for, unless whoever caused it is just about to notify.
SleepsOnlyWhenIdle ==
    pc[Manager] = "park" /\ ~notified =>
        \/ /\ \A e \in Range(event_queue) : e.kind = "created"
           /\ register_inject = <<>>
           /\ waiters = <<>> \/ idle_queue = <<>>
        \/ \E t \in Client \cup Worker \cup Drainer : Telling(t)

\* The manager's list has every resource there is, or will have it when it
\* reads its events, so that a drain reaches it (pool.rs:268-277): the list
\* is cleaned up and re-keyed while consumers hold, release and dispose.  A
\* verify callback breaks this (pool.rs:155-160 leaves a resource that is
\* being verified out of the list for good).
DrainReaches ==
    pc[Manager] # "stopped" /\ config.on_verify = {} =>
        \A l \in Lock : lock[l].full =>
            \/ l \in repo
            \/ Entered("created", l) \in Range(event_queue)
            \/ hand[Manager] = l

Resources == {l \in Lock : lock[l].full}
BeingCreated == {t \in Client \cup Worker : pc[t] \in {"create", "creating"}}

\* The resources that clients use: who has a Managed, and where its resource is.
InUse == {<<c, hand[c]>> : c \in {d \in Client : pc[d] = "managed"}}

\* The pool lends its resources as Lending promises (managed.rs:7-12): nobody empties,
\* moves or hands on a resource that a client uses or that somebody else holds
\* (mod.rs:56-74, pool.rs:151-160, 268-273), what nobody holds stays where it is until
\* it is taken (mod.rs:173-190), and a client that gets one gets it with its lock
\* (acquire.rs:60-96, wait.rs:34-40).
Promise == INSTANCE Lending WITH
    Slot    <- Lock,
    Holder  <- Thread \cup Ticket,
    User    <- Client,
    stocked <- Resources,
    holders <- [l \in Lock |-> Guards(l)],
    lent    <- InUse

KeepsPromise == Promise!Spec

\* A Verify timer that is late (pool.rs:168), and the second turn of a drain
\* (pool.rs:270), dispose of a lock that was emptied before, and count goes below
\* the number there is, and below zero.
CountedOnce == ~IdleElapses /\ "drain" \notin config.may

\* Pool::count() is the number of allocated resources (pool.rs:479-483), those
\* that are being created included.  It is what every decision to create,
\* keep or dispose of a resource goes by.  A future that fails leaves it one too
\* high (operation.rs:134).
CountAllocated ==
    CountedOnce /\ "err" \notin config.on_create =>
        count = Cardinality(Resources) + Cardinality(BeingCreated)

\* The number of resources may exceed max_count (config.rs:111-113), but by one
\* at most: however many clients race to create, the test after a lost
\* compare-exchange (pool.rs:419) lets one too many through and no more.
OvershootByOne == CountedOnce /\ MaxCount # 0 => count <= MaxCount + 1

Acquiring(c) ==
    pc[c] \in {"pop", "lock", "peek", "count", "cas", "create", "creating", "verifying",
               "wait", "register", "notify", "notify again", "waiting"}

\* An acquisition ends, with a resource or an error (pool.rs:472-474), as long as
\* those who hold resources release them.  It may not when the pool is drained
\* meanwhile: nobody answers those who register after the manager has stopped.
Served ==
    "drain" \notin config.may => \A c \in Client : Acquiring(c) ~> ~Acquiring(c)

\* A drain whose PoolDrain is kept ends well when everybody releases what they
\* hold, for here its timeout is longer than anybody takes.  Whoever opens the
\* last lock has to wake the manager after that.
DrainEnds ==
    "drain" \notin config.elapses =>
        \A d \in Drainer : pc[d] = "draining" ~> pc[d] = "drained" \/ handle[d] # "held"

\* The same of a pool with no other handles: a drain that does not end well has
\* timed out "due to unreleased resources or clones of the `Pool` instance"
\* (pool.rs:537-540).
DrainEndsAlone ==
    "drain" \notin config.elapses =>
        \A d \in Drainer :
            pc[d] = "draining" /\ (\A c \in Client : handle[c] = "gone")
              ~> pc[d] = "drained" \/ handle[d] # "held"
=============================================================================
