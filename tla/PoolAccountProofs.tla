-------------------------- MODULE PoolAccountProofs --------------------------
(***************************************************************************)
(* What a Pool keeps account of, for any clients, workers, drainers,       *)
(* locks, waiters and configurations: the manager's list of the resources, *)
(* what the manager is told of, how many resources there are, and which    *)
(* clients wait for one.                                                   *)
(***************************************************************************)
EXTENDS PoolProofs

(* The inductive invariants. *)

\* The manager has a resource in its list, or will have it, or is disposing of it.
Reached(l) ==
    \/ l \in repo
    \/ Entered("created", l) \in Range(event_queue)
    \/ hand[Manager] = l /\ pc[Manager] = "dispose"
Listed ==
    pc[Manager] # "stopped" /\ config.on_verify = {} =>
        /\ \A l \in Lock : lock[l].full => Reached(l)
        /\ \A t \in Thread : pc[t] = "creating" => Reached(hand[t])

\* The manager was notified since it listened, or is about to be.
Told == notified \/ \E t \in Thread \cup Drainer : Telling(t)

\* Where the manager has done what it could for the waiters.
Attentive ==
    \/ pc[Manager] \in {"state", "drain", "park", "timers"}
    \/ pc[Manager] \in Leaving /\ back[Manager] # "pop"

\* A manager that is not told of it has nothing left to do behind it.
Awake ==
    ~Told =>
        /\ pc[Manager] # "events" => \A e \in Range(event_queue) : e.kind = "created"
        /\ pc[Manager] \notin {"events", "registers"} => register_inject = <<>>
        /\ Attentive => waiters = <<>> \/ idle_queue = <<>>

-----------------------------------------------------------------------------
(* A drain reaches every resource. *)

\* What most steps leave of the manager's list, and of what it has still to read.
LEMMA ListedKeeps ==
  ASSUME Listed, UNCHANGED <<repo, config>>,
         \A l \in Lock : Entered("created", l) \in Range(event_queue)
                           => Entered("created", l) \in Range(event_queue'),
         pc[Manager] = "dispose" => pc'[Manager] = "dispose" /\ hand'[Manager] = hand[Manager],
         pc[Manager] = "stopped" => pc'[Manager] = "stopped",
         \A t \in Thread : pc[t] = "creating" => hand[t] \in Lock,
         \A l \in Lock : lock'[l].full =>
            lock[l].full \/ (\E t \in Thread : pc[t] = "creating" /\ hand[t] = l),
         \A t \in Thread : pc'[t] = "creating" =>
            \E u \in Thread : pc[u] = "creating" /\ hand[u] = hand'[t]
  PROVE  Listed'
<1>1. \A l \in Lock : Reached(l) => Reached(l)'
  BY DEF Reached
<1>. QED
  BY <1>1 DEF Listed

\* Outdating an entry, or adding one, removes none of a resource's creation.
LEMMA OutdatedCreated ==
  ASSUME NEW seq \in Seq(Entry), NEW l, NEW m, Entered("created", m) \in Range(seq)
  PROVE  Entered("created", m) \in Range(Outdated(seq, l))
<1>1. PICK i \in DOMAIN seq : seq[i] = Entered("created", m)
  BY DEF Range
<1>2. seq[i].kind # "verify"
  BY <1>1 DEF Entered
<1>3. Outdated(seq, l)[i] = seq[i] /\ i \in DOMAIN Outdated(seq, l)
  BY <1>2, OutdatedEntries
<1>. QED
  BY <1>1, <1>3 DEF Range

\* There is no resource at first that a drain need reach.
LEMMA ListedInit == Init => Listed
  BY DEF Init, Listed, Empty

\* A step that makes a resource, moves it to a new lock, or cleans up the list leaves
\* it in the list or among the events.
LEMMA ListedStep == Sound /\ Sound' /\ Listed /\ [Next]_vars => Listed'
<1>. SUFFICES ASSUME Sound, Sound', Listed, [Next]_vars PROVE Listed'
  OBVIOUS
<1>0. /\ Client \subseteq Thread /\ Worker \subseteq Thread /\ Manager \in Thread
      /\ Manager \notin Client /\ Client \cap Worker = {} /\ Manager \notin Worker
      /\ \A u \in Thread : PlacedAt(u)
      /\ TypeOK /\ TypeOK' /\ Exclusive /\ Stowed
      /\ \A u \in Thread : pc[u] = "creating" => hand[u] \in Lock /\ GuardOf(u)
  BY NamesAssumption
  DEF Thread, Sound, Placed, PlacedAt, Handling, Guarded, GuardOf
<1>. USE DEF counters, queues, client, manager, Goto, Call, Return, Hold, LetGo
\* What changes neither the list nor the locks' contents, and creates nothing.
<1>1. ASSUME NEW t \in Thread, UNCHANGED <<repo, config>>,
             \A u \in Thread \ {t} : pc'[u] = pc[u] /\ hand'[u] = hand[u],
             \A l \in Lock : Entered("created", l) \in Range(event_queue)
                               => Entered("created", l) \in Range(event_queue'),
             t = Manager => pc[t] \notin {"dispose", "stopped"},
             pc'[t] # "creating",
             \A l \in Lock : lock'[l].full =>
                lock[l].full \/ (\E u \in Thread : pc[u] = "creating" /\ hand[u] = l)
      PROVE  Listed'
  BY <1>0, <1>1, ListedKeeps
<1>2. ASSUME NEW t \in Thread, Release(t) \/ ReleaseRecheck(t) PROVE Listed'
  <2>1. /\ pc[t] \in {"release", "recheck"} /\ pc'[t] # "creating"
        /\ \A u \in Thread \ {t} : pc'[u] = pc[u] /\ hand'[u] = hand[u]
        /\ UNCHANGED <<repo, config>>
    BY <1>0, <1>2 DEF Release, ReleaseRecheck, KeepOr, TypeOK
  <2>2. hand[t] \in Lock
    BY <1>0, <2>1 DEF PlacedAt, Handling, Guarded
  <2>3. lock' = lock \/ lock' = [lock EXCEPT ![hand[t]].state = "SOME"]
    BY <1>2 DEF Release, ReleaseRecheck, KeepOr
  <2>4. \A l \in Lock : lock'[l].full = lock[l].full
    BY <1>0, <2>2, <2>3, Wrote DEF TypeOK
  <2>5. event_queue' = event_queue \/ event_queue' = Outdated(event_queue, hand[t])
    BY <1>2 DEF Release, ReleaseRecheck, KeepOr
  <2>6. \A l \in Lock : Entered("created", l) \in Range(event_queue)
                          => Entered("created", l) \in Range(event_queue')
    BY <1>0, <2>5, OutdatedCreated DEF TypeOK
  <2>. QED
    BY <1>1, <2>1, <2>4, <2>6
<1>3. ASSUME NEW t \in Thread, ReleaseReturn(t) PROVE Listed'
  <2>1. /\ pc[t] = "return" /\ pc'[t] # "creating"
        /\ \A u \in Thread \ {t} : pc'[u] = pc[u] /\ hand'[u] = hand[u]
        /\ UNCHANGED <<repo, config, lock>>
        /\ hand[t] \in Lock
    BY <1>0, <1>3 DEF ReleaseReturn, PlacedAt, Handling, TypeOK
  <2>2. Range(event_queue) \subseteq Range(event_queue')
    <3>1. Entered("verify", hand[t]) \in Entry
      BY <2>1 DEF Entered, Entry
    <3>. QED
      BY <1>0, <1>3, <3>1, RangeAppend DEF ReleaseReturn, TypeOK
  <2>. QED
    BY <1>1, <2>1, <2>2
<1>4. ASSUME NEW t \in Thread, ReleaseTell(t) \/ DisposeTell(t) \/ UnlockNone(t) PROVE Listed'
  <2>1. /\ pc[t] \in {"tell", "dispose_count", "unlock"}
        /\ \A u \in Thread \ {t} : pc'[u] = pc[u] /\ hand'[u] = hand[u]
        /\ UNCHANGED <<repo, config, event_queue>>
    BY <1>0, <1>4 DEF ReleaseTell, DisposeTell, UnlockNone, TypeOK
  <2>2. pc'[t] # "creating"
    BY <1>0, <1>4
    DEF ReleaseTell, DisposeTell, UnlockNone, PlacedAt, Leaving, Resumed, TypeOK
  <2>3. \A l \in Lock : lock'[l].full => lock[l].full
    <3>1. CASE lock' = lock
      BY <3>1
    <3>2. CASE UnlockNone(t)
      <4>1. hand[t] \in Lock /\ lock' = [lock EXCEPT ![hand[t]] = Empty]
        BY <1>0, <3>2 DEF UnlockNone, PlacedAt, Handling, Guarded
      <4>. QED
        BY <1>0, <4>1 DEF TypeOK, Empty
    <3>. QED
      BY <1>4, <3>1, <3>2 DEF ReleaseTell, DisposeTell
  <2>. QED
    BY <1>1, <2>1, <2>2, <2>3
\* What the manager disposes of need not be in the list any more.
<1>5. ASSUME NEW t \in Thread, Dispose(t) PROVE Listed'
  <2>. DEFINE l == hand[t]
  <2>1. /\ pc[t] = "dispose" /\ pc'[t] = "dispose_count" /\ l \in Lock /\ hand' = hand
        /\ \A u \in Thread \ {t} : pc'[u] = pc[u]
        /\ UNCHANGED <<repo, config, event_queue>>
    BY <1>0, <1>5 DEF Dispose, PlacedAt, Handling, Guarded, TypeOK
  <2>2. /\ lock'[l].full = FALSE
        /\ \A m \in Lock \ {l} : lock'[m] = lock[m]
    <3>1. lock' = [lock EXCEPT ![l].full = FALSE]
      BY <1>5 DEF Dispose
    <3>. QED
      BY <1>0, <2>1, <3>1, Wrote DEF TypeOK
  <2>3. \A m \in Lock \ {l} : Reached(m) => Reached(m)'
    BY <1>0, <2>1 DEF Reached
  <2>4. \A u \in Thread : pc'[u] = "creating" => pc[u] = "creating" /\ hand[u] \in Lock \ {l}
    <3>1. ASSUME NEW u \in Thread, pc'[u] = "creating" PROVE hand[u] # l
      <4>1. u # t /\ pc[u] = "creating" /\ GuardOf(u) /\ GuardOf(t)
        BY <1>0, <2>1, <3>1 DEF GuardOf, Guarded
      <4>2. hand[u] = l => Guards(l) = {u} /\ Guards(l) = {t}
        BY <1>0, <2>1, <4>1, GuardHolds
      <4>. QED
        BY <4>1, <4>2
    <3>2. \A u \in Thread : pc'[u] = "creating" => pc[u] = "creating"
      BY <2>1
    <3>. QED
      BY <1>0, <3>1, <3>2
  <2>5. pc[Manager] = "stopped" => pc'[Manager] = "stopped"
    BY <1>0, <2>1
  <2>. QED
    BY <2>1, <2>2, <2>3, <2>4, <2>5 DEF Listed
<1>6. ASSUME NEW t \in Client \cup {Manager}, PopIdle(t) \/ LockIdle(t) PROVE Listed'
  <2>1. /\ t \in Thread /\ pc[t] \in {"pop", "lock"} /\ pc'[t] # "creating"
        /\ \A u \in Thread \ {t} : pc'[u] = pc[u] /\ hand'[u] = hand[u]
        /\ UNCHANGED <<repo, config, event_queue>>
    BY <1>0, <1>6 DEF PopIdle, LockIdle, TypeOK
  <2>2. lock' = lock \/ (hand[t] \in Lock /\ lock' = [lock EXCEPT ![hand[t]].state = "HELD"])
    BY <1>0, <1>6, <2>1 DEF PopIdle, LockIdle, PlacedAt, Handling
  <2>3. \A m \in Lock : lock'[m].full = lock[m].full
    BY <1>0, <2>2, Wrote DEF TypeOK
  <2>. QED
    BY <1>1, <2>1, <2>3
\* Clients.
<1>7. ASSUME NEW c \in Client,
             \/ AcquireAgain(c) \/ Acquire(c) \/ CreateFromCount(c) \/ UpdateCount(c)
             \/ RegisterWaiter(c) \/ NotifyManager(c) \/ TryWait(c) \/ DropManaged(c)
             \/ Answered(c) \/ AbandonWaiter(c)
      PROVE  Listed'
  <2>1. UNCHANGED <<lock, event_queue, repo, config>>
    BY <1>7
    DEF AcquireAgain, Acquire, CheckBusy, CreateFromCount, UpdateCount, RegisterWaiter,
        NotifyManager, TryWait, DropManaged, Answered, AbandonWaiter
  <2>2. /\ \A u \in Thread \ {c} : pc'[u] = pc[u] /\ hand'[u] = hand[u]
        /\ pc'[c] # "creating"
    <3>1. CASE \/ AcquireAgain(c) \/ Acquire(c) \/ CreateFromCount(c) \/ UpdateCount(c)
               \/ DropManaged(c)
      BY <1>0, <3>1
      DEF AcquireAgain, Acquire, CheckBusy, CreateFromCount, UpdateCount, DropManaged, TypeOK
    <3>2. CASE RegisterWaiter(c) \/ NotifyManager(c) \/ TryWait(c)
      BY <1>0, <3>2 DEF RegisterWaiter, NotifyManager, TryWait, TypeOK
    <3>3. CASE Answered(c) \/ AbandonWaiter(c)
      BY <1>0, <3>3 DEF Answered, AbandonWaiter, Resolved, TypeOK
    <3>. QED
      BY <1>7, <3>1, <3>2, <3>3
  <2>. QED
    BY <1>0, <1>1, <2>1, <2>2
<1>8. ASSUME NEW c \in Client, Peek(c) \/ Discard(c) PROVE Listed'
  <2>1. /\ hand[c] \in Lock /\ UNCHANGED <<event_queue, repo, config>>
        /\ \A u \in Thread \ {c} : pc'[u] = pc[u] /\ hand'[u] = hand[u]
        /\ pc'[c] # "creating"
    BY <1>0, <1>8 DEF Peek, Resolved, Discard, PlacedAt, Handling, Guarded, TypeOK
  <2>2. \/ lock' = lock
        \/ lock' = [lock EXCEPT ![hand[c]].expired = TRUE]
        \/ lock' = [lock EXCEPT ![hand[c]].reusable = FALSE]
    BY <1>8 DEF Peek, Discard
  <2>3. \A m \in Lock : lock'[m].full = lock[m].full
    <3>1. CASE lock' = lock
      BY <3>1
    <3>2. CASE lock' = [lock EXCEPT ![hand[c]].expired = TRUE]
      BY <1>0, <2>1, <3>2, Wrote DEF TypeOK
    <3>3. CASE lock' = [lock EXCEPT ![hand[c]].reusable = FALSE]
      BY <1>0, <2>1, <3>3, Wrote DEF TypeOK
    <3>. QED
      BY <2>2, <3>1, <3>2, <3>3
  <2>. QED
    BY <1>0, <1>1, <2>1, <2>3
<1>9. ASSUME NEW t \in Client \cup Worker, EndCreate(t) \/ EndVerify(t) PROVE Listed'
  <2>1. /\ t \in Thread /\ UNCHANGED <<event_queue, repo, config, hand>>
        /\ \A u \in Thread \ {t} : pc'[u] = pc[u]
        /\ pc'[t] # "creating" /\ t # Manager
        /\ pc[t] \in {"creating", "verifying"}
    BY <1>0, <1>9 DEF EndCreate, EndVerify, Complete, Fail, Resolved, TypeOK
  <2>2. hand[t] \in Lock
    BY <1>0, <2>1 DEF PlacedAt, Handling, Guarded
  <2>3. \/ lock' = lock
        \/ pc[t] = "creating" /\ lock' = [lock EXCEPT ![hand[t]].full = TRUE]
        \/ lock' = [lock EXCEPT ![hand[t]].full = FALSE]
        \/ \E b \in BOOLEAN : lock' = [lock EXCEPT ![hand[t]].expired = b]
    BY <1>9 DEF EndCreate, EndVerify
  <2>4. \A m \in Lock : lock'[m].full =>
           lock[m].full \/ (\E u \in Thread : pc[u] = "creating" /\ hand[u] = m)
    <3>1. CASE pc[t] = "creating" /\ lock' = [lock EXCEPT ![hand[t]].full = TRUE]
      <4>1. \A m \in Lock \ {hand[t]} : lock'[m] = lock[m]
        BY <1>0, <2>2, <3>1, Wrote DEF TypeOK
      <4>. QED
        BY <2>1, <3>1, <4>1
    <3>2. CASE lock' = [lock EXCEPT ![hand[t]].full = FALSE]
      BY <1>0, <2>2, <3>2, Wrote DEF TypeOK
    <3>3. CASE \E b \in BOOLEAN : lock' = [lock EXCEPT ![hand[t]].expired = b]
      BY <1>0, <2>2, <3>3, Wrote DEF TypeOK
    <3>. QED
      BY <2>3, <3>1, <3>2, <3>3
  <2>. QED
    BY <1>1, <2>1, <2>4
<1>10. ASSUME NEW c \in Client, Create(c) PROVE Listed'
  <2>1. PICK l \in FreshLock :
          /\ lock' = [lock EXCEPT ![l] = [state |-> "HELD", full |-> FALSE,
                                          reusable |-> IdleTimeout, expired |-> FALSE]]
          /\ event_queue' = Append(event_queue, Entered("created", l))
          /\ Hold(c, l)
    BY <1>10 DEF Create
  <2>2. l \in Lock /\ Entered("created", l) \in Entry
    BY <1>0, <2>1, FreshOpen DEF Entered, Entry
  <2>3. Range(event_queue') = Range(event_queue) \cup {Entered("created", l)}
    BY <1>0, <2>1, <2>2, RangeAppend DEF TypeOK
  <2>4. /\ c \in Thread /\ pc'[c] = "creating" /\ hand'[c] = l /\ c # Manager
        /\ \A u \in Thread \ {c} : pc'[u] = pc[u] /\ hand'[u] = hand[u]
        /\ UNCHANGED <<repo, config>>
    BY <1>0, <1>10, <2>1 DEF Create, TypeOK
  <2>5. ~lock'[l].full /\ \A m \in Lock \ {l} : lock'[m] = lock[m]
    BY <1>0, <2>1, <2>2 DEF TypeOK
  <2>6. Reached(l)' /\ \A m \in Lock : Reached(m) => Reached(m)'
    BY <1>0, <2>3, <2>4 DEF Reached
  <2>7. \A u \in Thread : pc'[u] = "creating" => hand'[u] = l \/ (pc[u] = "creating" /\ hand'[u] = hand[u])
    BY <2>4
  <2>. QED
    BY <1>0, <2>4, <2>5, <2>6, <2>7 DEF Listed
<1>11. ASSUME NEW c \in Client, AbandonFuture(c) PROVE Listed'
  <2>1. PICK w \in Worker : /\ pc[w] = "idle" /\ pc[c] \in {"creating", "verifying"}
                           /\ pc' = [pc EXCEPT ![w] = pc[c], ![c] = "idle"]
                           /\ hand' = [hand EXCEPT ![w] = hand[c], ![c] = NoLock]
    BY <1>11 DEF AbandonFuture
  <2>2. /\ w # c /\ c \in Thread /\ w \in Thread /\ w # Manager /\ c # Manager
        /\ UNCHANGED <<lock, event_queue, repo, config>>
    BY <1>0, <1>11, <2>1 DEF AbandonFuture
  <2>3. /\ pc'[w] = pc[c] /\ pc'[c] = "idle" /\ hand'[w] = hand[c]
        /\ \A u \in Thread \ {w, c} : pc'[u] = pc[u] /\ hand'[u] = hand[u]
    BY <1>0, <2>1, <2>2 DEF TypeOK
  <2>. QED
    BY <1>0, <2>2, <2>3, ListedKeeps
\* What changes nothing of the threads, the locks or the list.
<1>12. ASSUME UNCHANGED <<lock, hand, event_queue, repo, config>>,
              \A u \in Thread : pc'[u] = pc[u]
       PROVE  Listed'
  BY <1>0, <1>12, ListedKeeps
<1>13. ASSUME NEW t \in Client \cup Drainer, Dropping(t) \/ DropHandle(t) PROVE Listed'
  BY <1>12, <1>13 DEF Dropping, ShutDown, ShutDownNotify, Uncount, DropHandle
<1>14. ASSUME NEW d \in Drainer, Drain(d) \/ DrainNotify(d) PROVE Listed'
  <2>1. \A u \in Thread : u # d
    BY NamesAssumption DEF Thread
  <2>2. \A u \in Thread : pc'[u] = pc[u]
    BY <1>0, <1>14, <2>1 DEF Drain, DrainNotify, TypeOK
  <2>. QED
    BY <1>12, <1>14, <2>2 DEF Drain, DrainNotify
\* A resource that is verified in time is not listed; without a verify callback there is
\* none, and a resource that is not disposed of is listed under its new lock.
<1>15. CASE VerifyTimer
  <2>1. /\ pc[Manager] = "timers"
        /\ UNCHANGED <<event_queue, config>>
    BY <1>15 DEF VerifyTimer
  <2>2. CASE UNCHANGED <<lock, repo, pc, back, hand>>
    BY <1>12, <2>1, <2>2
  <2>3. ASSUME NEW old \in Lock, NEW new \in FreshLock, old # new, Moved(old, new),
               config.on_verify = {}
        PROVE  Listed'
    <3>1. new \in Lock /\ lock[new].state # "HELD" /\ lock[old].state # "HELD"
      BY <1>0, <2>3, FreshOpen DEF Moved
    <3>2. ~lock'[old].full /\ \A m \in Lock \ {old, new} : lock'[m] = lock[m]
      <4>1. lock' = [lock EXCEPT ![new] = [lock[old] EXCEPT !.state = "HELD"], ![old] = Empty]
        BY <2>3 DEF Moved
      <4>. QED
        BY <1>0, <2>3, <3>1, <4>1 DEF TypeOK, Empty
    <3>3. /\ hand'[Manager] = new
          /\ \/ pc'[Manager] = "dispose" /\ repo' = repo \ {old}
             \/ pc'[Manager] = "release" /\ repo' = (repo \ {old}) \cup {new}
          /\ \A u \in Thread \ {Manager} : pc'[u] = pc[u] /\ hand'[u] = hand[u]
      BY <1>0, <2>3 DEF Moved, TypeOK
    <3>4. Reached(new)' /\ \A m \in Lock \ {old} : Reached(m) => Reached(m)'
      BY <2>1, <3>3 DEF Reached
    <3>5. ASSUME NEW u \in Thread, pc'[u] = "creating" PROVE Reached(hand[u])' /\ hand'[u] = hand[u]
      <4>1. u # Manager /\ pc[u] = "creating" /\ hand'[u] = hand[u]
        BY <3>3, <3>5
      <4>2. lock[hand[u]].state = "HELD" /\ hand[u] \in Lock
        BY <1>0, <4>1, GuardHolds
      <4>3. Reached(hand[u]) /\ hand[u] # old
        BY <2>1, <2>3, <3>1, <4>1, <4>2 DEF Listed
      <4>. QED
        BY <3>4, <4>1, <4>2, <4>3
    <3>6. ASSUME NEW m \in Lock, lock'[m].full PROVE Reached(m)'
      <4>1. CASE m = new
        BY <3>4, <4>1
      <4>2. CASE m # new
        <5>1. m # old /\ lock[m].full
          BY <3>2, <3>6, <4>2
        <5>2. Reached(m)
          BY <2>1, <2>3, <5>1 DEF Listed
        <5>. QED
          BY <3>4, <5>1, <5>2
      <4>. QED
        BY <4>1, <4>2
    <3>. QED
      BY <3>5, <3>6 DEF Listed
  <2>. QED
    BY <1>0, <1>15, <2>1, <2>2, <2>3, Fired DEF Listed
<1>16. CASE WaiterTimer
  BY <1>12, <1>16 DEF WaiterTimer
<1>17. CASE DrainTimer
  <2>1. PICK i \in DOMAIN timers :
          timers[i].kind = "drain" /\ Goto(timers[i].of, WhenUndrained(timers[i].of))
    BY <1>17 DEF DrainTimer
  <2>2. timers[i].of \in Drainer
    BY <1>0, <2>1, EntryOf DEF TypeOK
  <2>3. \A u \in Thread : u # timers[i].of
    BY <2>2, NamesAssumption DEF Thread
  <2>4. \A u \in Thread : pc'[u] = pc[u]
    BY <1>0, <2>1, <2>3 DEF TypeOK
  <2>. QED
    BY <1>12, <1>17, <2>4 DEF DrainTimer
<1>18. CASE \/ Listen \/ TakeRegisters \/ Park
            \/ CheckWaiters \/ SkipWaiter \/ CountServed \/ Send
  <2>1. /\ pc[Manager] \in {"timers", "registers", "park", "waiters", "skip", "decrement", "send"}
        /\ UNCHANGED <<lock, event_queue, repo, config>>
        /\ \A u \in Thread \ {Manager} : hand'[u] = hand[u]
    BY <1>0, <1>18
    DEF Listen, TakeRegisters, Park, CheckWaiters, SkipWaiter, CountServed, DecrementWaiters,
        Send, TypeOK
  <2>2. \E next : Goto(Manager, next) /\ next # "creating"
    <3>1. \A list, l : NextWaiter(list, l) # "creating"
      BY DEF NextWaiter
    <3>. QED
      BY <1>18, <3>1
      DEF Listen, TakeRegisters, Park, CheckWaiters, SkipWaiter, CountServed,
          DecrementWaiters, Send
  <2>3. pc'[Manager] # "creating" /\ \A u \in Thread \ {Manager} : pc'[u] = pc[u]
    BY <1>0, <2>2 DEF TypeOK
  <2>. QED
    BY <1>0, <1>1, <2>1, <2>3
\* The manager reads of what was created.
<1>19. CASE TakeEvents
  <2>1. /\ pc[Manager] = "events" /\ pc'[Manager] = "registers" /\ UNCHANGED <<lock, hand, config>>
        /\ \A u \in Thread \ {Manager} : pc'[u] = pc[u]
    BY <1>0, <1>19 DEF TakeEvents, TypeOK
  <2>2. \A m : Entered("created", m) \in Range(event_queue) => m \in repo'
    <3>1. \A m : Entered("created", m).kind = "created" /\ Entered("created", m).of = m
      BY DEF Entered
    <3>. QED
      BY <1>19, <3>1 DEF TakeEvents
  <2>3. repo \subseteq repo'
    BY <1>19 DEF TakeEvents
  <2>4. \A m \in Lock : Reached(m) => Reached(m)'
    BY <2>1, <2>2, <2>3 DEF Reached
  <2>5. \A u \in Thread : pc'[u] = "creating" => pc[u] = "creating"
    BY <2>1
  <2>. QED
    BY <1>0, <2>1, <2>4, <2>5 DEF Listed
\* A resource is present.
<1>20. ASSUME repo' = Present \/ repo' = repo, UNCHANGED <<lock, event_queue, hand, config>>,
              pc[Manager] \in {"state", "drain"}, pc'[Manager] \in {"drain", "park"},
              \A u \in Thread \ {Manager} : pc'[u] = pc[u]
       PROVE  Listed'
  <2>1. ASSUME NEW m \in Lock, lock[m].state # "NONE", Reached(m) PROVE Reached(m)'
    BY <1>20, <2>1 DEF Reached, Present
  <2>2. \A m \in Lock : lock[m].full => lock[m].state # "NONE"
    BY <1>0 DEF Stowed
  <2>3. \A u \in Thread : pc[u] = "creating" => lock[hand[u]].state # "NONE" /\ hand[u] \in Lock
    BY <1>0, GuardHolds
  <2>4. \A u \in Thread : pc'[u] = "creating" => pc[u] = "creating"
    BY <1>20
  <2>. QED
    BY <1>20, <2>1, <2>2, <2>3, <2>4 DEF Listed
<1>21. CASE CheckState
  <2>1. /\ pc[Manager] = "state" /\ pc'[Manager] \in {"drain", "park"}
        /\ \A u \in Thread \ {Manager} : pc'[u] = pc[u]
        /\ repo' = Present \/ repo' = repo
    BY <1>0, <1>21 DEF CheckState, TypeOK
  <2>. QED
    BY <1>20, <1>21, <2>1 DEF CheckState
<1>22. CASE DrainRetain
  <2>1. CASE Present # {}
    <3>1. /\ pc[Manager] = "drain" /\ pc'[Manager] = "park" /\ repo' = Present
          /\ \A u \in Thread \ {Manager} : pc'[u] = pc[u]
      BY <1>0, <1>22, <2>1 DEF DrainRetain, TypeOK
    <3>. QED
      BY <1>20, <1>22, <3>1 DEF DrainRetain
  <2>2. CASE Present = {}
    <3>1. pc'[Manager] = "stopped"
      BY <1>0, <1>22, <2>2 DEF DrainRetain, TypeOK
    <3>. QED
      BY <3>1 DEF Listed
  <2>. QED
    BY <2>1, <2>2
<1>23. CASE DrainLock
  <2>1. PICK l \in todo :
          /\ lock' = [lock EXCEPT ![l].state = "HELD"]
          /\ IF lock[l].state = "HELD"
               THEN UNCHANGED <<pc, back, hand>>
               ELSE Hold(Manager, l) /\ Call(Manager, "dispose", "drain")
    BY <1>23 DEF DrainLock
  <2>2. /\ l \in Lock /\ pc[Manager] = "drain"
        /\ UNCHANGED <<event_queue, repo, config>>
    BY <1>0, <1>23 DEF TypeOK, DrainLock
  <2>3. \A m \in Lock : lock'[m].full = lock[m].full
    BY <1>0, <2>1, <2>2, Wrote DEF TypeOK
  <2>4. /\ pc'[Manager] \in {"drain", "dispose"}
        /\ \A u \in Thread \ {Manager} : pc'[u] = pc[u] /\ hand'[u] = hand[u]
    BY <1>0, <2>1, <2>2 DEF TypeOK
  <2>. QED
    BY <1>0, <1>1, <2>2, <2>3, <2>4
<1>24. CASE UNCHANGED vars
  BY <1>12, <1>24 DEF vars
<1>. QED
  BY <1>0, <1>2, <1>3, <1>4, <1>5, <1>6, <1>7, <1>8, <1>9, <1>10, <1>11, <1>13, <1>14, <1>15,
     <1>16, <1>17, <1>18, <1>19, <1>21, <1>22, <1>23, <1>24
  DEF Next, ClientStep, ClientChoice, WorkerStep, DrainerStep, ManagerStep, Releasing

\* Without a verify callback, the manager's list has every resource there is, or will
\* have it when the manager reads its events, so that a drain reaches it
\* (pool.rs:268-277): however the list is cleaned up (pool.rs:263-267) and re-keyed
\* (pool.rs:140-183) while consumers create, hold, release and dispose.
THEOREM Reaching == Spec => []DrainReaches
<1>1. Init => Sound /\ Listed
  BY SoundInit, ListedInit
<1>2. Sound /\ Listed /\ [Next]_vars => (Sound /\ Listed)'
  BY SoundStep, ListedStep
<1>3. Sound /\ Listed => DrainReaches
  BY DEF Listed, Reached, DrainReaches
<1>. QED
  BY <1>1, <1>2, <1>3, PTL DEF Spec

-----------------------------------------------------------------------------
(* The manager sleeps only when it has nothing to do. *)

\* What most steps leave of what the manager has still to do.
LEMMA AwakeKeeps ==
  ASSUME Awake, notified => notified', UNCHANGED <<register_inject, waiters>>,
         \A t \in Thread \cup Drainer : Telling(t) => Told',
         ~Told' =>
            /\ pc[Manager] \in {"events", "registers"} => pc'[Manager] = pc[Manager]
            /\ Attentive' => Attentive
            /\ \A e \in Range(event_queue') :
                  e.kind = "created" \/ \E x \in Range(event_queue) : x.kind = e.kind
            /\ idle_queue = <<>> => idle_queue' = <<>>
  PROVE  Awake'
<1>. SUFFICES ASSUME ~Told'
              PROVE  /\ pc'[Manager] # "events" =>
                          \A e \in Range(event_queue') : e.kind = "created"
                     /\ pc'[Manager] \notin {"events", "registers"} => register_inject' = <<>>
                     /\ Attentive' => waiters' = <<>> \/ idle_queue' = <<>>
  BY DEF Awake
<1>1. ~Told
  <2>1. ~notified
    BY DEF Told
  <2>. QED
    BY <2>1 DEF Told
<1>. QED
  BY <1>1 DEF Awake

\* Entries that are outdated are still of their kinds, and a resource that is created
\* is no work for the manager.
LEMMA KindsKept ==
  ASSUME event_queue \in Seq(Entry), NEW l \in Lock,
         \/ event_queue' = event_queue
         \/ event_queue' = Outdated(event_queue, l)
         \/ event_queue' = Append(event_queue, Entered("created", l))
  PROVE  \A e \in Range(event_queue') :
            e.kind = "created" \/ \E x \in Range(event_queue) : x.kind = e.kind
<1>1. CASE event_queue' = event_queue
  BY <1>1
<1>2. CASE event_queue' = Outdated(event_queue, l)
  BY <1>2, OutdatedEntries DEF Range
<1>3. CASE event_queue' = Append(event_queue, Entered("created", l))
  <2>1. Entered("created", l) \in Entry /\ Entered("created", l).kind = "created"
    BY DEF Entered, Entry
  <2>2. Range(event_queue') = Range(event_queue) \cup {Entered("created", l)}
    BY <1>3, <2>1, RangeAppend
  <2>. QED
    BY <2>1, <2>2
<1>. QED
  BY <1>1, <1>2, <1>3

\* The manager is told of its start.
LEMMA AwakeInit == Init => Awake
  BY DEF Init, Awake, Told

\* Whoever leaves the manager something to do tells it afterwards, and what the manager
\* was told of before it listened it has done before it sleeps.
LEMMA AwakeStep == Sound /\ Sound' /\ Awake /\ [Next]_vars => Awake'
<1>. SUFFICES ASSUME Sound, Sound', Awake, [Next]_vars PROVE Awake'
  OBVIOUS
<1>0. /\ Client \subseteq Thread /\ Worker \subseteq Thread /\ Manager \in Thread
      /\ Manager \notin Client /\ Manager \notin Worker /\ Manager \notin Drainer
      /\ Thread \cap Drainer = {} /\ Client \cap Worker = {}
      /\ \A u \in Thread : PlacedAt(u)
      /\ TypeOK /\ TypeOK'
  BY NamesAssumption DEF Thread, Sound, Placed
<1>. USE DEF counters, queues, client, manager, Goto, Call, Return, Hold, LetGo
\* A step of one thread that was not to notify, and gives the manager nothing to do.
<1>1. ASSUME NEW t \in Thread \cup Drainer, notified' = notified,
             UNCHANGED <<register_inject, waiters>>, ~Telling(t),
             \A u \in (Thread \cup Drainer) \ {t} : pc'[u] = pc[u],
             t # Manager => back'[Manager] = back[Manager],
             t = Manager => pc[t] \notin {"events", "registers"} /\ (Attentive' => Attentive),
             \A e \in Range(event_queue') :
                e.kind = "created" \/ \E x \in Range(event_queue) : x.kind = e.kind,
             idle_queue = <<>> => idle_queue' = <<>>
      PROVE  Awake'
  <2>1. \A u \in Thread \cup Drainer : Telling(u) => Telling(u)'
    BY <1>1 DEF Telling
  <2>2. t # Manager => pc'[Manager] = pc[Manager] /\ (Attentive' => Attentive)
    BY <1>0, <1>1 DEF Attentive
  <2>. QED
    BY <1>1, <2>1, <2>2, AwakeKeeps DEF Told
\* A step that tells, or leaves its thread about to.
<1>2. ASSUME Told' PROVE Awake'
  BY <1>2 DEF Awake
\* A step that is not about any of this.
<1>3. ASSUME UNCHANGED <<notified, event_queue, idle_queue, register_inject, waiters, back>>,
             \A u \in Thread \cup Drainer : pc'[u] = pc[u]
      PROVE  Awake'
  <2>1. \A u \in Thread \cup Drainer : Telling(u) => Telling(u)'
    BY <1>3 DEF Telling
  <2>2. Attentive' => Attentive
    BY <1>0, <1>3 DEF Attentive
  <2>. QED
    BY <1>0, <1>3, <2>1, <2>2, AwakeKeeps DEF Told
<1>4. ASSUME NEW t \in Thread, Release(t) \/ ReleaseRecheck(t) PROVE Awake'
  <2>1. /\ pc[t] \in {"release", "recheck"} /\ pc'[t] \in {"recheck", "return", "dispose"}
        /\ \A u \in (Thread \cup Drainer) \ {t} : pc'[u] = pc[u]
        /\ UNCHANGED <<notified, idle_queue, register_inject, waiters, back>>
    BY <1>0, <1>4 DEF Release, ReleaseRecheck, KeepOr, TypeOK
  <2>2. hand[t] \in Lock
    BY <1>0, <2>1 DEF PlacedAt, Handling, Guarded
  <2>3. event_queue' = event_queue \/ event_queue' = Outdated(event_queue, hand[t])
    BY <1>4 DEF Release, ReleaseRecheck, KeepOr
  <2>4. t = Manager => (Attentive' => Attentive)
    BY <1>0, <2>1 DEF Attentive, Leaving
  <2>5. ~Telling(t)
    BY <2>1 DEF Telling
  <2>. QED
    BY <1>0, <1>1, <2>1, <2>2, <2>3, <2>4, <2>5, KindsKept DEF TypeOK
<1>5. ASSUME NEW t \in Thread, ReleaseReturn(t) PROVE Awake'
  <2>1. pc'[t] = "tell"
    BY <1>0, <1>5 DEF ReleaseReturn, TypeOK
  <2>. QED
    BY <1>2, <2>1 DEF Told, Telling
<1>6. ASSUME NEW t \in Thread, ReleaseTell(t) \/ DisposeTell(t) PROVE Awake'
  BY <1>2, <1>6 DEF ReleaseTell, DisposeTell, Told
<1>7. ASSUME NEW t \in Thread, Dispose(t) \/ UnlockNone(t) PROVE Awake'
  <2>1. /\ pc[t] \in {"dispose", "unlock"}
        /\ UNCHANGED <<notified, idle_queue, event_queue, register_inject, waiters>>
        /\ \A u \in (Thread \cup Drainer) \ {t} : pc'[u] = pc[u]
        /\ t # Manager => back'[Manager] = back[Manager]
    BY <1>0, <1>7 DEF Dispose, UnlockNone, TypeOK
  <2>2. t = Manager => (Attentive' => Attentive)
    <3>1. CASE Dispose(t) /\ t = Manager
      BY <1>0, <2>1, <3>1 DEF Dispose, Attentive, Leaving, TypeOK
    <3>2. CASE UnlockNone(t) /\ t = Manager
      <4>1. pc[t] = "unlock" /\ pc'[t] = back[t] /\ back[t] \in Resumed(t)
        BY <1>0, <3>2 DEF UnlockNone, PlacedAt, Leaving, TypeOK
      <4>2. Resumed(Manager) = {"timers", "state", "drain", "pop"}
        BY ResumedBy
      <4>. QED
        BY <3>2, <4>1, <4>2 DEF Attentive, Leaving
    <3>. QED
      BY <1>7, <3>1, <3>2
  <2>3. ~Telling(t)
    BY <2>1 DEF Telling
  <2>. QED
    BY <1>0, <1>1, <2>1, <2>2, <2>3
<1>8. ASSUME NEW t \in Client \cup {Manager}, PopIdle(t) \/ LockIdle(t) PROVE Awake'
  <2>1. /\ t \in Thread /\ pc[t] \in {"pop", "lock"}
        /\ UNCHANGED <<notified, event_queue, register_inject, waiters>>
        /\ \A u \in (Thread \cup Drainer) \ {t} : pc'[u] = pc[u]
        /\ t # Manager => back'[Manager] = back[Manager]
    BY <1>0, <1>8 DEF PopIdle, LockIdle, TypeOK
  <2>2. idle_queue = <<>> => idle_queue' = <<>>
    BY <1>8 DEF PopIdle, LockIdle
  <2>3. CASE t = Manager /\ idle_queue = <<>>
    <3>1. \A u \in Thread \cup Drainer : Telling(u) => Telling(u)'
      BY <2>1, <2>3 DEF Telling
    <3>2. ~Told' => ~Told
      BY <2>1, <3>1 DEF Told
    <3>. QED
      BY <2>1, <2>2, <2>3, <3>2 DEF Awake
  <2>4. CASE t = Manager /\ idle_queue # <<>>
    <3>1. ~Attentive'
      BY <1>0, <1>8, <2>1, <2>4 DEF PopIdle, LockIdle, TypeOK, Attentive, Leaving
    <3>. QED
      BY <1>0, <1>1, <2>1, <2>2, <2>4, <3>1 DEF Telling
  <2>5. CASE t # Manager
    BY <1>1, <2>1, <2>2, <2>5 DEF Telling
  <2>. QED
    BY <2>3, <2>4, <2>5
\* Clients.
<1>9. ASSUME NEW c \in Client,
             \/ AcquireAgain(c) \/ Acquire(c) \/ CreateFromCount(c) \/ UpdateCount(c)
             \/ TryWait(c) \/ DropManaged(c) \/ Answered(c) \/ AbandonWaiter(c)
             \/ Peek(c) \/ Discard(c)
      PROVE  Awake'
  <2>1. UNCHANGED <<notified, queues, waiters>>
    BY <1>9
    DEF AcquireAgain, Acquire, CheckBusy, CreateFromCount, UpdateCount, TryWait, DropManaged,
        Answered, AbandonWaiter, Peek, Discard
  <2>2. /\ pc[c] \in {"init", "idle", "count", "cas", "wait", "managed", "waiting", "peek"}
        /\ \A u \in (Thread \cup Drainer) \ {c} : pc'[u] = pc[u]
        /\ back'[Manager] = back[Manager]
    <3>1. CASE \/ AcquireAgain(c) \/ Acquire(c) \/ CreateFromCount(c) \/ UpdateCount(c)
               \/ TryWait(c) \/ DropManaged(c)
      BY <1>0, <3>1
      DEF AcquireAgain, Acquire, CheckBusy, CreateFromCount, UpdateCount, TryWait, DropManaged,
          TypeOK
    <3>2. CASE Answered(c) \/ AbandonWaiter(c)
      BY <1>0, <3>2 DEF Answered, AbandonWaiter, Resolved, TypeOK
    <3>3. CASE Peek(c) \/ Discard(c)
      BY <1>0, <3>3 DEF Peek, Discard, Resolved, TypeOK
    <3>. QED
      BY <1>9, <3>1, <3>2, <3>3
  <2>3. ~Telling(c) /\ c # Manager /\ c \in Thread \cup Drainer
    BY <1>0, <2>2 DEF Telling
  <2>. QED
    BY <1>1, <2>1, <2>2, <2>3
<1>10. ASSUME NEW c \in Client, RegisterWaiter(c) PROVE Awake'
  <2>1. pc'[c] = "notify" /\ c \in Thread
    BY <1>0, <1>10 DEF RegisterWaiter, TypeOK
  <2>. QED
    BY <1>2, <2>1 DEF Told, Telling
<1>11. ASSUME NEW t \in Client \cup Drainer, NotifyManager(t) \/ DrainNotify(t) PROVE Awake'
  BY <1>2, <1>11 DEF NotifyManager, DrainNotify, Told
<1>12. ASSUME NEW d \in Drainer, Drain(d) PROVE Awake'
  <2>1. pc'[d] = "notify"
    BY <1>0, <1>12 DEF Drain, TypeOK
  <2>. QED
    BY <1>2, <2>1 DEF Told, Telling
<1>13. ASSUME NEW c \in Client, Create(c) PROVE Awake'
  <2>1. PICK l \in FreshLock : event_queue' = Append(event_queue, Entered("created", l))
    BY <1>13 DEF Create
  <2>2. l \in Lock /\ c \in Thread /\ c # Manager
    BY <1>0 DEF FreshLock
  <2>3. /\ pc[c] = "create" /\ \A u \in (Thread \cup Drainer) \ {c} : pc'[u] = pc[u]
        /\ UNCHANGED <<notified, idle_queue, register_inject, waiters, back>>
    BY <1>0, <1>13 DEF Create, TypeOK
  <2>. QED
    BY <1>0, <1>1, <2>1, <2>2, <2>3, KindsKept DEF Telling, TypeOK
<1>14. ASSUME NEW t \in Client \cup Worker, EndCreate(t) \/ EndVerify(t) PROVE Awake'
  <2>1. /\ t \in Thread /\ t # Manager /\ pc[t] \in {"creating", "verifying"}
        /\ \A u \in (Thread \cup Drainer) \ {t} : pc'[u] = pc[u]
        /\ back'[Manager] = back[Manager]
        /\ UNCHANGED <<notified, queues, waiters>>
    <3>1. t \in Thread /\ t # Manager
      BY <1>0
    <3>2. CASE EndCreate(t)
      BY <1>0, <3>1, <3>2 DEF EndCreate, Complete, Fail, Resolved, TypeOK
    <3>3. CASE EndVerify(t)
      <4>1. pc[t] = "verifying" /\ UNCHANGED <<notified, queues, waiters>>
        BY <3>3 DEF EndVerify
      <4>2. \E next, ret : \/ Call(t, next, ret)
                           \/ Goto(t, next) /\ UNCHANGED back
        BY <3>3 DEF EndVerify, Complete, Fail, Resolved
      <4>. QED
        BY <1>0, <3>1, <4>1, <4>2 DEF TypeOK
    <3>. QED
      BY <1>14, <3>2, <3>3
  <2>. QED
    BY <1>1, <2>1 DEF Telling
<1>15. ASSUME NEW c \in Client, AbandonFuture(c) PROVE Awake'
  <2>1. PICK w \in Worker : /\ pc[w] = "idle" /\ pc[c] \in {"creating", "verifying"}
                           /\ pc' = [pc EXCEPT ![w] = pc[c], ![c] = "idle"]
    BY <1>15 DEF AbandonFuture
  <2>2. UNCHANGED <<notified, queues, waiters, back>>
    BY <1>15 DEF AbandonFuture
  <2>3. \A u \in Thread \cup Drainer : Telling(u) => Telling(u)'
    BY <1>0, <2>1 DEF Telling, TypeOK
  <2>4. pc'[Manager] = pc[Manager]
    BY <1>0, <2>1 DEF TypeOK
  <2>5. Attentive' => Attentive
    BY <2>2, <2>4 DEF Attentive
  <2>. QED
    BY <2>2, <2>3, <2>4, <2>5, AwakeKeeps DEF Told
\* A handle that is the last tells the manager that the pool shuts down.
<1>16. ASSUME NEW t \in Client \cup Drainer, ShutDownNotify(t) PROVE Awake'
  BY <1>2, <1>16 DEF ShutDownNotify, Told
<1>17. ASSUME NEW t \in Client \cup Drainer, ShutDown(t) \/ Uncount(t) \/ DropHandle(t) PROVE Awake'
  BY <1>3, <1>17 DEF ShutDown, Uncount, DropHandle
\* The manager's turn.
<1>18. CASE VerifyTimer
  <2>1. /\ pc[Manager] = "timers"
        /\ UNCHANGED <<queues, notified, waiters>>
        /\ \/ UNCHANGED <<lock, repo, pc, back, hand>>
           \/ \E old \in Lock \cap Named(timers), new \in FreshLock : Moved(old, new)
    BY <1>0, <1>18, Fired
  <2>2. CASE UNCHANGED <<lock, repo, pc, back, hand>>
    BY <1>3, <2>1, <2>2
  <2>3. ASSUME NEW old, NEW new, Moved(old, new)
        PROVE  \E t \in Thread : /\ pc[t] \in {"idle", "timers"}
                                 /\ \A u \in (Thread \cup Drainer) \ {t} : pc'[u] = pc[u]
    BY <1>0, <2>1, <2>3 DEF Moved, TypeOK
  <2>4. Attentive
    BY <2>1 DEF Attentive
  <2>5. ASSUME NEW t \in Thread, pc[t] \in {"idle", "timers"},
               \A u \in (Thread \cup Drainer) \ {t} : pc'[u] = pc[u]
        PROVE  Awake'
    <3>1. \A u \in Thread \cup Drainer : Telling(u) => Telling(u)'
      BY <2>5 DEF Telling
    <3>. QED
      BY <2>1, <2>4, <3>1, AwakeKeeps DEF Told
  <2>. QED
    BY <2>1, <2>2, <2>3, <2>5
<1>19. CASE WaiterTimer
  BY <1>3, <1>19 DEF WaiterTimer
\* The drain that failed was its drainer's, which goes on to notify if it has to.
<1>20. CASE DrainTimer
  <2>1. PICK i \in DOMAIN timers :
          timers[i].kind = "drain" /\ Goto(timers[i].of, WhenUndrained(timers[i].of))
    BY <1>20 DEF DrainTimer
  <2>2. timers[i].of \in Drainer
    BY <1>0, <2>1, EntryOf DEF TypeOK
  <2>3. \A u \in Thread \cup Drainer : Telling(u) => Telling(u)'
    BY <1>0, <2>1, <2>2 DEF WhenUndrained, Telling, TypeOK
  <2>4. pc'[Manager] = pc[Manager] /\ UNCHANGED <<notified, queues, waiters, back>>
    BY <1>0, <1>20, <2>1, <2>2 DEF DrainTimer, TypeOK
  <2>5. Attentive' => Attentive
    BY <2>4 DEF Attentive
  <2>. QED
    BY <2>3, <2>4, <2>5, AwakeKeeps DEF Told
\* From now on the manager is told again of what there is.
<1>21. CASE Listen
  <2>1. pc'[Manager] = "events"
    BY <1>0, <1>21 DEF Listen, TypeOK
  <2>. QED
    BY <2>1 DEF Awake, Attentive, Leaving
\* A step of the manager's own that is not to notify.
<1>22. ASSUME \A u \in (Thread \cup Drainer) \ {Manager} : pc'[u] = pc[u],
              ~Telling(Manager), notified => notified', ~Told'
       PROVE  ~Told
  <2>1. \A u \in Thread \cup Drainer : Telling(u) => Telling(u)'
    BY <1>22 DEF Telling
  <2>. QED
    BY <1>22, <2>1 DEF Told
<1>23. CASE TakeEvents
  <2>1. /\ pc'[Manager] = "registers" /\ event_queue' = <<>>
    BY <1>0, <1>23 DEF TakeEvents, TypeOK
  <2>. QED
    BY <2>1 DEF Awake, Attentive, Leaving, Range
<1>24. CASE TakeRegisters
  <2>1. /\ pc[Manager] = "registers" /\ pc'[Manager] = "waiters" /\ register_inject' = <<>>
        /\ event_queue' = event_queue
        /\ \A u \in (Thread \cup Drainer) \ {Manager} : pc'[u] = pc[u]
    BY <1>0, <1>24 DEF TakeRegisters, TypeOK
  <2>2. notified => notified'
    BY <1>24 DEF TakeRegisters
  <2>3. ~Told' => ~Told
    BY <1>22, <2>1, <2>2 DEF Telling
  <2>. QED
    BY <2>1, <2>3 DEF Awake, Attentive, Leaving
\* The manager leaves the waiters when there is no resource or no waiter left.
<1>25. ASSUME pc[Manager] \in {"waiters", "skip", "decrement"},
              UNCHANGED <<notified, queues>>,
              \/ \E l : Goto(Manager, NextWaiter(waiters', l))
              \/ Goto(Manager, "state") /\ idle_queue = <<>>
       PROVE  Awake'
  <2>1. /\ \A u \in (Thread \cup Drainer) \ {Manager} : pc'[u] = pc[u]
        /\ event_queue' = event_queue /\ register_inject' = register_inject
        /\ idle_queue' = idle_queue /\ notified' = notified
    BY <1>0, <1>25 DEF TypeOK
  <2>2. Attentive' => waiters' = <<>> \/ idle_queue' = <<>>
    <3>1. ASSUME NEW l, Goto(Manager, NextWaiter(waiters', l)), waiters' # <<>>
          PROVE  ~Attentive'
      <4>1. NextWaiter(waiters', l) \in {"skip", "pop", "send"}
        BY <3>1 DEF NextWaiter
      <4>2. pc'[Manager] = NextWaiter(waiters', l)
        BY <1>0, <3>1 DEF TypeOK
      <4>. QED
        BY <4>1, <4>2 DEF Attentive, Leaving
    <3>2. CASE \E l : Goto(Manager, NextWaiter(waiters', l))
      BY <3>1, <3>2
    <3>3. CASE idle_queue = <<>>
      BY <2>1, <3>3
    <3>. QED
      BY <1>25, <3>2, <3>3
  <2>3. ~Told' => ~Told
    <3>1. ~Telling(Manager)
      BY <1>25 DEF Telling
    <3>. QED
      BY <1>22, <2>1, <3>1
  <2>4. ~Told => /\ \A e \in Range(event_queue) : e.kind = "created"
                 /\ register_inject = <<>>
    BY <1>25 DEF Awake
  <2>. QED
    BY <2>1, <2>2, <2>3, <2>4 DEF Awake
<1>26. CASE CheckWaiters
  <2>1. \/ Goto(Manager, NextWaiter(waiters', NoLock))
        \/ Goto(Manager, "state") /\ idle_queue = <<>>
    BY <1>26 DEF CheckWaiters
  <2>. QED
    BY <1>25, <1>26, <2>1 DEF CheckWaiters
<1>27. CASE SkipWaiter
  <2>1. pc[Manager] = "skip" /\ UNCHANGED <<notified, queues>>
        /\ Goto(Manager, NextWaiter(waiters', hand[Manager]))
    BY <1>27 DEF SkipWaiter, DecrementWaiters
  <2>. QED
    BY <1>25, <2>1
<1>28. CASE CountServed
  <2>1. pc[Manager] = "decrement" /\ UNCHANGED <<notified, queues>>
        /\ Goto(Manager, NextWaiter(waiters', hand[Manager]))
    BY <1>28 DEF CountServed, DecrementWaiters
  <2>. QED
    BY <1>25, <2>1
<1>29. CASE Send
  <2>1. /\ pc[Manager] = "send" /\ pc'[Manager] = "decrement"
        /\ \A u \in (Thread \cup Drainer) \ {Manager} : pc'[u] = pc[u]
        /\ UNCHANGED <<notified, queues>>
    BY <1>0, <1>29 DEF Send, TypeOK
  <2>2. ~Told' => ~Told
    BY <1>22, <2>1 DEF Telling
  <2>. QED
    BY <2>1, <2>2 DEF Awake, Attentive, Leaving
<1>30. CASE CheckState \/ DrainLock \/ Park
  <2>1. /\ pc[Manager] \in {"state", "drain", "park"}
        /\ \A u \in (Thread \cup Drainer) \ {Manager} : pc'[u] = pc[u]
        /\ UNCHANGED <<notified, queues, waiters>>
    BY <1>0, <1>30 DEF CheckState, DrainLock, Park, TypeOK
  <2>. QED
    BY <1>0, <1>1, <2>1 DEF Telling, Attentive
<1>31. CASE DrainRetain
  <2>1. /\ pc[Manager] = "drain" /\ UNCHANGED <<notified, queues>>
        /\ waiters' = waiters \/ waiters' = <<>>
    BY <1>31 DEF DrainRetain
  <2>2. \A u \in Thread \cup Drainer : Telling(u) => Telling(u)'
    <3>1. CASE Present # {}
      BY <1>0, <1>31, <2>1, <3>1 DEF DrainRetain, Telling, TypeOK
    <3>2. CASE Present = {}
      <4>1. ASSUME NEW u \in Thread \cup Drainer, Telling(u) PROVE Telling(u)'
        <5>1. u # Manager
          BY <2>1, <4>1 DEF Telling
        <5>2. pc'[u] = pc[u] \/ pc'[u] = WhenDrained(u)
          BY <1>0, <1>31, <3>2, <5>1 DEF DrainRetain, TypeOK
        <5>. QED
          BY <4>1, <5>2 DEF WhenDrained, Telling
      <4>. QED
        BY <4>1
    <3>. QED
      BY <3>1, <3>2
  <2>3. ~Told' => ~Told
    BY <2>1, <2>2 DEF Told
  <2>. QED
    BY <2>1, <2>3 DEF Awake, Attentive
<1>32. CASE UNCHANGED vars
  BY <1>3, <1>32 DEF vars
<1>. QED
  BY <1>0, <1>4, <1>5, <1>6, <1>7, <1>8, <1>9, <1>10, <1>11, <1>12, <1>13, <1>14, <1>15, <1>16,
     <1>17, <1>18, <1>19, <1>20, <1>21, <1>23, <1>24, <1>26, <1>27, <1>28, <1>29, <1>30, <1>31,
     <1>32
  DEF Next, ClientStep, ClientChoice, WorkerStep, DrainerStep, ManagerStep, Releasing, Dropping

\* The manager sleeps without a wake-up only when nothing is left for it to do: it
\* listens (pool.rs:193) before it reads the queues and looks at the waiters (pool.rs:195-259),
\* so that whatever comes after it has looked comes with a notification that listen() did
\* not take away; and whoever leaves it something to do notifies after that
\* (mod.rs:168-169, pool.rs:333-339).
THEOREM Waking == Spec => []SleepsOnlyWhenIdle
<1>1. Init => Sound /\ Awake
  BY SoundInit, AwakeInit
<1>2. Sound /\ Awake /\ [Next]_vars => (Sound /\ Awake)'
  BY SoundStep, AwakeStep
<1>3. Awake => SleepsOnlyWhenIdle
  <2>1. SUFFICES ASSUME Awake, pc[Manager] = "park", ~notified PROVE SleepsOnlyWhenIdle
    BY DEF SleepsOnlyWhenIdle
  <2>2. ~Telling(Manager)
    BY <2>1 DEF Telling
  <2>. QED
    BY <2>1, <2>2 DEF Awake, Told, Attentive, SleepsOnlyWhenIdle, Thread
<1>. QED
  BY <1>1, <1>2, <1>3, PTL DEF Spec

-----------------------------------------------------------------------------
(* How many resources there are. *)

\* A pool whose idle timers do not elapse verifies nothing.
Untimed ==
    ~IdleElapses =>
        /\ \A e \in Range(event_queue) \cup Range(timers) : e.kind # "verify"
        /\ \A t \in Thread : pc[t] # "verifying"

\* A pool that nobody drains is not drained.
Undrained ==
    "drain" \notin config.may =>
        /\ \A e \in Range(register_inject) : e.kind # "drain"
        /\ \A d \in Drainer : handle[d] = "gone"
        /\ state # "DRAIN" /\ pc[Manager] # "drain" /\ back[Manager] # "drain"

\* What is about to be released or disposed of is there: a resource is disposed of once.
Intact(t) == pc[t] \in {"release", "dispose"} => lock[hand[t]].full
Filled == CountedOnce => \A t \in Thread : Intact(t)

\* What the count is of.  With a maximum it is never less than that, and nobody goes
\* on to raise a count beyond the maximum.
Allocated == Resources \cup BeingCreated
Counted ==
    CountedOnce =>
        /\ IsFiniteSet(Allocated)
        /\ "err" \notin config.on_create => count = Cardinality(Allocated)
        /\ MaxCount # 0 =>
              /\ Cardinality(Allocated) <= count
              /\ count <= MaxCount + 1
              /\ \A c \in Client : pc[c] = "cas" => seen[c] <= MaxCount

\* A pool is used as it was built (config.rs:55-142).
LEMMA ConfigKept == [Next]_vars => config' = config
<1>. SUFFICES ASSUME [Next]_vars PROVE config' = config
  OBVIOUS
<1>1. ASSUME NEW t, Releasing(t) \/ Dropping(t) \/ PopIdle(t) \/ LockIdle(t) PROVE config' = config
  BY <1>1
  DEF Releasing, Release, ReleaseRecheck, ReleaseReturn, ReleaseTell, Dispose, DisposeTell,
      UnlockNone, Dropping, ShutDown, ShutDownNotify, Uncount, PopIdle, LockIdle
<1>2. ASSUME NEW c, \/ AcquireAgain(c) \/ Acquire(c) \/ Peek(c) \/ CreateFromCount(c)
                    \/ UpdateCount(c) \/ Create(c) \/ TryWait(c) \/ RegisterWaiter(c)
                    \/ NotifyManager(c) \/ Answered(c) \/ DropManaged(c)
      PROVE  config' = config
  BY <1>2
  DEF AcquireAgain, Acquire, CheckBusy, Peek, CreateFromCount, UpdateCount, Create, TryWait,
      RegisterWaiter, NotifyManager, Answered, DropManaged
<1>3. ASSUME NEW c, \/ EndCreate(c) \/ EndVerify(c) \/ Discard(c) \/ AbandonFuture(c)
                    \/ AbandonWaiter(c) \/ DropHandle(c) \/ Drain(c) \/ DrainNotify(c)
      PROVE  config' = config
  BY <1>3
  DEF EndCreate, EndVerify, Discard, AbandonFuture, AbandonWaiter, DropHandle, Drain, DrainNotify
<1>4. CASE \/ VerifyTimer \/ WaiterTimer \/ DrainTimer \/ Listen \/ TakeEvents \/ TakeRegisters
           \/ CheckWaiters \/ SkipWaiter \/ Send \/ CountServed \/ CheckState \/ DrainLock
           \/ DrainRetain \/ Park
  BY <1>4
  DEF VerifyTimer, WaiterTimer, DrainTimer, Listen, TakeEvents, TakeRegisters, CheckWaiters,
      SkipWaiter, DecrementWaiters, Send, CountServed, CheckState, DrainLock, DrainRetain, Park
<1>5. CASE UNCHANGED vars
  BY <1>5 DEF vars
<1>. QED
  BY <1>1, <1>2, <1>3, <1>4, <1>5
  DEF Next, ClientStep, ClientChoice, WorkerStep, DrainerStep, ManagerStep

\* There are no timers at first.
LEMMA UntimedInit == Init => Untimed
  BY DEF Init, Untimed, Range

\* A release sets a timer, and an acquisition verifies, only where idle timers elapse.
LEMMA UntimedStep == Sound /\ Sound' /\ Untimed /\ [Next]_vars => Untimed'
<1>. SUFFICES ASSUME Sound, Sound', Untimed, [Next]_vars, ~IdleElapses PROVE Untimed'
  BY ConfigKept DEF Untimed, IdleElapses, IdleTimeout
<1>0. /\ Client \subseteq Thread /\ Worker \subseteq Thread /\ Manager \in Thread
      /\ Manager \notin Client /\ Manager \notin Worker
      /\ Thread \cap Drainer = {} /\ Client \cap Worker = {}
      /\ \A u \in Thread : PlacedAt(u)
      /\ TypeOK /\ TypeOK' /\ config' = config
      /\ \A e \in Range(event_queue) \cup Range(timers) : e.kind # "verify"
      /\ \A u \in Thread : pc[u] # "verifying"
  BY NamesAssumption, ConfigKept DEF Thread, Sound, Placed, Untimed
<1>. USE DEF counters, queues, client, manager, Goto, Call, Return, Hold, LetGo
\* A step that leaves the timers and the events.
<1>1. ASSUME NEW t, UNCHANGED <<event_queue, timers>>,
             \A u \in Thread \ {t} : pc'[u] = pc[u],
             t \in Thread => pc'[t] # "verifying"
      PROVE  Untimed'
  BY <1>0, <1>1 DEF Untimed
<1>2. ASSUME NEW t \in Thread, Release(t) \/ ReleaseRecheck(t) PROVE Untimed'
  <2>1. /\ pc'[t] \in {"recheck", "return", "dispose"}
        /\ \A u \in Thread \ {t} : pc'[u] = pc[u]
    BY <1>0, <1>2 DEF Release, ReleaseRecheck, KeepOr, TypeOK
  <2>2. \/ UNCHANGED <<event_queue, timers>>
        \/ /\ event_queue' = Outdated(event_queue, hand[t])
           /\ timers' = Outdated(timers, hand[t])
    BY <1>2 DEF Release, ReleaseRecheck, KeepOr
  <2>3. \A e \in Range(Outdated(event_queue, hand[t])) \cup Range(Outdated(timers, hand[t])) :
           e.kind # "verify"
    BY <1>0, OutdatedEntries DEF Range, TypeOK
  <2>4. \A e \in Range(event_queue') \cup Range(timers') : e.kind # "verify"
    BY <1>0, <2>2, <2>3
  <2>. QED
    BY <1>0, <2>1, <2>4 DEF Untimed
<1>3. ASSUME NEW t \in Thread,
             ReleaseReturn(t) \/ ReleaseTell(t) \/ Dispose(t) \/ DisposeTell(t) \/ UnlockNone(t)
      PROVE  Untimed'
  <2>1. UNCHANGED <<event_queue, timers>>
    BY <1>3 DEF ReleaseReturn, ReleaseTell, Dispose, DisposeTell, UnlockNone
  <2>2. /\ pc'[t] \in {"tell", "dispose_count", "unlock"} \cup Resumed(t)
        /\ \A u \in Thread \ {t} : pc'[u] = pc[u]
    BY <1>0, <1>3
    DEF ReleaseReturn, ReleaseTell, Dispose, DisposeTell, UnlockNone, PlacedAt, Leaving, TypeOK
  <2>3. pc'[t] # "verifying"
    BY <2>2 DEF Resumed
  <2>. QED
    BY <1>1, <2>1, <2>2, <2>3
<1>4. ASSUME NEW t \in Client \cup {Manager}, PopIdle(t) \/ LockIdle(t) PROVE Untimed'
  <2>1. /\ t \in Thread /\ pc'[t] # "verifying" /\ UNCHANGED <<event_queue, timers>>
        /\ \A u \in Thread \ {t} : pc'[u] = pc[u]
    BY <1>0, <1>4 DEF PopIdle, LockIdle, TypeOK
  <2>. QED
    BY <1>1, <2>1
<1>5. ASSUME NEW c \in Client,
             \/ AcquireAgain(c) \/ Acquire(c) \/ CreateFromCount(c) \/ UpdateCount(c)
             \/ TryWait(c) \/ DropManaged(c) \/ RegisterWaiter(c) \/ NotifyManager(c)
      PROVE  Untimed'
  <2>1. /\ c \in Thread /\ pc'[c] # "verifying" /\ UNCHANGED <<event_queue, timers>>
        /\ \A u \in Thread \ {c} : pc'[u] = pc[u]
    <3>1. CASE \/ AcquireAgain(c) \/ Acquire(c) \/ CreateFromCount(c) \/ UpdateCount(c)
      BY <1>0, <3>1 DEF AcquireAgain, Acquire, CheckBusy, CreateFromCount, UpdateCount, TypeOK
    <3>2. CASE TryWait(c) \/ DropManaged(c) \/ RegisterWaiter(c) \/ NotifyManager(c)
      BY <1>0, <3>2 DEF TryWait, DropManaged, RegisterWaiter, NotifyManager, TypeOK
    <3>. QED
      BY <1>5, <3>1, <3>2
  <2>. QED
    BY <1>1, <2>1
<1>6. ASSUME NEW c \in Client, Answered(c) \/ AbandonWaiter(c) \/ Peek(c) \/ Discard(c)
      PROVE  Untimed'
  <2>1. /\ c \in Thread /\ pc'[c] # "verifying" /\ UNCHANGED <<event_queue, timers>>
        /\ \A u \in Thread \ {c} : pc'[u] = pc[u]
    <3>1. CASE Answered(c) \/ AbandonWaiter(c)
      BY <1>0, <3>1 DEF Answered, AbandonWaiter, Resolved, TypeOK
    <3>2. CASE Peek(c) \/ Discard(c)
      BY <1>0, <3>2 DEF Peek, Discard, Resolved, TypeOK
    <3>. QED
      BY <1>6, <3>1, <3>2
  <2>. QED
    BY <1>1, <2>1
<1>7. ASSUME NEW c \in Client, Create(c) PROVE Untimed'
  <2>1. PICK l \in FreshLock : event_queue' = Append(event_queue, Entered("created", l))
    BY <1>7 DEF Create
  <2>2. Entered("created", l) \in Entry /\ Entered("created", l).kind = "created"
    BY <2>1 DEF Entered, Entry, FreshLock
  <2>3. Range(event_queue') = Range(event_queue) \cup {Entered("created", l)}
    BY <1>0, <2>1, <2>2, RangeAppend DEF TypeOK
  <2>4. /\ pc'[c] = "creating" /\ timers' = timers /\ \A u \in Thread \ {c} : pc'[u] = pc[u]
    BY <1>0, <1>7 DEF Create, TypeOK
  <2>. QED
    BY <1>0, <2>2, <2>3, <2>4 DEF Untimed
<1>8. ASSUME NEW t \in Client \cup Worker, EndCreate(t) PROVE Untimed'
  <2>1. /\ t \in Thread /\ pc'[t] # "verifying" /\ UNCHANGED <<event_queue, timers>>
        /\ \A u \in Thread \ {t} : pc'[u] = pc[u]
    BY <1>0, <1>8 DEF EndCreate, Complete, Fail, Resolved, TypeOK
  <2>. QED
    BY <1>1, <2>1
<1>9. ASSUME NEW t \in Client \cup Worker, EndVerify(t) PROVE Untimed'
  BY <1>0, <1>9 DEF EndVerify
<1>10. ASSUME NEW c \in Client, AbandonFuture(c) PROVE Untimed'
  <2>1. \A u \in Thread : pc'[u] = pc[u] \/ pc'[u] = pc[c] \/ pc'[u] = "idle"
    BY <1>0, <1>10 DEF AbandonFuture, TypeOK
  <2>2. UNCHANGED <<event_queue, timers>>
    BY <1>10 DEF AbandonFuture
  <2>. QED
    BY <1>0, <2>1, <2>2 DEF Untimed
<1>11. ASSUME NEW t \in Client \cup Drainer, Dropping(t) \/ DropHandle(t) PROVE Untimed'
  BY <1>0, <1>11 DEF Dropping, ShutDown, ShutDownNotify, Uncount, DropHandle, Untimed
<1>12. ASSUME NEW d \in Drainer, Drain(d) \/ DrainNotify(d) PROVE Untimed'
  <2>1. d \notin Thread /\ UNCHANGED <<event_queue, timers>>
        /\ \A u \in Thread \ {d} : pc'[u] = pc[u]
    BY <1>0, <1>12 DEF Drain, DrainNotify, TypeOK
  <2>. QED
    BY <1>1, <2>1
\* There is no verify timer.
<1>13. CASE VerifyTimer
  <2>1. PICK i \in DOMAIN timers : timers[i].kind = "verify"
    BY <1>13 DEF VerifyTimer
  <2>. QED
    BY <1>0, <2>1, EntryOf DEF TypeOK
<1>14. CASE WaiterTimer \/ DrainTimer
  <2>1. PICK i \in DOMAIN timers :
          /\ timers' = RemoveAt(timers, i)
          /\ \/ pc' = pc
             \/ timers[i].kind = "drain" /\ Goto(timers[i].of, WhenUndrained(timers[i].of))
    BY <1>14 DEF WaiterTimer, DrainTimer
  <2>2. Range(timers') \subseteq Range(timers) /\ event_queue' = event_queue
    BY <1>0, <1>14, <2>1, RangeRemoveAt DEF WaiterTimer, DrainTimer, TypeOK
  <2>3. timers[i].kind = "drain" => timers[i].of \in Drainer
    BY <1>0, EntryOf DEF TypeOK
  <2>4. \A u \in Thread : pc'[u] = pc[u]
    BY <1>0, <2>1, <2>3 DEF TypeOK
  <2>. QED
    BY <1>0, <2>2, <2>4 DEF Untimed
<1>15. CASE TakeEvents \/ TakeRegisters
  <2>1. pc'[Manager] # "verifying" /\ \A u \in Thread \ {Manager} : pc'[u] = pc[u]
    BY <1>0, <1>15 DEF TakeEvents, TakeRegisters, TypeOK
  <2>2. Range(event_queue') \subseteq Range(event_queue)
    BY <1>15 DEF TakeEvents, TakeRegisters, Range
  <2>3. ASSUME NEW seq \in Seq(Entry), NEW I \in SUBSET DOMAIN seq,
               timers' = timers \o Pick(seq, I),
               \A i \in I : seq[i].kind # "verify"
        PROVE  \A e \in Range(timers') : e.kind # "verify"
    <3>1. Pick(seq, I) \in Seq(Entry) /\ Range(Pick(seq, I)) \subseteq {seq[i] : i \in I}
      BY RangePick
    <3>2. timers \in Seq(Entry)
      BY <1>0 DEF TypeOK
    <3>3. Range(timers \o Pick(seq, I)) = Range(timers) \cup Range(Pick(seq, I))
      BY <3>1, <3>2, RangeConcatenation
    <3>4. \A e \in Range(Pick(seq, I)) : e.kind # "verify"
      BY <2>3, <3>1
    <3>. QED
      BY <1>0, <2>3, <3>3, <3>4
  <2>4. CASE TakeEvents
    <3>1. VerifyAt(event_queue) = {}
      BY <1>0 DEF VerifyAt, Range
    <3>2. \A e \in Range(timers') : e.kind # "verify"
      BY <1>0, <2>3, <2>4, <3>1 DEF TakeEvents, TypeOK
    <3>. QED
      BY <1>0, <2>1, <2>2, <3>2 DEF Untimed
  <2>5. CASE TakeRegisters
    <3>1. /\ TimedAt(register_inject) \subseteq DOMAIN register_inject
          /\ \A i \in TimedAt(register_inject) : register_inject[i].kind # "verify"
      BY DEF TimedAt, WaiterAt
    <3>2. /\ timers' = timers \o Pick(register_inject, TimedAt(register_inject))
          /\ register_inject \in Seq(Entry)
      BY <1>0, <2>5 DEF TakeRegisters, TypeOK
    <3>3. \A e \in Range(timers') : e.kind # "verify"
      BY <2>3, <3>1, <3>2
    <3>. QED
      BY <1>0, <2>1, <2>2, <3>3 DEF Untimed
  <2>. QED
    BY <1>15, <2>4, <2>5
<1>16. CASE \/ Listen \/ Park \/ CheckState \/ DrainLock
            \/ CheckWaiters \/ SkipWaiter \/ CountServed \/ Send
  <2>1. UNCHANGED <<event_queue, timers>>
    BY <1>16
    DEF Listen, Park, CheckState, DrainLock, CheckWaiters, SkipWaiter, CountServed,
        DecrementWaiters, Send
  <2>2. pc' = pc \/ \E next : Goto(Manager, next) /\ next # "verifying"
    <3>1. \A list, l : NextWaiter(list, l) # "verifying"
      BY DEF NextWaiter
    <3>. QED
      BY <1>16, <3>1
      DEF Listen, Park, CheckState, DrainLock, CheckWaiters, SkipWaiter, CountServed,
          DecrementWaiters, Send
  <2>. QED
    BY <1>0, <2>1, <2>2 DEF TypeOK, Untimed
<1>17. CASE DrainRetain
  <2>1. \A u \in Thread : pc'[u] = pc[u] \/ pc'[u] \in {"park", "stopped", "drained", "notify drained"}
    <3>1. CASE Present # {}
      BY <1>0, <1>17, <3>1 DEF DrainRetain, TypeOK
    <3>2. CASE Present = {}
      <4>1. \A u \in Thread : pc'[u] = "stopped" \/ pc'[u] = WhenDrained(u) \/ pc'[u] = pc[u]
        BY <1>0, <1>17, <3>2 DEF DrainRetain, TypeOK
      <4>. QED
        BY <4>1 DEF WhenDrained
    <3>. QED
      BY <3>1, <3>2
  <2>2. Range(timers') \subseteq Range(timers) /\ event_queue' = event_queue
    BY <1>17 DEF DrainRetain, Range
  <2>. QED
    BY <1>0, <2>1, <2>2 DEF Untimed
<1>18. CASE UNCHANGED vars
  BY <1>0, <1>18 DEF vars, Untimed
<1>. QED
  BY <1>0, <1>2, <1>3, <1>4, <1>5, <1>6, <1>7, <1>8, <1>9, <1>10, <1>11, <1>12, <1>13, <1>14,
     <1>15, <1>16, <1>17, <1>18
  DEF Next, ClientStep, ClientChoice, WorkerStep, DrainerStep, ManagerStep, Releasing

\* Nobody drains a new pool.
LEMMA UndrainedInit == Init => Undrained
<1>. SUFFICES ASSUME Init, "drain" \notin config.may PROVE Undrained
  BY DEF Undrained
<1>1. \A d \in Drainer : d \notin Client /\ handle[d] = "gone"
  <2>1. config.clients \subseteq Client
    BY PoolAssumption DEF Init, PoolConfig
  <2>. QED
    BY <2>1, NamesAssumption DEF Init
<1>2. pc[Manager] = "timers" /\ back[Manager] = "idle"
  BY DEF Init, Thread
<1>. QED
  BY <1>1, <1>2 DEF Init, Undrained, Range

\* Only Pool::drain registers a drain, and only a drain that is registered starts one.
LEMMA UndrainedStep == Sound /\ Sound' /\ Undrained /\ [Next]_vars => Undrained'
<1>. SUFFICES ASSUME Sound, Sound', Undrained, [Next]_vars, "drain" \notin config.may
              PROVE  Undrained'
  BY ConfigKept DEF Undrained
<1>0. /\ Client \subseteq Thread /\ Worker \subseteq Thread /\ Manager \in Thread
      /\ Manager \notin Client /\ Manager \notin Worker
      /\ Thread \cap Drainer = {} /\ Client \cap Worker = {}
      /\ TypeOK /\ TypeOK'
      /\ \A e \in Range(register_inject) : e.kind # "drain"
      /\ \A d \in Drainer : handle[d] = "gone"
      /\ state # "DRAIN" /\ pc[Manager] # "drain" /\ back[Manager] # "drain"
  BY NamesAssumption DEF Thread, Sound, Undrained
<1>. USE DEF counters, queues, client, manager, Goto, Call, Return, Hold, LetGo
\* What neither registers nor starts a drain, nor comes to the manager's.
<1>1. ASSUME UNCHANGED <<register_inject, handle, state>>,
             pc'[Manager] # "drain" /\ back'[Manager] # "drain"
      PROVE  Undrained'
  BY <1>0, <1>1 DEF Undrained
<1>2. ASSUME NEW t \in Thread, Releasing(t) PROVE Undrained'
  <2>1. UNCHANGED <<register_inject, handle, state>>
    BY <1>2
    DEF Releasing, Release, ReleaseRecheck, ReleaseReturn, ReleaseTell, Dispose, DisposeTell,
        UnlockNone
  <2>2. \/ UNCHANGED back /\ \E next \in {"recheck", "return", "dispose", "tell", "dispose_count",
                                          "unlock"} : Goto(t, next)
        \/ Return(t)
    BY <1>2
    DEF Releasing, Release, ReleaseRecheck, KeepOr, ReleaseReturn, ReleaseTell, Dispose,
        DisposeTell, UnlockNone
  <2>3. pc'[Manager] # "drain" /\ back'[Manager] # "drain"
    BY <1>0, <2>2 DEF TypeOK
  <2>. QED
    BY <1>1, <2>1, <2>3
<1>3. ASSUME NEW t \in Client \cup {Manager}, PopIdle(t) \/ LockIdle(t) PROVE Undrained'
  <2>1. UNCHANGED <<register_inject, handle, state>>
    BY <1>3 DEF PopIdle, LockIdle
  <2>2. \/ UNCHANGED back /\ \E next \in {"state", "count", "lock", "pop", "send", "peek"} :
                                Goto(t, next)
        \/ Call(t, "unlock", "pop")
    BY <1>3 DEF PopIdle, LockIdle
  <2>3. pc'[Manager] # "drain" /\ back'[Manager] # "drain"
    BY <1>0, <2>2 DEF TypeOK
  <2>. QED
    BY <1>1, <2>1, <2>3
<1>4. ASSUME NEW c \in Client,
             \/ AcquireAgain(c) \/ Acquire(c) \/ CreateFromCount(c) \/ UpdateCount(c)
             \/ TryWait(c) \/ DropManaged(c) \/ NotifyManager(c) \/ Create(c)
             \/ Answered(c) \/ AbandonWaiter(c) \/ Peek(c) \/ Discard(c) \/ AbandonFuture(c)
      PROVE  Undrained'
  <2>1. UNCHANGED <<register_inject, handle, state>>
    BY <1>4
    DEF AcquireAgain, Acquire, CheckBusy, CreateFromCount, UpdateCount, TryWait, DropManaged,
        NotifyManager, Create, Answered, AbandonWaiter, Peek, Discard, AbandonFuture
  <2>2. pc'[Manager] = pc[Manager] /\ back'[Manager] = back[Manager]
    <3>1. CASE \/ AcquireAgain(c) \/ Acquire(c) \/ CreateFromCount(c) \/ UpdateCount(c)
      BY <1>0, <3>1 DEF AcquireAgain, Acquire, CheckBusy, CreateFromCount, UpdateCount, TypeOK
    <3>2. CASE TryWait(c) \/ DropManaged(c) \/ NotifyManager(c) \/ Create(c)
      BY <1>0, <3>2 DEF TryWait, DropManaged, NotifyManager, Create, TypeOK
    <3>3. CASE Answered(c) \/ AbandonWaiter(c)
      BY <1>0, <3>3 DEF Answered, AbandonWaiter, Resolved, TypeOK
    <3>4. CASE Peek(c) \/ Discard(c)
      BY <1>0, <3>4 DEF Peek, Discard, Resolved, TypeOK
    <3>5. CASE AbandonFuture(c)
      BY <1>0, <3>5 DEF AbandonFuture, TypeOK
    <3>. QED
      BY <1>4, <3>1, <3>2, <3>3, <3>4, <3>5
  <2>. QED
    BY <1>0, <1>1, <2>1, <2>2
<1>5. ASSUME NEW c \in Client, RegisterWaiter(c) PROVE Undrained'
  <2>1. ticket[c] \in Ticket
    BY <1>5 DEF RegisterWaiter, Sound, Placed, PlacedAt, Thread
  <2>2. Entered("waiter", ticket[c]) \in Entry /\ Entered("waiter", ticket[c]).kind = "waiter"
    BY <2>1 DEF Entered, Entry
  <2>3. Range(register_inject') = Range(register_inject) \cup {Entered("waiter", ticket[c])}
    BY <1>0, <1>5, <2>2, RangeAppend DEF RegisterWaiter, TypeOK
  <2>4. pc'[Manager] = pc[Manager] /\ UNCHANGED <<handle, state, back>>
    BY <1>0, <1>5 DEF RegisterWaiter, TypeOK
  <2>. QED
    BY <1>0, <2>2, <2>3, <2>4 DEF Undrained
<1>6. ASSUME NEW t \in Client \cup Worker, EndCreate(t) \/ EndVerify(t) PROVE Undrained'
  <2>1. UNCHANGED <<register_inject, handle, state>>
    BY <1>6 DEF EndCreate, EndVerify
  <2>2. pc'[Manager] = pc[Manager] /\ back'[Manager] = back[Manager]
    <3>1. CASE EndCreate(t)
      BY <1>0, <3>1 DEF EndCreate, Complete, Fail, Resolved, TypeOK
    <3>2. CASE EndVerify(t)
      <4>1. \E next, ret : \/ Call(t, next, ret)
                           \/ Goto(t, next) /\ UNCHANGED back
        BY <3>2 DEF EndVerify, Complete, Fail, Resolved
      <4>. QED
        BY <1>0, <4>1 DEF TypeOK
    <3>. QED
      BY <1>6, <3>1, <3>2
  <2>. QED
    BY <1>0, <1>1, <2>1, <2>2
<1>7. ASSUME NEW t \in Client \cup Drainer, Dropping(t) \/ DropHandle(t) PROVE Undrained'
  <2>1. UNCHANGED <<register_inject, pc, back>> /\ state' \in {state, "SHUTDOWN"}
    BY <1>7 DEF Dropping, ShutDown, ShutDownNotify, Uncount, DropHandle
  <2>2. handle[t] # "gone" /\ \E v : handle' = [handle EXCEPT ![t] = v]
    BY <1>7 DEF Dropping, ShutDown, ShutDownNotify, Uncount, DropHandle
  <2>3. \A d \in Drainer : handle'[d] = "gone"
    BY <1>0, <2>2 DEF TypeOK
  <2>. QED
    BY <1>0, <2>1, <2>3 DEF Undrained
<1>8. ASSUME NEW d \in Drainer, Drain(d) PROVE Undrained'
  BY <1>0, <1>8 DEF Drain
<1>9. ASSUME NEW d \in Drainer, DrainNotify(d) PROVE Undrained'
  <2>1. d # Manager /\ UNCHANGED <<register_inject, handle, state, back>>
    BY <1>0, <1>9 DEF DrainNotify
  <2>2. pc'[Manager] = pc[Manager]
    BY <1>0, <1>9, <2>1 DEF DrainNotify, TypeOK
  <2>. QED
    BY <1>0, <1>1, <2>1, <2>2
<1>10. CASE VerifyTimer
  <2>1. /\ pc[Manager] = "timers"
        /\ UNCHANGED <<register_inject, handle, state>>
        /\ \/ UNCHANGED <<lock, repo, pc, back, hand>>
           \/ \E old \in Lock \cap Named(timers), new \in FreshLock : Moved(old, new)
    BY <1>0, <1>10, Fired
  <2>2. ASSUME NEW old, NEW new, Moved(old, new)
        PROVE  pc'[Manager] # "drain" /\ back'[Manager] # "drain"
    BY <1>0, <2>1, <2>2 DEF Moved, TypeOK
  <2>. QED
    BY <1>0, <1>1, <2>1, <2>2
<1>11. CASE WaiterTimer
  BY <1>0, <1>1, <1>11 DEF WaiterTimer
<1>12. CASE DrainTimer
  <2>1. PICK i \in DOMAIN timers :
          timers[i].kind = "drain" /\ Goto(timers[i].of, WhenUndrained(timers[i].of))
    BY <1>12 DEF DrainTimer
  <2>2. timers[i].of \in Drainer
    BY <1>0, <2>1, EntryOf DEF TypeOK
  <2>3. pc'[Manager] = pc[Manager] /\ UNCHANGED <<register_inject, handle, back>>
        /\ state' \in {state, "ACTIVE"}
    BY <1>0, <1>12, <2>1, <2>2 DEF DrainTimer, TypeOK
  <2>. QED
    BY <1>0, <2>3 DEF Undrained
<1>13. CASE Listen \/ TakeEvents \/ Park \/ CheckWaiters \/ Send \/ SkipWaiter \/ CountServed
  <2>1. UNCHANGED <<register_inject, handle, state>>
    BY <1>13
    DEF Listen, TakeEvents, Park, CheckWaiters, Send, SkipWaiter, CountServed, DecrementWaiters
  <2>2. /\ \E next : Goto(Manager, next) /\ next # "drain"
        /\ back' = back \/ back' = [back EXCEPT ![Manager] = "state"]
    <3>1. \A list, l : NextWaiter(list, l) # "drain"
      BY DEF NextWaiter
    <3>. QED
      BY <1>13, <3>1
      DEF Listen, TakeEvents, Park, CheckWaiters, Send, SkipWaiter, CountServed, DecrementWaiters
  <2>3. pc'[Manager] # "drain" /\ back'[Manager] # "drain"
    BY <1>0, <2>2 DEF TypeOK
  <2>. QED
    BY <1>1, <2>1, <2>3
<1>14. CASE TakeRegisters
  <2>1. /\ ~Draining(register_inject) /\ register_inject' = <<>>
        /\ UNCHANGED <<state, back, handle>> /\ pc'[Manager] = "waiters"
    BY <1>0, <1>14 DEF TakeRegisters, Draining, TypeOK
  <2>. QED
    BY <1>0, <2>1 DEF Undrained, Range
<1>15. CASE CheckState
  <2>1. pc'[Manager] = "park" /\ UNCHANGED <<register_inject, handle, state, back>>
    BY <1>0, <1>15 DEF CheckState, TypeOK
  <2>. QED
    BY <1>0, <1>1, <2>1
<1>16. CASE DrainLock \/ DrainRetain
  BY <1>0, <1>16 DEF DrainLock, DrainRetain
<1>17. CASE UNCHANGED vars
  BY <1>0, <1>1, <1>17 DEF vars
<1>. QED
  BY <1>0, <1>2, <1>3, <1>4, <1>5, <1>6, <1>7, <1>8, <1>9, <1>10, <1>11, <1>12, <1>13, <1>14,
     <1>15, <1>16, <1>17
  DEF Next, ClientStep, ClientChoice, WorkerStep, DrainerStep, ManagerStep

\* There are no guards at first.
LEMMA FilledInit == Init => Filled
  BY NamesAssumption DEF Init, Filled, Intact, Thread

\* A step of thread t that writes no lock but its own, or one that nobody has.
LEMMA FilledKeeps ==
  ASSUME TypeOK, Placed, Exclusive, Filled, CountedOnce, NEW t \in Thread,
         \A u \in Thread \ {t} : pc'[u] = pc[u] /\ hand'[u] = hand[u],
         Intact(t)',
         \A l \in Lock : lock'[l].full = lock[l].full \/ Guards(l) \subseteq {t}
  PROVE  Filled'
<1>1. ASSUME NEW u \in Thread \ {t} PROVE Intact(u)'
  <2>1. Intact(u) /\ PlacedAt(u)
    BY DEF Filled, Placed
  <2>2. pc[u] \in {"release", "dispose"} => hand[u] \in Lock /\ GuardOf(u)
    BY <2>1 DEF PlacedAt, Handling, Guarded, GuardOf
  <2>3. hand[u] \in Lock /\ GuardOf(u) => lock'[hand[u]].full = lock[hand[u]].full
    BY <1>1, GuardHolds
  <2>. QED
    BY <1>1, <2>1, <2>2, <2>3 DEF Intact
<1>. QED
  BY <1>1 DEF Filled

\* A resource stays where it is until it is disposed of, and disposed of but once
\* (mod.rs:56-74): without timers and drains, who goes to release() or dispose() has one
\* that was handed to it (operation.rs:123-143, managed.rs:66-72, acquire.rs:60-96,
\* pool.rs:236-259).
LEMMA FilledStep ==
  Sound /\ Untimed /\ Undrained /\ Filled /\ [Next]_vars => Filled'
<1>. SUFFICES ASSUME Sound, Untimed, Undrained, Filled, [Next]_vars, CountedOnce
              PROVE  Filled'
  BY ConfigKept DEF Filled, CountedOnce, IdleElapses, IdleTimeout
<1>. DEFINE Out == {"release", "dispose"}
<1>0. /\ Client \subseteq Thread /\ Worker \subseteq Thread /\ Manager \in Thread
      /\ Manager \notin Client /\ Manager \notin Worker
      /\ Thread \cap Drainer = {} /\ Client \cap Worker = {}
      /\ TypeOK /\ Placed /\ Exclusive /\ Stowed /\ Handed
      /\ \A u \in Thread : PlacedAt(u) /\ HandedAt(u) /\ Intact(u)
      /\ ~IdleElapses
  BY NamesAssumption DEF Thread, Sound, Placed, Handed, Filled, CountedOnce
<1>. USE DEF counters, queues, client, manager, Goto, Call, Return, Hold, LetGo
\* What changes none of this.
<1>1. ASSUME UNCHANGED <<lock, hand>>, \A u \in Thread : pc'[u] = pc[u]
      PROVE  Filled'
  BY <1>0, <1>1 DEF Filled, Intact
\* A step of t that leaves the locks alone, to neither place or with a resource.
<1>2. ASSUME NEW t \in Thread, UNCHANGED lock, pc'[t] \notin Out \/ lock[hand'[t]].full,
             \A u \in Thread \ {t} : pc'[u] = pc[u] /\ hand'[u] = hand[u]
      PROVE  Filled'
  BY <1>0, <1>2, FilledKeeps DEF Intact
\* A thread that has the guard has it alone.
<1>3. ASSUME NEW t \in Thread, pc[t] \in Guarded
      PROVE  hand[t] \in Lock /\ Guards(hand[t]) = {t}
  BY <1>0, <1>3, GuardHolds DEF PlacedAt, Handling, GuardOf
\* A step of t that writes its own lock, or one that nobody has.
<1>4. ASSUME NEW t \in Thread, NEW l \in Lock, NEW v,
             Guards(l) \subseteq {t} \/ v.full = lock[l].full,
             lock' = [lock EXCEPT ![l] = v],
             pc'[t] \notin Out \/ (hand'[t] = l /\ v.full),
             \A u \in Thread \ {t} : pc'[u] = pc[u] /\ hand'[u] = hand[u]
      PROVE  Filled'
  <2>1. lock'[l] = v /\ \A m \in Lock \ {l} : lock'[m] = lock[m]
    BY <1>0, <1>4 DEF TypeOK
  <2>2. Intact(t)'
    BY <1>4, <2>1 DEF Intact
  <2>. QED
    BY <1>0, <1>4, <2>1, <2>2, FilledKeeps
<1>5. ASSUME NEW t \in Thread, Release(t) \/ ReleaseRecheck(t) PROVE Filled'
  <2>1. /\ pc[t] \in {"release", "recheck"} /\ pc'[t] \in {"recheck", "return", "dispose"}
        /\ pc'[t] = "dispose" => lock' = lock
        /\ \A u \in Thread \ {t} : pc'[u] = pc[u]
        /\ UNCHANGED hand
    BY <1>0, <1>5 DEF Release, ReleaseRecheck, KeepOr, TypeOK
  <2>2. hand[t] \in Lock /\ Guards(hand[t]) = {t} /\ lock[hand[t]].full
    BY <1>0, <1>3, <2>1 DEF Intact, Stowed, Guarded
  <2>3. CASE lock' = lock
    BY <1>2, <2>1, <2>2, <2>3
  <2>4. CASE lock' = [lock EXCEPT ![hand[t]].state = "SOME"] /\ pc'[t] # "dispose"
    BY <1>4, <2>1, <2>2, <2>4
  <2>. QED
    BY <1>5, <2>1, <2>3, <2>4 DEF Release, ReleaseRecheck, KeepOr
<1>6. ASSUME NEW t \in Thread, ReleaseReturn(t) \/ ReleaseTell(t) \/ DisposeTell(t)
      PROVE  Filled'
  <2>1. /\ pc'[t] \in {"tell", "unlock"} \cup Resumed(t) /\ UNCHANGED lock
        /\ \A u \in Thread \ {t} : pc'[u] = pc[u] /\ hand'[u] = hand[u]
    BY <1>0, <1>6 DEF ReleaseReturn, ReleaseTell, DisposeTell, PlacedAt, Leaving, TypeOK
  <2>. QED
    BY <1>2, <2>1 DEF Resumed
<1>7. ASSUME NEW t \in Thread, Dispose(t) \/ UnlockNone(t) PROVE Filled'
  <2>1. /\ pc[t] \in {"dispose", "unlock"}
        /\ \A u \in Thread \ {t} : pc'[u] = pc[u] /\ hand'[u] = hand[u]
        /\ pc'[t] \in {"dispose_count"} \cup Resumed(t)
    BY <1>0, <1>7 DEF Dispose, UnlockNone, PlacedAt, Leaving, TypeOK
  <2>2. hand[t] \in Lock /\ Guards(hand[t]) = {t}
    BY <1>3, <2>1 DEF Guarded
  <2>3. pc'[t] \notin Out
    BY <2>1 DEF Resumed
  <2>4. CASE lock' = [lock EXCEPT ![hand[t]].full = FALSE]
    BY <1>4, <2>1, <2>2, <2>3, <2>4
  <2>5. CASE lock' = [lock EXCEPT ![hand[t]] = Empty]
    BY <1>4, <2>1, <2>2, <2>3, <2>5
  <2>. QED
    BY <1>7, <2>4, <2>5 DEF Dispose, UnlockNone
<1>8. ASSUME NEW t \in Client \cup {Manager}, PopIdle(t) PROVE Filled'
  <2>1. /\ t \in Thread /\ pc'[t] \in {"state", "count", "lock"} /\ UNCHANGED lock
        /\ \A u \in Thread \ {t} : pc'[u] = pc[u] /\ hand'[u] = hand[u]
    BY <1>0, <1>8 DEF PopIdle, TypeOK
  <2>. QED
    BY <1>2, <2>1
<1>9. ASSUME NEW t \in Client \cup {Manager}, LockIdle(t) PROVE Filled'
  <2>1. /\ t \in Thread /\ pc[t] = "lock" /\ pc'[t] \in {"pop", "send", "peek", "unlock"}
        /\ lock' = [lock EXCEPT ![hand[t]].state = "HELD"]
        /\ \A u \in Thread \ {t} : pc'[u] = pc[u] /\ hand'[u] = hand[u]
    BY <1>0, <1>9 DEF LockIdle, TypeOK
  <2>2. hand[t] \in Lock
    BY <1>0, <2>1 DEF PlacedAt, Handling
  <2>3. \A m \in Lock : lock'[m].full = lock[m].full
    BY <1>0, <2>1, <2>2, Wrote DEF TypeOK
  <2>4. Intact(t)'
    BY <2>1 DEF Intact
  <2>. QED
    BY <1>0, <2>1, <2>3, <2>4, FilledKeeps
\* Clients.
<1>10. ASSUME NEW c \in Client,
              \/ AcquireAgain(c) \/ Acquire(c) \/ CreateFromCount(c) \/ UpdateCount(c)
              \/ RegisterWaiter(c) \/ NotifyManager(c) \/ TryWait(c)
       PROVE  Filled'
  <2>1. UNCHANGED <<lock, hand>>
    BY <1>10
    DEF AcquireAgain, Acquire, CheckBusy, CreateFromCount, UpdateCount, RegisterWaiter,
        NotifyManager, TryWait
  <2>2. /\ c \in Thread /\ pc'[c] \notin Out
        /\ \A u \in Thread \ {c} : pc'[u] = pc[u]
    <3>1. CASE AcquireAgain(c) \/ Acquire(c) \/ CreateFromCount(c) \/ UpdateCount(c)
      BY <1>0, <3>1 DEF AcquireAgain, Acquire, CheckBusy, CreateFromCount, UpdateCount, TypeOK
    <3>2. CASE RegisterWaiter(c) \/ NotifyManager(c) \/ TryWait(c)
      BY <1>0, <3>2 DEF RegisterWaiter, NotifyManager, TryWait, TypeOK
    <3>. QED
      BY <1>10, <3>1, <3>2
  <2>. QED
    BY <1>2, <2>1, <2>2
<1>11. ASSUME NEW c \in Client, DropManaged(c) \/ Peek(c) PROVE Filled'
  <2>1. /\ pc[c] \in {"managed", "peek"} /\ c \in Thread /\ UNCHANGED <<lock, hand>>
        /\ \A u \in Thread \ {c} : pc'[u] = pc[u]
    BY <1>0, <1>11 DEF DropManaged, Peek, Resolved, TypeOK
  <2>. QED
    BY <1>0, <1>2, <2>1 DEF HandedAt
<1>12. ASSUME NEW c \in Client, Discard(c) PROVE Filled'
  <2>1. /\ pc[c] = "managed" /\ c \in Thread /\ UNCHANGED <<pc, hand>>
        /\ lock' = [lock EXCEPT ![hand[c]].reusable = FALSE]
    BY <1>0, <1>12 DEF Discard
  <2>2. hand[c] \in Lock /\ Guards(hand[c]) = {c}
    BY <1>3, <2>1 DEF Guarded
  <2>. QED
    BY <1>4, <2>1, <2>2
<1>13. ASSUME NEW c \in Client, Answered(c) \/ AbandonWaiter(c) PROVE Filled'
  <2>1. /\ c \in Thread /\ pc[c] = "waiting" /\ ticket[c] \in Ticket /\ UNCHANGED lock
    BY <1>0, <1>13 DEF Answered, AbandonWaiter, PlacedAt
  <2>2. \A u \in Thread \ {c} : pc'[u] = pc[u] /\ hand'[u] = hand[u]
    BY <1>0, <1>13, <2>1 DEF Answered, AbandonWaiter, Resolved, TypeOK
  <2>3. \/ pc'[c] = "idle"
        \/ hand'[c] = letter[ticket[c]] /\ letter[ticket[c]] \in Lock
    BY <1>0, <1>13, <2>1 DEF Answered, AbandonWaiter, Resolved, TypeOK
  <2>4. letter[ticket[c]] \in Lock => lock[letter[ticket[c]]].full
    BY <1>0, <2>1 DEF Handed
  <2>. QED
    BY <1>2, <2>1, <2>2, <2>3, <2>4
<1>14. ASSUME NEW t \in Client \cup Worker, EndCreate(t) PROVE Filled'
  <2>1. /\ t \in Thread /\ pc[t] = "creating" /\ UNCHANGED hand
        /\ \A u \in Thread \ {t} : pc'[u] = pc[u]
    BY <1>0, <1>14 DEF EndCreate, Complete, Fail, Resolved, TypeOK
  <2>2. hand[t] \in Lock /\ Guards(hand[t]) = {t}
    BY <1>3, <2>1 DEF Guarded
  <2>3. CASE lock' = [lock EXCEPT ![hand[t]].full = TRUE]
    <3>1. lock'[hand[t]].full /\ \A m \in Lock \ {hand[t]} : lock'[m] = lock[m]
      BY <1>0, <2>2, <2>3, Wrote DEF TypeOK
    <3>2. Intact(t)'
      BY <2>1, <3>1 DEF Intact
    <3>. QED
      BY <1>0, <2>1, <2>2, <3>1, <3>2, FilledKeeps
  <2>4. CASE lock' = lock /\ pc'[t] = "unlock"
    BY <1>2, <2>1, <2>4
  <2>. QED
    BY <1>0, <1>14, <2>1, <2>3, <2>4 DEF EndCreate, Fail, TypeOK
<1>15. ASSUME NEW t \in Client \cup Worker, EndVerify(t) PROVE Filled'
  BY <1>0, <1>15 DEF EndVerify, Untimed
<1>16. ASSUME NEW c \in Client, Create(c) PROVE Filled'
  <2>1. PICK l \in FreshLock :
          /\ lock' = [lock EXCEPT ![l] = [state |-> "HELD", full |-> FALSE,
                                          reusable |-> IdleTimeout, expired |-> FALSE]]
          /\ Hold(c, l)
    BY <1>16 DEF Create
  <2>2. l \in Lock /\ Guards(l) = {}
    BY <1>0, FreshOpen
  <2>3. /\ c \in Thread /\ pc'[c] = "creating"
        /\ \A u \in Thread \ {c} : pc'[u] = pc[u] /\ hand'[u] = hand[u]
    BY <1>0, <1>16, <2>1 DEF Create, TypeOK
  <2>. QED
    BY <1>4, <2>1, <2>2, <2>3
<1>17. ASSUME NEW c \in Client, AbandonFuture(c) PROVE Filled'
  <2>1. PICK w \in Worker : /\ pc[w] = "idle" /\ pc[c] \in {"creating", "verifying"}
                           /\ pc' = [pc EXCEPT ![w] = pc[c], ![c] = "idle"]
                           /\ hand' = [hand EXCEPT ![w] = hand[c], ![c] = NoLock]
    BY <1>17 DEF AbandonFuture
  <2>2. w # c /\ c \in Thread /\ w \in Thread /\ UNCHANGED lock
    BY <1>0, <1>17, <2>1 DEF AbandonFuture
  <2>3. /\ pc'[w] \notin Out /\ pc'[c] \notin Out
        /\ \A u \in Thread \ {w, c} : pc'[u] = pc[u] /\ hand'[u] = hand[u]
    BY <1>0, <2>1, <2>2 DEF TypeOK
  <2>. QED
    BY <1>0, <2>2, <2>3 DEF Filled, Intact
<1>18. ASSUME NEW t \in Client \cup Drainer, Dropping(t) \/ DropHandle(t) PROVE Filled'
  BY <1>1, <1>18 DEF Dropping, ShutDown, ShutDownNotify, Uncount, DropHandle
<1>19. ASSUME NEW d \in Drainer, Drain(d) \/ DrainNotify(d) PROVE Filled'
  <2>1. d \notin Thread /\ UNCHANGED <<lock, hand>>
    BY <1>0, <1>19 DEF Drain, DrainNotify
  <2>2. \A u \in Thread : pc'[u] = pc[u]
    BY <1>0, <1>19, <2>1 DEF Drain, DrainNotify, TypeOK
  <2>. QED
    BY <1>1, <2>1, <2>2
\* The manager.
<1>20. CASE VerifyTimer
  <2>1. PICK i \in DOMAIN timers : timers[i].kind = "verify"
    BY <1>20 DEF VerifyTimer
  <2>. QED
    BY <1>0, <2>1, EntryOf DEF TypeOK, Untimed
<1>21. CASE WaiterTimer
  BY <1>1, <1>21 DEF WaiterTimer
<1>22. CASE DrainTimer
  <2>1. PICK i \in DOMAIN timers :
          timers[i].kind = "drain" /\ Goto(timers[i].of, WhenUndrained(timers[i].of))
    BY <1>22 DEF DrainTimer
  <2>2. timers[i].of \in Drainer
    BY <1>0, <2>1, EntryOf DEF TypeOK
  <2>3. \A u \in Thread : pc'[u] = pc[u]
    BY <1>0, <2>1, <2>2 DEF TypeOK
  <2>. QED
    BY <1>1, <1>22, <2>3 DEF DrainTimer
<1>23. CASE Listen \/ TakeEvents \/ TakeRegisters \/ Park \/ CheckState
  <2>1. /\ pc'[Manager] \notin Out
        /\ \A u \in Thread \ {Manager} : pc'[u] = pc[u]
    BY <1>0, <1>23 DEF Listen, TakeEvents, TakeRegisters, Park, CheckState, TypeOK
  <2>2. UNCHANGED <<lock, hand>>
    BY <1>23 DEF Listen, TakeEvents, TakeRegisters, Park, CheckState
  <2>. QED
    BY <1>0, <1>2, <2>1, <2>2
<1>24. ASSUME NEW list, Goto(Manager, NextWaiter(list, hand[Manager])),
              UNCHANGED <<lock, hand>>,
              hand[Manager] # NoLock => lock[hand[Manager]].full
       PROVE  Filled'
  <2>1. /\ pc'[Manager] = NextWaiter(list, hand[Manager])
        /\ \A u \in Thread \ {Manager} : pc'[u] = pc[u]
    BY <1>0, <1>24 DEF TypeOK
  <2>2. NextWaiter(list, hand[Manager]) \in Out => hand[Manager] # NoLock
    BY DEF NextWaiter
  <2>. QED
    BY <1>0, <1>2, <1>24, <2>1, <2>2
<1>25. CASE CheckWaiters
  <2>1. pc[Manager] = "waiters" /\ UNCHANGED <<lock, hand>>
    BY <1>25 DEF CheckWaiters
  <2>2. hand[Manager] = NoLock
    BY <1>0, <2>1 DEF PlacedAt, Handling, Guarded
  <2>3. CASE Goto(Manager, NextWaiter(waiters, NoLock))
    BY <1>24, <2>1, <2>2, <2>3
  <2>4. CASE Goto(Manager, "state")
    <3>1. pc'[Manager] = "state" /\ \A u \in Thread \ {Manager} : pc'[u] = pc[u]
      BY <1>0, <2>4 DEF TypeOK
    <3>. QED
      BY <1>0, <1>2, <2>1, <3>1
  <2>. QED
    BY <1>25, <2>3, <2>4 DEF CheckWaiters
<1>26. CASE SkipWaiter \/ CountServed
  <2>1. /\ pc[Manager] \in {"skip", "decrement"} /\ UNCHANGED <<lock, hand>>
        /\ Goto(Manager, NextWaiter(waiters', hand[Manager]))
    BY <1>26 DEF SkipWaiter, CountServed, DecrementWaiters
  <2>2. hand[Manager] # NoLock => lock[hand[Manager]].full
    BY <1>0, <2>1 DEF HandedAt
  <2>. QED
    BY <1>24, <2>1, <2>2
<1>27. CASE Send
  <2>1. /\ pc'[Manager] = "decrement" /\ UNCHANGED lock
        /\ \A u \in Thread \ {Manager} : pc'[u] = pc[u] /\ hand'[u] = hand[u]
    BY <1>0, <1>27 DEF Send, TypeOK
  <2>. QED
    BY <1>0, <1>2, <2>1
<1>28. CASE DrainLock \/ DrainRetain
  BY <1>28 DEF DrainLock, DrainRetain, Undrained, CountedOnce
<1>29. CASE UNCHANGED vars
  BY <1>1, <1>29 DEF vars
<1>. QED
  BY <1>0, <1>5, <1>6, <1>7, <1>8, <1>9, <1>10, <1>11, <1>12, <1>13, <1>14, <1>15, <1>16,
     <1>17, <1>18, <1>19, <1>20, <1>21, <1>22, <1>23, <1>25, <1>26, <1>27, <1>28, <1>29
  DEF Next, ClientStep, ClientChoice, WorkerStep, DrainerStep, ManagerStep, Releasing

-----------------------------------------------------------------------------
(* What the count is of. *)

\* A count that does not come to the ends of a usize does not wrap there.
LEMMA CountsOn ==
  ASSUME NEW n \in 0..UsizeMax
  PROVE  (n > 0 => Less(n) = n - 1) /\ (n < UsizeMax => More(n) = n + 1)
<1>. DEFINE M == UsizeMax + 1
<1>1. M \in Nat \ {0} /\ n \in Nat /\ n - 1 < M /\ UsizeMax < M
      /\ (n < UsizeMax => n + 1 < M)
  BY PoolAssumption
<1>. HIDE DEF M
<1>2. \A a \in Nat : a < M => a % M = a
  BY <1>1
<1>3. (n > 0 => (n - 1) % M = n - 1) /\ (n < UsizeMax => (n + 1) % M = n + 1)
  BY <1>1, <1>2
<1>. QED
  BY <1>3 DEF Less, More, M

\* There is nothing at first, and the count is zero.
LEMMA CountedInit == Init => Counted
<1>. SUFFICES ASSUME Init, CountedOnce PROVE Counted
  BY DEF Counted
<1>1. Resources = {} /\ BeingCreated = {}
  BY NamesAssumption DEF Init, Resources, BeingCreated, Empty, Thread
<1>2. Allocated = {} /\ IsFiniteSet(Allocated) /\ Cardinality(Allocated) = 0
  BY <1>1, FS_EmptySet DEF Allocated
<1>3. \A c \in Client : pc[c] # "cas"
  BY NamesAssumption DEF Init, Thread
<1>4. MaxCount \in Nat /\ count = 0
  BY PoolAssumption DEF Init, MaxCount, PoolConfig
<1>. QED
  BY <1>2, <1>3, <1>4 DEF Counted

\* The steps that count: one more, one less, and one less than is counted where a
\* creation has failed.
LEMMA CountedFrom ==
  ASSUME TypeOK, Counted, CountedOnce, config' = config, IsFiniteSet(Allocated'),
         MaxCount # 0 => \A c \in Client : pc'[c] = "cas" => seen'[c] <= MaxCount,
         LET size == Cardinality(Allocated)
             now == Cardinality(Allocated')
         IN  \/ count' = count /\ now = size
             \/ count' = count + 1 /\ now = size + 1 /\ (MaxCount # 0 => count <= MaxCount)
             \/ count' = count - 1 /\ now = size - 1
             \/ count' = count /\ now = size - 1 /\ "err" \in config.on_create
             \/ MaxCount = 0 /\ "err" \in config.on_create
  PROVE  Counted'
<1>. DEFINE size == Cardinality(Allocated)
            now == Cardinality(Allocated')
<1>1. size \in Nat /\ now \in Nat /\ count \in Nat
  BY FS_CardinalityType DEF TypeOK, Counted
<1>2. MaxCount \in Nat /\ MaxCount' = MaxCount
  BY PoolAssumption DEF TypeOK, MaxCount, PoolConfig
<1>3. /\ "err" \notin config.on_create => count = size
      /\ MaxCount # 0 => size <= count /\ count <= MaxCount + 1
  BY DEF Counted
<1>4. \/ count' = count /\ now = size
      \/ count' = count + 1 /\ now = size + 1 /\ (MaxCount # 0 => count <= MaxCount)
      \/ count' = count - 1 /\ now = size - 1
      \/ count' = count /\ now = size - 1 /\ "err" \in config.on_create
      \/ MaxCount = 0 /\ "err" \in config.on_create
  OBVIOUS
<1>. HIDE DEF size, now
<1>5. /\ "err" \notin config.on_create => count' = now
      /\ MaxCount # 0 => now <= count' /\ count' <= MaxCount + 1
  BY <1>1, <1>2, <1>3, <1>4
<1>. QED
  BY <1>2, <1>5 DEF now, Counted

\* The steps that leave the count, and what it is of.
LEMMA CountedStill ==
  ASSUME TypeOK, Counted, CountedOnce, UNCHANGED <<count, seen, config>>,
         \A l \in Lock : lock'[l].full = lock[l].full,
         \A u \in Client \cup Worker :
            /\ pc'[u] \in {"create", "creating"} <=> pc[u] \in {"create", "creating"}
            /\ pc'[u] = "cas" => pc[u] = "cas"
  PROVE  Counted'
<1>1. Resources' = Resources /\ BeingCreated' = BeingCreated
  BY DEF Resources, BeingCreated
<1>2. Allocated' = Allocated
  BY <1>1 DEF Allocated
<1>. QED
  BY <1>2, CountedFrom DEF Counted

\* The count goes up by one before a resource is created, and down by one as it is
\* disposed of; nothing else makes or unmakes a resource.
LEMMA CountedStep ==
  Sound /\ Sound' /\ Untimed /\ Undrained /\ Filled /\ Counted /\ [Next]_vars => Counted'
<1>. SUFFICES ASSUME Sound, Sound', Untimed, Undrained, Filled, Counted, [Next]_vars, CountedOnce
              PROVE  Counted'
  BY ConfigKept DEF Counted, CountedOnce, IdleElapses, IdleTimeout
<1>0. /\ Client \subseteq Thread /\ Worker \subseteq Thread /\ Manager \in Thread
      /\ Manager \notin Client /\ Manager \notin Worker
      /\ Thread \cap Drainer = {} /\ Client \cap Worker = {}
      /\ (Client \cup Worker) \cap Lock = {}
      /\ TypeOK /\ TypeOK' /\ Placed /\ Exclusive /\ Stowed
      /\ \A u \in Thread : PlacedAt(u) /\ HandedAt(u) /\ Intact(u)
      /\ ~IdleElapses /\ config' = config
  BY NamesAssumption, ConfigKept DEF Thread, Sound, Placed, Handed, Filled, CountedOnce
<1>. USE DEF counters, queues, client, manager, Goto, Call, Return, Hold, LetGo
\* A step of t that leaves the count, and what it is of.
<1>1. ASSUME NEW t \in Thread, UNCHANGED <<count, seen>>,
             \A l \in Lock : lock'[l].full = lock[l].full,
             \A u \in Thread \ {t} : pc'[u] = pc[u],
             pc[t] \notin {"create", "creating"},
             pc'[t] \notin {"create", "creating", "cas"}
      PROVE  Counted'
  BY <1>0, <1>1, CountedStill
<1>2. ASSUME UNCHANGED <<count, seen, lock>>, \A u \in Thread : pc'[u] = pc[u]
      PROVE  Counted'
  BY <1>0, <1>2, CountedStill
\* What no other client's turn at the counter is changed by.
<1>3. /\ MaxCount \in Nat /\ MaxCount < UsizeMax /\ count \in 0..UsizeMax
      /\ IsFiniteSet(Allocated) /\ Cardinality(Allocated) \in Nat
      /\ MaxCount # 0 => /\ Cardinality(Allocated) <= count
                         /\ \A c \in Client : pc[c] = "cas" => seen[c] <= MaxCount
      /\ "err" \notin config.on_create => count = Cardinality(Allocated)
  BY <1>0, PoolAssumption, FS_CardinalityType DEF Counted, TypeOK, MaxCount, PoolConfig
<1>4. ASSUME NEW t \in Thread, Release(t) \/ ReleaseRecheck(t) PROVE Counted'
  <2>1. /\ pc[t] \in {"release", "recheck"} /\ pc'[t] \in {"recheck", "return", "dispose"}
        /\ \A u \in Thread \ {t} : pc'[u] = pc[u]
        /\ UNCHANGED <<count, seen>>
    BY <1>0, <1>4 DEF Release, ReleaseRecheck, KeepOr, TypeOK
  <2>2. hand[t] \in Lock
    BY <1>0, <2>1 DEF PlacedAt, Handling, Guarded
  <2>3. lock' = lock \/ lock' = [lock EXCEPT ![hand[t]].state = "SOME"]
    BY <1>4 DEF Release, ReleaseRecheck, KeepOr
  <2>4. \A m \in Lock : lock'[m].full = lock[m].full
    <3>1. CASE lock' = lock
      BY <3>1
    <3>2. CASE lock' = [lock EXCEPT ![hand[t]].state = "SOME"]
      BY <1>0, <2>2, <3>2, Wrote DEF TypeOK
    <3>. QED
      BY <2>3, <3>1, <3>2
  <2>. QED
    BY <1>1, <2>1, <2>4
<1>5. ASSUME NEW t \in Thread, ReleaseReturn(t) \/ ReleaseTell(t) \/ DisposeTell(t)
      PROVE  Counted'
  <2>1. /\ pc[t] \in {"return", "tell", "dispose_count"} /\ UNCHANGED <<count, seen, lock>>
        /\ \A u \in Thread \ {t} : pc'[u] = pc[u]
    BY <1>0, <1>5 DEF ReleaseReturn, ReleaseTell, DisposeTell, TypeOK
  <2>2. pc'[t] \in {"tell", "unlock"} \cup Resumed(t)
    BY <1>0, <1>5 DEF ReleaseReturn, ReleaseTell, DisposeTell, PlacedAt, Leaving, TypeOK
  <2>. QED
    BY <1>1, <2>1, <2>2 DEF Resumed
<1>6. ASSUME NEW t \in Thread, UnlockNone(t) PROVE Counted'
  <2>. DEFINE l == hand[t]
  <2>1. /\ pc[t] = "unlock" /\ UNCHANGED <<count, seen>> /\ lock' = [lock EXCEPT ![l] = Empty]
        /\ \A u \in Thread \ {t} : pc'[u] = pc[u]
        /\ pc'[t] \in Resumed(t)
    BY <1>0, <1>6 DEF UnlockNone, PlacedAt, Leaving, TypeOK
  <2>2. l \in Lock /\ ~lock[l].full
    BY <1>0, <2>1 DEF PlacedAt, Handling, Guarded, HandedAt
  <2>3. lock[l].full = FALSE
    BY <1>0, <2>2 DEF TypeOK, ResourceLock
  <2>4. \A m \in Lock : lock'[m].full = lock[m].full
    BY <1>0, <2>1, <2>2, <2>3 DEF TypeOK, Empty
  <2>. QED
    BY <1>1, <2>1, <2>4 DEF Resumed
<1>7. ASSUME NEW t \in Thread, Dispose(t) PROVE Counted'
  <2>. DEFINE l == hand[t]
  <2>1. /\ pc[t] = "dispose" /\ pc'[t] = "dispose_count" /\ UNCHANGED seen
        /\ \A u \in Thread \ {t} : pc'[u] = pc[u]
        /\ lock' = [lock EXCEPT ![l].full = FALSE] /\ count' = Less(count)
    BY <1>0, <1>7 DEF Dispose, TypeOK
  <2>2. l \in Lock /\ lock[l].full
    BY <1>0, <2>1 DEF PlacedAt, Handling, Guarded, Intact
  <2>3. lock'[l].full = FALSE /\ \A m \in Lock \ {l} : lock'[m] = lock[m]
    BY <1>0, <2>1, <2>2, Wrote DEF TypeOK
  <2>4. Resources' = Resources \ {l} /\ l \in Resources
    BY <2>2, <2>3 DEF Resources
  <2>5. BeingCreated' = BeingCreated /\ l \notin BeingCreated
    BY <1>0, <2>1, <2>2 DEF BeingCreated
  <2>6. Allocated' = Allocated \ {l} /\ l \in Allocated
    BY <2>4, <2>5 DEF Allocated
  <2>7. IsFiniteSet(Allocated') /\ Cardinality(Allocated') = Cardinality(Allocated) - 1
    BY <1>3, <2>6, FS_RemoveElement
  <2>8. Cardinality(Allocated) > 0
    BY <1>3, <2>6, FS_EmptySet
  <2>9. \/ count' = count - 1
        \/ MaxCount = 0 /\ "err" \in config.on_create
    BY <1>3, <2>1, <2>8, CountsOn
  <2>10. MaxCount # 0 => \A c \in Client : pc'[c] = "cas" => seen'[c] <= MaxCount
    BY <1>0, <1>3, <2>1
  <2>. QED
    BY <1>0, <2>7, <2>9, <2>10, CountedFrom
<1>8. ASSUME NEW t \in Client \cup {Manager}, PopIdle(t) PROVE Counted'
  <2>1. /\ t \in Thread /\ pc[t] = "pop" /\ pc'[t] \in {"state", "count", "lock"}
        /\ \A u \in Thread \ {t} : pc'[u] = pc[u]
        /\ UNCHANGED <<count, seen, lock>>
    BY <1>0, <1>8 DEF PopIdle, TypeOK
  <2>. QED
    BY <1>1, <2>1
<1>9. ASSUME NEW t \in Client \cup {Manager}, LockIdle(t) PROVE Counted'
  <2>1. /\ t \in Thread /\ pc[t] = "lock" /\ UNCHANGED <<count, seen>>
        /\ lock' = [lock EXCEPT ![hand[t]].state = "HELD"]
    BY <1>0, <1>9 DEF LockIdle
  <2>2. hand[t] \in Lock
    BY <1>0, <2>1 DEF PlacedAt, Handling
  <2>3. /\ pc'[t] \in {"pop", "send", "peek", "unlock"}
        /\ \A u \in Thread \ {t} : pc'[u] = pc[u]
    BY <1>0, <1>9 DEF LockIdle, TypeOK
  <2>4. \A m \in Lock : lock'[m].full = lock[m].full
    BY <1>0, <2>1, <2>2, Wrote DEF TypeOK
  <2>. QED
    BY <1>1, <2>1, <2>3, <2>4
\* Clients.
<1>10. ASSUME NEW c \in Client,
              \/ AcquireAgain(c) \/ Acquire(c) \/ TryWait(c) \/ RegisterWaiter(c)
              \/ NotifyManager(c) \/ DropManaged(c) \/ Answered(c) \/ AbandonWaiter(c)
       PROVE  Counted'
  <2>1. UNCHANGED <<count, seen, lock>>
    BY <1>10
    DEF AcquireAgain, Acquire, CheckBusy, TryWait, RegisterWaiter, NotifyManager, DropManaged,
        Answered, AbandonWaiter
  <2>2. /\ pc[c] \notin {"create", "creating"} /\ pc'[c] \notin {"create", "creating", "cas"}
        /\ \A u \in Thread \ {c} : pc'[u] = pc[u]
    <3>1. CASE AcquireAgain(c) \/ Acquire(c)
      BY <1>0, <3>1 DEF AcquireAgain, Acquire, CheckBusy, TypeOK
    <3>4. CASE TryWait(c) \/ DropManaged(c)
      BY <1>0, <3>4 DEF TryWait, DropManaged, TypeOK
    <3>2. CASE RegisterWaiter(c) \/ NotifyManager(c)
      BY <1>0, <3>2 DEF RegisterWaiter, NotifyManager, TypeOK
    <3>3. CASE Answered(c) \/ AbandonWaiter(c)
      BY <1>0, <3>3 DEF Answered, AbandonWaiter, Resolved, TypeOK
    <3>. QED
      BY <1>10, <3>1, <3>2, <3>3, <3>4
  <2>. QED
    BY <1>0, <1>1, <2>1, <2>2
<1>11. ASSUME NEW c \in Client, Peek(c) \/ Discard(c) PROVE Counted'
  <2>1. /\ UNCHANGED <<count, seen>>
        /\ \A u \in Thread \ {c} : pc'[u] = pc[u]
        /\ pc[c] \in {"peek", "managed"} /\ pc'[c] \in {"release", "managed"}
    BY <1>0, <1>11 DEF Peek, Resolved, Discard, TypeOK
  <2>4. hand[c] \in Lock
    BY <1>0, <2>1 DEF PlacedAt, Handling, Guarded
  <2>2. lock' = lock \/ lock' = [lock EXCEPT ![hand[c]].reusable = FALSE]
    BY <1>0, <1>11 DEF Peek, Discard
  <2>3. \A m \in Lock : lock'[m].full = lock[m].full
    <3>1. CASE lock' = lock
      BY <3>1
    <3>2. CASE lock' = [lock EXCEPT ![hand[c]].reusable = FALSE]
      BY <1>0, <2>4, <3>2, Wrote DEF TypeOK
    <3>. QED
      BY <2>2, <3>1, <3>2
  <2>. QED
    BY <1>0, <1>1, <2>1, <2>3
\* A client goes on to count a resource only when there is room for it, or room for one
\* less; and what it counts is then its own.
<1>12. ASSUME NEW c \in Client, CreateFromCount(c) PROVE Counted'
  <2>1. /\ pc[c] = "count" /\ UNCHANGED <<count, lock>> /\ pc'[c] \in {"cas", "wait"}
        /\ \A u \in Thread \ {c} : pc'[u] = pc[u]
    BY <1>0, <1>12 DEF CreateFromCount, TypeOK
  <2>2. Allocated' = Allocated
    BY <1>0, <2>1 DEF Allocated, Resources, BeingCreated
  <2>3. MaxCount # 0 => \A u \in Client : pc'[u] = "cas" => seen'[u] <= MaxCount
    BY <1>0, <1>3, <1>12 DEF CreateFromCount, Room, TypeOK
  <2>. QED
    BY <1>0, <1>3, <2>1, <2>2, <2>3, CountedFrom
<1>13. ASSUME NEW c \in Client, UpdateCount(c), count = seen[c] PROVE Counted'
  <2>1. /\ pc[c] = "cas" /\ pc'[c] = "create" /\ UNCHANGED lock /\ count' = More(count)
        /\ \A u \in Thread \ {c} : pc'[u] = pc[u]
        /\ seen' = [seen EXCEPT ![c] = 0]
    BY <1>0, <1>13 DEF UpdateCount, TypeOK
  <2>2. Allocated' = Allocated \cup {c} /\ c \notin Allocated
    BY <1>0, <2>1 DEF Allocated, Resources, BeingCreated
  <2>3. IsFiniteSet(Allocated') /\ Cardinality(Allocated') = Cardinality(Allocated) + 1
    BY <1>3, <2>2, FS_AddElement
  <2>4. Cardinality(Allocated') <= UsizeMax
    <3>1. Allocated' \in SUBSET (Client \cup Worker \cup Lock)
      BY DEF Allocated, Resources, BeingCreated
    <3>2. Cardinality(Allocated') <= Cardinality(Client \cup Worker \cup Lock)
      BY <3>1, MemoryAssumption, FS_Subset
    <3>3. Cardinality(Client \cup Worker \cup Lock) \in Nat
      BY MemoryAssumption, FS_CardinalityType
    <3>. QED
      BY <1>3, <2>3, <3>2, <3>3, MemoryAssumption, PoolAssumption
  <2>5. MaxCount # 0 => count <= MaxCount
    BY <1>3, <1>13, <2>1
  <2>6. \/ count' = count + 1
        \/ MaxCount = 0 /\ "err" \in config.on_create
    BY <1>3, <2>1, <2>3, <2>4, <2>5, CountsOn, PoolAssumption
  <2>7. MaxCount # 0 => \A u \in Client : pc'[u] = "cas" => seen'[u] <= MaxCount
    BY <1>0, <1>3, <2>1 DEF TypeOK
  <2>. QED
    BY <1>0, <2>3, <2>5, <2>6, <2>7, CountedFrom
<1>14. ASSUME NEW c \in Client, UpdateCount(c), count # seen[c] PROVE Counted'
  <2>1. /\ pc[c] = "cas" /\ pc'[c] \in {"cas", "wait"} /\ UNCHANGED <<count, lock>>
        /\ \A u \in Thread \ {c} : pc'[u] = pc[u]
    BY <1>0, <1>14 DEF UpdateCount, TypeOK
  <2>2. Allocated' = Allocated
    BY <1>0, <2>1 DEF Allocated, Resources, BeingCreated
  <2>3. \/ pc'[c] = "wait" /\ seen' = [seen EXCEPT ![c] = 0]
        \/ ~TooMany(count, seen[c]) /\ seen' = [seen EXCEPT ![c] = count]
    BY <1>0, <1>14 DEF UpdateCount, TypeOK
  <2>4. MaxCount # 0 /\ ~TooMany(count, seen[c]) => count <= MaxCount
    <3>1. seen[c] \in Nat /\ count \in Nat
      BY <1>0, PoolAssumption DEF TypeOK
    <3>2. MaxCount # 0 => seen[c] <= MaxCount
      BY <1>3, <2>1
    <3>. QED
      BY <1>3, <3>1, <3>2 DEF TooMany
  <2>5. MaxCount # 0 => \A u \in Client : pc'[u] = "cas" => seen'[u] <= MaxCount
    BY <1>0, <1>3, <2>1, <2>3, <2>4 DEF TypeOK
  <2>. QED
    BY <1>0, <1>3, <2>1, <2>2, <2>5, CountedFrom
<1>15. ASSUME NEW c \in Client, Create(c) PROVE Counted'
  <2>1. PICK l \in FreshLock :
          lock' = [lock EXCEPT ![l] = [state |-> "HELD", full |-> FALSE,
                                       reusable |-> IdleTimeout, expired |-> FALSE]]
    BY <1>15 DEF Create
  <2>2. l \in Lock /\ lock[l].state # "HELD"
    BY <1>0, FreshOpen
  <2>3. ~Near(l)
    BY DEF FreshLock, Near, Range, TypeOK, Sound
  <2>4. lock[l].full = FALSE
    BY <1>0, <2>2, <2>3 DEF Stowed, TypeOK, ResourceLock
  <2>5. \A m \in Lock : lock'[m].full = lock[m].full
    BY <1>0, <2>1, <2>2, <2>4 DEF TypeOK
  <2>6. /\ pc[c] = "create" /\ pc'[c] = "creating" /\ UNCHANGED <<count, seen>>
        /\ \A u \in Thread \ {c} : pc'[u] = pc[u]
    BY <1>0, <1>15 DEF Create, TypeOK
  <2>. QED
    BY <1>0, <2>5, <2>6, CountedStill
<1>16. ASSUME NEW t \in Client \cup Worker, EndCreate(t) PROVE Counted'
  <2>. DEFINE l == hand[t]
  <2>1. /\ t \in Thread /\ pc[t] = "creating" /\ UNCHANGED <<count, seen>>
        /\ \A u \in Thread \ {t} : pc'[u] = pc[u]
        /\ pc'[t] \in {"managed", "release", "unlock"}
    BY <1>0, <1>16 DEF EndCreate, Complete, Fail, Resolved, TypeOK
  <2>2. l \in Lock /\ ~lock[l].full
    BY <1>0, <2>1 DEF PlacedAt, Handling, Guarded, HandedAt
  <2>3. BeingCreated' = BeingCreated \ {t} /\ t \in BeingCreated
    BY <1>0, <1>16, <2>1 DEF BeingCreated
  <2>4. MaxCount # 0 => \A u \in Client : pc'[u] = "cas" => seen'[u] <= MaxCount
    BY <1>0, <1>3, <2>1
  <2>5. t \notin Lock /\ t \in Allocated
    BY <1>0, <1>16, <2>3 DEF Allocated
  <2>6. /\ IsFiniteSet(Allocated \ {t})
        /\ Cardinality(Allocated \ {t}) = Cardinality(Allocated) - 1
    BY <1>3, <2>5, FS_RemoveElement
  <2>7. CASE lock' = [lock EXCEPT ![l].full = TRUE]
    <3>1. lock'[l].full /\ \A m \in Lock \ {l} : lock'[m] = lock[m]
      BY <1>0, <2>2, <2>7, Wrote DEF TypeOK
    <3>2. Resources' = Resources \cup {l} /\ l \notin Resources /\ l \notin BeingCreated
      BY <1>0, <2>2, <3>1 DEF Resources, BeingCreated
    <3>3. /\ Allocated' = (Allocated \ {t}) \cup {l} /\ l \notin Allocated \ {t}
      BY <2>3, <2>5, <3>2 DEF Allocated, Resources
    <3>4. Cardinality((Allocated \ {t}) \cup {l}) = Cardinality(Allocated \ {t}) + 1
      BY <2>6, <3>3, FS_AddElement
    <3>5. IsFiniteSet((Allocated \ {t}) \cup {l})
      BY <2>6, FS_AddElement
    <3>6. IsFiniteSet(Allocated') /\ Cardinality(Allocated') = Cardinality(Allocated)
      BY <1>3, <2>6, <3>3, <3>4, <3>5
    <3>. QED
      BY <1>0, <2>1, <2>4, <3>6, CountedFrom
  <2>8. CASE lock' = lock /\ "err" \in config.on_create
    <3>1. Resources' = Resources
      BY <2>8 DEF Resources
    <3>2. Allocated' = Allocated \ {t}
      BY <2>3, <2>5, <3>1 DEF Allocated, Resources
    <3>. QED
      BY <1>0, <2>1, <2>4, <2>6, <2>8, <3>2, CountedFrom
  <2>. QED
    BY <1>16, <2>7, <2>8 DEF EndCreate
<1>17. ASSUME NEW t \in Client \cup Worker, EndVerify(t) PROVE Counted'
  BY <1>0, <1>17 DEF EndVerify, Untimed
\* A future that is being created is its worker's now.
<1>18. ASSUME NEW c \in Client, AbandonFuture(c) PROVE Counted'
  <2>1. PICK w \in Worker : /\ pc[w] = "idle" /\ pc[c] \in {"creating", "verifying"}
                           /\ pc' = [pc EXCEPT ![w] = pc[c], ![c] = "idle"]
    BY <1>18 DEF AbandonFuture
  <2>2. /\ w # c /\ c \in Thread /\ w \in Thread /\ UNCHANGED <<lock, count, seen>>
        /\ pc[c] = "creating"
    BY <1>0, <1>18, <2>1 DEF AbandonFuture, Untimed
  <2>3. /\ pc'[w] = "creating" /\ pc'[c] = "idle"
        /\ \A u \in Thread \ {w, c} : pc'[u] = pc[u]
    BY <1>0, <2>1, <2>2 DEF TypeOK
  <2>4. /\ Resources' = Resources /\ BeingCreated' = (BeingCreated \ {c}) \cup {w}
        /\ c \in BeingCreated /\ w \notin BeingCreated
    BY <1>0, <2>1, <2>2, <2>3 DEF Resources, BeingCreated
  <2>5. w \notin Lock /\ c \notin Lock
    BY <1>0
  <2>6. /\ Allocated' = (Allocated \ {c}) \cup {w}
        /\ c \in Allocated /\ w \notin Allocated \ {c}
    BY <2>4, <2>5 DEF Allocated, Resources
  <2>7. /\ IsFiniteSet(Allocated \ {c})
        /\ Cardinality(Allocated \ {c}) = Cardinality(Allocated) - 1
    BY <1>3, <2>6, FS_RemoveElement
  <2>8. Cardinality((Allocated \ {c}) \cup {w}) = Cardinality(Allocated \ {c}) + 1
    BY <2>6, <2>7, FS_AddElement
  <2>10. IsFiniteSet((Allocated \ {c}) \cup {w})
    BY <2>7, FS_AddElement
  <2>11. IsFiniteSet(Allocated') /\ Cardinality(Allocated') = Cardinality(Allocated)
    BY <1>3, <2>6, <2>7, <2>8, <2>10
  <2>9. MaxCount # 0 => \A u \in Client : pc'[u] = "cas" => seen'[u] <= MaxCount
    BY <1>0, <1>3, <2>2, <2>3
  <2>. QED
    BY <1>0, <2>2, <2>11, <2>9, CountedFrom
<1>19. ASSUME NEW t \in Client \cup Drainer, Dropping(t) \/ DropHandle(t) PROVE Counted'
  BY <1>2, <1>19 DEF Dropping, ShutDown, ShutDownNotify, Uncount, DropHandle
<1>20. ASSUME NEW d \in Drainer, Drain(d) \/ DrainNotify(d) PROVE Counted'
  <2>1. d \notin Thread /\ UNCHANGED <<lock, count, seen>>
    BY <1>0, <1>20 DEF Drain, DrainNotify
  <2>2. \A u \in Thread : pc'[u] = pc[u]
    BY <1>0, <1>20, <2>1 DEF Drain, DrainNotify, TypeOK
  <2>. QED
    BY <1>2, <2>1, <2>2
\* The manager.
<1>21. CASE VerifyTimer
  <2>1. PICK i \in DOMAIN timers : timers[i].kind = "verify"
    BY <1>21 DEF VerifyTimer
  <2>. QED
    BY <1>0, <2>1, EntryOf DEF TypeOK, Untimed
<1>22. CASE WaiterTimer
  BY <1>2, <1>22 DEF WaiterTimer
<1>23. CASE DrainTimer
  <2>1. PICK i \in DOMAIN timers :
          timers[i].kind = "drain" /\ Goto(timers[i].of, WhenUndrained(timers[i].of))
    BY <1>23 DEF DrainTimer
  <2>2. timers[i].of \in Drainer
    BY <1>0, <2>1, EntryOf DEF TypeOK
  <2>3. \A u \in Thread : pc'[u] = pc[u]
    BY <1>0, <2>1, <2>2 DEF TypeOK
  <2>. QED
    BY <1>2, <1>23, <2>3 DEF DrainTimer
<1>24. CASE Listen \/ TakeEvents \/ TakeRegisters \/ Park \/ CheckState
  <2>1. /\ pc[Manager] \in ManagerPlace
        /\ pc'[Manager] \in {"events", "registers", "waiters", "timers", "park", "drain"}
        /\ \A u \in Thread \ {Manager} : pc'[u] = pc[u]
    BY <1>0, <1>24
    DEF Listen, TakeEvents, TakeRegisters, Park, CheckState, TypeOK, ManagerPlace
  <2>2. UNCHANGED <<lock, count, seen>>
    BY <1>24 DEF Listen, TakeEvents, TakeRegisters, Park, CheckState
  <2>. QED
    BY <1>0, <1>1, <2>1, <2>2 DEF ManagerPlace
<1>25. CASE CheckWaiters \/ SkipWaiter \/ CountServed \/ Send
  <2>1. /\ pc[Manager] \in {"waiters", "skip", "decrement", "send"}
        /\ UNCHANGED <<lock, count, seen>>
    BY <1>25 DEF CheckWaiters, SkipWaiter, CountServed, DecrementWaiters, Send
  <2>2. \A list, l : NextWaiter(list, l) \in {"state", "release", "skip", "pop", "send"}
    BY DEF NextWaiter
  <2>3. \E next \in {"state", "release", "skip", "pop", "send", "decrement"} : Goto(Manager, next)
    BY <1>25, <2>2 DEF CheckWaiters, SkipWaiter, CountServed, DecrementWaiters, Send
  <2>4. /\ pc'[Manager] \in {"state", "release", "skip", "pop", "send", "decrement"}
        /\ \A u \in Thread \ {Manager} : pc'[u] = pc[u]
    BY <1>0, <2>3 DEF TypeOK
  <2>. QED
    BY <1>0, <1>1, <2>1, <2>4
<1>26. CASE DrainLock \/ DrainRetain
  BY <1>26 DEF DrainLock, DrainRetain, Undrained, CountedOnce
<1>27. CASE UNCHANGED vars
  BY <1>2, <1>27 DEF vars
<1>. QED
  BY <1>0, <1>4, <1>5, <1>6, <1>7, <1>8, <1>9, <1>10, <1>11, <1>12, <1>13, <1>14, <1>15, <1>16,
     <1>17, <1>18, <1>19, <1>20, <1>21, <1>22, <1>23, <1>24, <1>25, <1>26, <1>27
  DEF Next, ClientStep, ClientChoice, WorkerStep, DrainerStep, ManagerStep, Releasing

\* Every step of a pool keeps what makes the counts come out right.
LEMMA CountingStep ==
  Sound /\ Untimed /\ Undrained /\ Filled /\ Counted /\ [Next]_vars
    => (Sound /\ Untimed /\ Undrained /\ Filled /\ Counted)'
  BY SoundStep, UntimedStep, UndrainedStep, FilledStep, CountedStep

\* Pool::count() is the number of resources that are allocated or being created
\* (pool.rs:479-483), in a pool whose idle timers do not elapse, that nobody drains and
\* whose futures do not fail: try_create() counts a resource before there is one
\* (pool.rs:415-422) and dispose() discounts it before it is gone (mod.rs:183-188).
THEOREM Counting == Spec => []CountAllocated
<1>1. Init => Sound /\ Untimed /\ Undrained /\ Filled /\ Counted
  BY SoundInit, UntimedInit, UndrainedInit, FilledInit, CountedInit
<1>2. Counted => CountAllocated
  <2>1. SUFFICES ASSUME Counted, CountedOnce, "err" \notin config.on_create
                 PROVE  count = Cardinality(Resources) + Cardinality(BeingCreated)
    BY DEF CountAllocated
  <2>2. IsFiniteSet(Allocated) /\ count = Cardinality(Allocated)
    BY <2>1 DEF Counted
  <2>3. Resources \in SUBSET Allocated /\ BeingCreated \in SUBSET Allocated
    BY DEF Allocated
  <2>4. IsFiniteSet(Resources) /\ IsFiniteSet(BeingCreated)
    BY <2>2, <2>3, FS_Subset
  <2>5. Resources \cap BeingCreated = {}
    BY NamesAssumption DEF Resources, BeingCreated
  <2>6. /\ Cardinality(Resources) \in Nat /\ Cardinality(BeingCreated) \in Nat
    BY <2>4, FS_CardinalityType
  <2>7. Cardinality(Resources \cup BeingCreated)
          = Cardinality(Resources) + Cardinality(BeingCreated) - Cardinality({})
    BY <2>4, <2>5, FS_Union
  <2>. QED
    BY <2>2, <2>6, <2>7, FS_EmptySet DEF Allocated
<1>. QED
  BY <1>1, <1>2, CountingStep, PTL DEF Spec

\* A pool with a maximum exceeds it by one at most (config.rs:111-113), however many
\* clients race to create: one that loses a compare-exchange goes on only while the count
\* it finds is not beyond the maximum (pool.rs:419), so only the one that brings it there
\* is too many.  A future that fails leaves the count too high, never too low.
THEOREM Overshoot == Spec => []OvershootByOne
<1>1. Init => Sound /\ Untimed /\ Undrained /\ Filled /\ Counted
  BY SoundInit, UntimedInit, UndrainedInit, FilledInit, CountedInit
<1>2. Counted => OvershootByOne
  BY DEF Counted, OvershootByOne
<1>. QED
  BY <1>1, <1>2, CountingStep, PTL DEF Spec
-----------------------------------------------------------------------------
(* The waiters. *)

\* The registrations of waiters that the manager has still to read, and the clients
\* that are counted and have still to register.
Registrations == {i \in DOMAIN register_inject : register_inject[i].kind = "waiter"}
Registered == {register_inject[i].of : i \in Registrations}
Registering == {c \in Client : pc[c] = "register"}

\* The waiters that are counted, wherever they are on their way.
Queued == Range(waiters) \cup Registered \cup {ticket[c] : c \in Registering}
Awaiting == {"notify", "notify again", "waiting"}

\* A waiter is in one place only, and is one client's.
Distinct ==
    /\ \A i, j \in DOMAIN waiters : waiters[i] = waiters[j] => i = j
    /\ \A i, j \in Registrations : register_inject[i].of = register_inject[j].of => i = j
    /\ \A c, d \in Client : ticket[c] = ticket[d] /\ ticket[c] # NoTicket => c = d
    /\ Range(waiters) \cap Registered = {}
    /\ \A c \in Registering : ticket[c] \notin Range(waiters) \cup Registered

\* The manager answers no waiter before it has read its registration: neither a timer
\* nor a resource is there for it.
Unread == Registered \cup {ticket[c] : c \in Registering}
Unanswered == \A k \in Unread : letter[k] = "pending" /\ k \notin Named(timers)

\* Who waits for an answer is known to the manager, and each waiter is counted until the
\* manager, having sent to it, takes it off the count.
Known == \A c \in Client : pc[c] \in Awaiting /\ letter[ticket[c]] = "pending"
                              => ticket[c] \in Range(waiters) \cup Registered
Passing == IF pc[Manager] = "decrement" THEN 1 ELSE 0
Tallied == waiter_count = Cardinality(Queued) + Passing

\* A waiter that the manager takes from the list without an answer has been cancelled.
Cancelled == pc[Manager] = "skip" => letter[Head(waiters)] # "pending"

Enrolled == pc[Manager] # "stopped" => Distinct /\ Unanswered /\ Known /\ Tallied /\ Cancelled

\* Sets whose members stand one for one for those of another are of one size.
LEMMA OneForOne ==
  ASSUME NEW S, IsFiniteSet(S), NEW T, NEW f \in [S -> T],
         \A y \in T : \E x \in S : f[x] = y,
         \A x, y \in S : f[x] = f[y] => x = y
  PROVE  IsFiniteSet(T) /\ Cardinality(T) = Cardinality(S)
<1>1. f \in Surjection(S, T)
  BY DEF Surjection
<1>2. f \in Injection(S, T)
  BY DEF Injection, IsInjective
<1>. QED
  BY <1>1, <1>2, FS_Surjection

\* What has one place in a sequence at most is there once or not at all.
LEMMA TimesOnce ==
  ASSUME NEW seq, NEW x,
         \A i, j \in DOMAIN seq : seq[i] = x /\ seq[j] = x => i = j
  PROVE  Times(x, seq) = IF x \in Range(seq) THEN 1 ELSE 0
<1>. DEFINE at == {i \in DOMAIN seq : seq[i] = x}
<1>1. CASE x \in Range(seq)
  <2>1. PICK i \in DOMAIN seq : seq[i] = x
    BY <1>1 DEF Range
  <2>2. at = {i}
    BY <2>1
  <2>. QED
    BY <1>1, <2>2, FS_Singleton DEF Times
<1>2. CASE x \notin Range(seq)
  <2>1. at = {}
    BY <1>2 DEF Range
  <2>. QED
    BY <1>2, <2>1, FS_EmptySet DEF Times
<1>. QED
  BY <1>1, <1>2

\* The manager picks each of the entries at these indices, and each once.
LEMMA PickEach ==
  ASSUME NEW S, NEW seq \in Seq(S), NEW I \in SUBSET DOMAIN seq
  PROVE  \E at \in [DOMAIN Pick(seq, I) -> I] :
            /\ \A n \in DOMAIN Pick(seq, I) : Pick(seq, I)[n] = seq[at[n]]
            /\ \A n, m \in DOMAIN Pick(seq, I) : at[n] = at[m] => n = m
            /\ \A i \in I : \E n \in DOMAIN Pick(seq, I) : at[n] = i
<1>. DEFINE C == 1..Cardinality(I)
            index(n) == CHOOSE i \in I : Rank(I, i) = n
            pos == [n \in C |-> index(n)]
<1>0. DOMAIN seq = 1..Len(seq) /\ Len(seq) \in Nat
  BY LenProperties
<1>1. IsFiniteSet(1..Len(seq)) /\ I \in SUBSET (1..Len(seq))
  BY <1>0, FS_Interval
<1>2. IsFiniteSet(I) /\ Cardinality(I) \in Nat
  BY <1>1, FS_Subset, FS_CardinalityType
<1>3. \A n \in C : index(n) \in I /\ Rank(I, index(n)) = n
  BY <1>0, <1>1, Ranked
<1>4. /\ DOMAIN Pick(seq, I) = C
      /\ \A n \in C : Pick(seq, I)[n] = seq[index(n)]
  BY DEF Pick
<1>. HIDE DEF index
<1>5. pos \in [C -> I]
  BY <1>3
<1>6. \A n, m \in C : pos[n] = pos[m] => n = m
  BY <1>3
<1>7. IsFiniteSet(C) /\ Cardinality(C) = Cardinality(I)
  BY <1>2, FS_Interval
<1>8. pos \in Injection(C, I)
  BY <1>5, <1>6 DEF Injection, IsInjective
<1>9. pos \in Surjection(C, I)
  BY <1>2, <1>7, <1>8, FS_Injection
<1>10. \A i \in I : \E n \in C : pos[n] = i
  BY <1>9 DEF Surjection
<1>11. \A n \in C : Pick(seq, I)[n] = seq[pos[n]]
  BY <1>4
<1>. HIDE DEF pos, C
<1>. QED
  BY <1>4, <1>5, <1>6, <1>10, <1>11

\* How many waiters are counted.
LEMMA QueuedCount ==
  ASSUME TypeOK, Distinct, \A c \in Registering : ticket[c] \in Ticket
  PROVE  /\ IsFiniteSet(Queued)
         /\ Cardinality(Queued)
              = Len(waiters) + Cardinality(Registrations) + Cardinality(Registering)
<1>. DEFINE W == Range(waiters)
            R == Registered
            T == {ticket[c] : c \in Registering}
<1>1. /\ Len(waiters) \in Nat /\ DOMAIN waiters = 1..Len(waiters)
      /\ Len(register_inject) \in Nat /\ DOMAIN register_inject = 1..Len(register_inject)
  BY LenProperties DEF TypeOK
<1>0. \A n \in Nat : IsFiniteSet(1..n) /\ Cardinality(1..n) = n
  BY FS_Interval
<1>2. IsFiniteSet(W) /\ Cardinality(W) = Len(waiters)
  <2>1. IsFiniteSet(1..Len(waiters)) /\ Cardinality(1..Len(waiters)) = Len(waiters)
    BY <1>0, <1>1
  <2>2. waiters = [i \in 1..Len(waiters) |-> waiters[i]]
    BY <1>1, SeqDef DEF TypeOK
  <2>3. waiters \in [1..Len(waiters) -> W]
    BY <1>1, <2>2 DEF Range
  <2>4. \A y \in W : \E i \in 1..Len(waiters) : waiters[i] = y
    BY <1>1 DEF Range
  <2>5. \A i, j \in 1..Len(waiters) : waiters[i] = waiters[j] => i = j
    BY <1>1 DEF Distinct
  <2>. QED
    BY <2>1, <2>3, <2>4, <2>5, OneForOne
<1>3. IsFiniteSet(R) /\ Cardinality(R) = Cardinality(Registrations) /\ Cardinality(R) \in Nat
  <2>1. IsFiniteSet(1..Len(register_inject)) /\ Registrations \in SUBSET (1..Len(register_inject))
    BY <1>1, FS_Interval DEF Registrations
  <2>2. IsFiniteSet(Registrations)
    BY <2>1, FS_Subset
  <2>. DEFINE f == [i \in Registrations |-> register_inject[i].of]
  <2>3. f \in [Registrations -> R] /\ \A y \in R : \E i \in Registrations : f[i] = y
    BY DEF Registered
  <2>4. \A i, j \in Registrations : f[i] = f[j] => i = j
    BY DEF Distinct
  <2>5. IsFiniteSet(R) /\ Cardinality(R) = Cardinality(Registrations)
    BY <2>2, <2>3, <2>4, OneForOne
  <2>. QED
    BY <2>5, FS_CardinalityType
<1>4. IsFiniteSet(T) /\ Cardinality(T) = Cardinality(Registering) /\ Cardinality(T) \in Nat
  <2>1. IsFiniteSet(Registering)
    BY MemoryAssumption, FS_Subset DEF Registering
  <2>. DEFINE f == [c \in Registering |-> ticket[c]]
  <2>2. f \in [Registering -> T] /\ \A y \in T : \E c \in Registering : f[c] = y
    OBVIOUS
  <2>3. \A c, d \in Registering : f[c] = f[d] => c = d
    BY NamesAssumption DEF Distinct, Registering
  <2>4. IsFiniteSet(T) /\ Cardinality(T) = Cardinality(Registering)
    BY <2>1, <2>2, <2>3, OneForOne
  <2>. QED
    BY <2>4, FS_CardinalityType
<1>5. W \cap R = {} /\ (W \cup R) \cap T = {}
  BY DEF Distinct
<1>. HIDE DEF W, R, T
<1>6. /\ IsFiniteSet(W \cup R)
      /\ Cardinality(W \cup R) = Cardinality(W) + Cardinality(R)
  <2>1. Cardinality(W \cup R) = Cardinality(W) + Cardinality(R) - Cardinality(W \cap R)
    BY <1>2, <1>3, FS_Union
  <2>2. Cardinality(W \cap R) = 0 /\ IsFiniteSet(W \cup R)
    BY <1>2, <1>3, <1>5, FS_EmptySet, FS_Union
  <2>. QED
    BY <1>1, <1>2, <1>3, <2>1, <2>2
<1>7. /\ IsFiniteSet((W \cup R) \cup T)
      /\ Cardinality((W \cup R) \cup T) = Cardinality(W \cup R) + Cardinality(T)
  <2>1. Cardinality(W \cup R) \in Nat
    BY <1>6, FS_CardinalityType
  <2>2. Cardinality((W \cup R) \cup T)
          = Cardinality(W \cup R) + Cardinality(T) - Cardinality((W \cup R) \cap T)
    BY <1>4, <1>6, FS_Union
  <2>3. Cardinality((W \cup R) \cap T) = 0 /\ IsFiniteSet((W \cup R) \cup T)
    BY <1>4, <1>5, <1>6, FS_EmptySet, FS_Union
  <2>. QED
    BY <1>4, <2>1, <2>2, <2>3
<1>8. Queued = (W \cup R) \cup T
  BY DEF Queued, W, R, T
<1>. QED
  BY <1>2, <1>3, <1>4, <1>6, <1>7, <1>8

\* Entries that are outdated, or timers that have fired, are about what they were.
LEMMA NamedKept ==
  ASSUME NEW seq \in Seq(Entry)
  PROVE  /\ \A l : Named(Outdated(seq, l)) = Named(seq)
         /\ \A i \in DOMAIN seq : Named(RemoveAt(seq, i)) \subseteq Named(seq)
<1>1. ASSUME NEW l PROVE Named(Outdated(seq, l)) = Named(seq)
  <2>1. /\ DOMAIN Outdated(seq, l) = DOMAIN seq
        /\ \A i \in DOMAIN seq : Outdated(seq, l)[i].of = seq[i].of
    BY OutdatedEntries
  <2>2. \A s : Named(s) = {s[i].of : i \in DOMAIN s}
    BY DEF Named, Range
  <2>3. Named(Outdated(seq, l)) = {Outdated(seq, l)[i].of : i \in DOMAIN seq}
    BY <2>1, <2>2
  <2>. QED
    BY <2>1, <2>2, <2>3
<1>2. ASSUME NEW i \in DOMAIN seq PROVE Named(RemoveAt(seq, i)) \subseteq Named(seq)
  BY RangeRemoveAt DEF Named
<1>. QED
  BY <1>1, <1>2

\* What leaves the waiters where they are, and answers none that the manager has not read of.
LEMMA EnrolledKeeps ==
  ASSUME TypeOK, Placed, Enrolled,
         UNCHANGED <<waiters, waiter_count>>, Registrations' = Registrations,
         \A i \in Registrations : register_inject'[i] = register_inject[i],
         pc[Manager] = "stopped" => pc'[Manager] = "stopped",
         pc'[Manager] = "decrement" <=> pc[Manager] = "decrement",
         pc'[Manager] = "skip" => pc[Manager] = "skip" \/ letter'[Head(waiters)] # "pending",
         \A c \in Client : pc'[c] = "register" <=> pc[c] = "register",
         \A c \in Client : pc'[c] \in Awaiting => pc[c] \in Awaiting /\ ticket'[c] = ticket[c],
         \A c \in Client : \/ ticket'[c] = ticket[c]
                           \/ ticket'[c] = NoTicket /\ pc[c] # "register",
         \A k \in Ticket : letter'[k] = "pending" => letter[k] = "pending",
         \A k \in Unread : letter'[k] = letter[k],
         Named(timers') \cap Ticket \subseteq Named(timers)
  PROVE  Enrolled'
<1>. SUFFICES ASSUME pc'[Manager] # "stopped"
              PROVE  Distinct' /\ Unanswered' /\ Known' /\ Tallied' /\ Cancelled'
  BY DEF Enrolled
<1>1. Distinct /\ Unanswered /\ Known /\ Tallied /\ Cancelled
  BY DEF Enrolled
<1>2. Registering' = Registering /\ Registered' = Registered
  BY DEF Registering, Registered
<1>3. \A c \in Registering : ticket'[c] = ticket[c]
  BY DEF Registering
<1>4. Queued' = Queued /\ Unread' = Unread
  BY <1>2, <1>3 DEF Queued, Unread
<1>5. Unread \subseteq Ticket
  <2>1. Registered \subseteq Ticket
    BY EntryOf DEF TypeOK, Registered, Registrations
  <2>2. \A c \in Registering : ticket[c] \in Ticket
    BY DEF Registering, Placed, PlacedAt, Thread
  <2>. QED
    BY <2>1, <2>2 DEF Unread
<1>6. Distinct'
  <2>1. \A c, d \in Client : ticket'[c] = ticket'[d] /\ ticket'[c] # NoTicket => c = d
    BY <1>1 DEF Distinct
  <2>2. \A c \in Registering' : ticket'[c] \notin Range(waiters) \cup Registered
    BY <1>1, <1>2, <1>3 DEF Distinct
  <2>. QED
    BY <1>1, <1>2, <2>1, <2>2 DEF Distinct
<1>7. Unanswered'
  BY <1>1, <1>4, <1>5 DEF Unanswered
<1>8. Known'
  <2>1. \A c \in Client : pc[c] \in Awaiting => ticket[c] \in Ticket
    BY DEF Awaiting, Placed, PlacedAt, Thread
  <2>. QED
    BY <1>1, <1>2, <2>1 DEF Known
<1>9. Tallied'
  BY <1>1, <1>4 DEF Tallied, Passing
<1>10. Cancelled'
  <2>1. pc'[Manager] = "skip" => pc[Manager] # "skip" \/ (waiters # <<>> /\ Head(waiters) \in Ticket)
    BY RangePop DEF Placed, Ready, TypeOK
  <2>2. CASE pc'[Manager] = "skip" /\ pc[Manager] = "skip"
    BY <1>1, <2>1, <2>2 DEF Cancelled
  <2>3. CASE pc'[Manager] = "skip" /\ pc[Manager] # "skip"
    BY <2>3 DEF Cancelled
  <2>. QED
    BY <2>2, <2>3 DEF Cancelled
<1>. QED
  BY <1>6, <1>7, <1>8, <1>9, <1>10

\* Nobody waits at first.
LEMMA EnrolledInit == Init => Enrolled
<1>. SUFFICES ASSUME Init PROVE Enrolled
  OBVIOUS
<1>1. /\ DOMAIN waiters = {} /\ DOMAIN register_inject = {}
      /\ Registered = {} /\ Range(waiters) = {} /\ Registrations = {}
  BY DEF Init, Registered, Registrations, Range
<1>2. \A c \in Client : pc[c] = "idle" /\ ticket[c] = NoTicket
  BY NamesAssumption DEF Init, Thread
<1>3. Registering = {} /\ Queued = {} /\ Unread = {}
  BY <1>1, <1>2 DEF Registering, Queued, Unread
<1>4. pc[Manager] = "timers" /\ waiter_count = 0
  BY DEF Init, Thread
<1>5. Tallied
  BY <1>3, <1>4, FS_EmptySet DEF Tallied, Passing
<1>6. Distinct
  BY <1>1, <1>2, <1>3 DEF Distinct
<1>7. Unanswered /\ Known
  BY <1>2, <1>3 DEF Unanswered, Known, Awaiting
<1>. QED
  BY <1>4, <1>5, <1>6, <1>7 DEF Enrolled, Cancelled

\* A registration that is added is the last.
LEMMA RegistrationAdded ==
  ASSUME TypeOK, NEW e \in Entry, register_inject' = Append(register_inject, e)
  PROVE  LET n == Len(register_inject) + 1
         IN  /\ Registrations' = Registrations \cup (IF e.kind = "waiter" THEN {n} ELSE {})
             /\ n \notin Registrations /\ register_inject'[n] = e
             /\ \A i \in Registrations : register_inject'[i] = register_inject[i]
<1>. DEFINE n == Len(register_inject) + 1
<1>1. /\ Len(register_inject) \in Nat /\ DOMAIN register_inject = 1..Len(register_inject)
      /\ DOMAIN register_inject' = 1..n
      /\ register_inject'[n] = e
      /\ \A i \in 1..Len(register_inject) : register_inject'[i] = register_inject[i]
  <2>1. register_inject \in Seq(Entry)
    BY DEF TypeOK
  <2>2. register_inject' \in Seq(Entry) /\ Len(register_inject') = n
    BY <2>1, AppendProperties
  <2>. QED
    BY <2>1, <2>2, AppendProperties, LenProperties
<1>2. 1..n = (1..Len(register_inject)) \cup {n} /\ n \notin 1..Len(register_inject)
  BY <1>1
<1>. HIDE DEF n
<1>3. Registrations \subseteq 1..Len(register_inject)
  BY <1>1 DEF Registrations
<1>4. Registrations' = {i \in 1..n : register_inject'[i].kind = "waiter"}
  BY <1>1 DEF Registrations
<1>5. Registrations = {i \in 1..Len(register_inject) : register_inject[i].kind = "waiter"}
  BY <1>1 DEF Registrations
<1>6. \A i \in 1..n : i \in Registrations' <=> i \in Registrations \/ (i = n /\ e.kind = "waiter")
  BY <1>1, <1>2, <1>4, <1>5
<1>7. Registrations' = Registrations \cup (IF e.kind = "waiter" THEN {n} ELSE {})
  BY <1>2, <1>3, <1>4, <1>6
<1>. QED
  BY <1>1, <1>2, <1>3, <1>7 DEF n

\* The first of the waiters, once taken from the list, is not in it any more.
LEMMA HeadTaken ==
  ASSUME NEW S, NEW seq \in Seq(S), seq # <<>>,
         \A i, j \in DOMAIN seq : seq[i] = seq[j] => i = j
  PROVE  /\ Head(seq) \in Range(seq) /\ Tail(seq) \in Seq(S)
         /\ Range(Tail(seq)) = Range(seq) \ {Head(seq)}
         /\ \A i, j \in DOMAIN Tail(seq) : Tail(seq)[i] = Tail(seq)[j] => i = j
<1>1. /\ Head(seq) \in S /\ Tail(seq) \in Seq(S)
      /\ Range(seq) = {Head(seq)} \cup Range(Tail(seq))
  BY RangePop
<1>2. /\ Len(seq) \in Nat \ {0} /\ Len(Tail(seq)) = Len(seq) - 1 /\ Head(seq) = seq[1]
      /\ \A i \in 1..Len(Tail(seq)) : Tail(seq)[i] = seq[i + 1]
      /\ DOMAIN seq = 1..Len(seq) /\ DOMAIN Tail(seq) = 1..Len(Tail(seq))
  <2>1. /\ Len(Tail(seq)) = Len(seq) - 1
        /\ \A i \in 1..Len(Tail(seq)) : Tail(seq)[i] = seq[i + 1]
    BY HeadTailProperties
  <2>2. Len(seq) \in Nat \ {0} /\ Head(seq) = seq[1]
    BY EmptySeq
  <2>. QED
    BY <1>1, <2>1, <2>2, LenProperties
<1>3. \A i \in DOMAIN Tail(seq) : i + 1 \in DOMAIN seq /\ i + 1 # 1 /\ 1 \in DOMAIN seq
  BY <1>2
<1>4. Head(seq) \notin Range(Tail(seq))
  <2>1. SUFFICES ASSUME NEW i \in DOMAIN Tail(seq), Tail(seq)[i] = Head(seq) PROVE FALSE
    BY DEF Range
  <2>2. seq[i + 1] = seq[1]
    BY <1>2, <2>1
  <2>. QED
    BY <1>3, <2>2
<1>5. \A i, j \in DOMAIN Tail(seq) : Tail(seq)[i] = Tail(seq)[j] => i = j
  <2>1. SUFFICES ASSUME NEW i \in DOMAIN Tail(seq), NEW j \in DOMAIN Tail(seq),
                        Tail(seq)[i] = Tail(seq)[j]
                 PROVE  i = j
    OBVIOUS
  <2>2. seq[i + 1] = seq[j + 1]
    BY <1>2, <2>1
  <2>3. i + 1 = j + 1 /\ i \in Int /\ j \in Int
    BY <1>2, <1>3, <2>2
  <2>. QED
    BY <2>3
<1>. QED
  BY <1>1, <1>4, <1>5

\* What the list has after what joined it was not there.
LEMMA JoinedDistinct ==
  ASSUME NEW S, NEW s \in Seq(S), NEW j \in Seq(S), Range(s) \cap Range(j) = {},
         \A a, b \in DOMAIN s : s[a] = s[b] => a = b,
         \A a, b \in DOMAIN j : j[a] = j[b] => a = b
  PROVE  \A a, b \in DOMAIN (s \o j) : (s \o j)[a] = (s \o j)[b] => a = b
<1>. DEFINE n == Len(s)
            m == Len(j)
            at(i) == (s \o j)[i]
<1>1. n \in Nat /\ m \in Nat /\ DOMAIN s = 1..n /\ DOMAIN j = 1..m
  BY LenProperties
<1>2. DOMAIN (s \o j) = 1..(n + m)
  BY ConcatProperties, LenProperties
<1>3. \A i \in 1..(n + m) : at(i) = IF i <= n THEN s[i] ELSE j[i - n]
  BY ConcatProperties
<1>. HIDE DEF at, n, m
<1>4. \A i \in 1..(n + m) : (i \in 1..n /\ i <= n) \/ (i - n \in 1..m /\ ~(i <= n))
  BY <1>1
<1>5. \A i \in 1..(n + m) : \/ i \in DOMAIN s /\ at(i) = s[i]
                            \/ i - n \in DOMAIN j /\ at(i) = j[i - n]
  BY <1>1, <1>3, <1>4
<1>6. ASSUME NEW a \in 1..(n + m), NEW b \in 1..(n + m), at(a) = at(b) PROVE a = b
  <2>1. CASE /\ a \in DOMAIN s /\ at(a) = s[a]
             /\ b \in DOMAIN s /\ at(b) = s[b]
    BY <1>6, <2>1
  <2>2. CASE /\ a - n \in DOMAIN j /\ at(a) = j[a - n]
             /\ b - n \in DOMAIN j /\ at(b) = j[b - n]
    <3>1. a - n = b - n
      BY <1>6, <2>2
    <3>. QED
      BY <1>1, <3>1
  <2>3. CASE /\ a \in DOMAIN s /\ at(a) = s[a]
             /\ b - n \in DOMAIN j /\ at(b) = j[b - n]
    BY <1>6, <2>3 DEF Range
  <2>4. CASE /\ a - n \in DOMAIN j /\ at(a) = j[a - n]
             /\ b \in DOMAIN s /\ at(b) = s[b]
    BY <1>6, <2>4 DEF Range
  <2>. QED
    BY <1>5, <2>1, <2>2, <2>3, <2>4
<1>. QED
  BY <1>2, <1>6 DEF at

\* What the manager reads of its registrations joins the waiters, each in one place.
LEMMA Joined ==
  ASSUME TypeOK, Distinct, Unanswered, TakeRegisters
  PROVE  /\ Range(waiters') = Range(waiters) \cup Registered
         /\ \A i, j \in DOMAIN waiters' : waiters'[i] = waiters'[j] => i = j
         /\ Registrations' = {} /\ Registered' = {}
         /\ Named(timers') \cap Ticket \subseteq Named(timers) \cup Registered
<1>. DEFINE W == WaiterAt(register_inject)
            P == Pick(register_inject, W)
            joined == [n \in DOMAIN P |-> P[n].of]
<1>1. W = Registrations /\ W \in SUBSET DOMAIN register_inject
  BY DEF WaiterAt, Registrations, Unanswered, Unread, Registered
<1>2. register_inject \in Seq(Entry) /\ waiters \in Seq(Ticket) /\ timers \in Seq(Entry)
  BY DEF TypeOK
<1>3. PICK at \in [DOMAIN P -> W] :
        /\ \A n \in DOMAIN P : P[n] = register_inject[at[n]]
        /\ \A n, m \in DOMAIN P : at[n] = at[m] => n = m
        /\ \A i \in W : \E n \in DOMAIN P : at[n] = i
  <2>. HIDE DEF W
  <2>. QED
    BY <1>1, <1>2, PickEach
<1>4. joined \in Seq(Ticket)
  BY <1>2, PickedTickets
<1>5. waiters' = waiters \o joined
  BY DEF TakeRegisters
<1>. HIDE DEF W
<1>. HIDE DEF P
<1>6. DOMAIN joined = DOMAIN P /\ \A n \in DOMAIN P : joined[n] = register_inject[at[n]].of
  BY <1>3
<1>7. Range(joined) = Registered
  <2>. HIDE DEF joined
  <2>1. Range(joined) = {joined[n] : n \in DOMAIN P}
    BY <1>6 DEF Range
  <2>2. \A n \in DOMAIN P : joined[n] \in Registered
    BY <1>1, <1>3, <1>6 DEF Registered
  <2>3. \A i \in Registrations : \E n \in DOMAIN P : joined[n] = register_inject[i].of
    BY <1>1, <1>3, <1>6
  <2>. QED
    BY <2>1, <2>2, <2>3 DEF Registered
<1>8. \A n, m \in DOMAIN joined : joined[n] = joined[m] => n = m
  <2>1. \A n, m \in DOMAIN P : register_inject[at[n]].of = register_inject[at[m]].of => n = m
    BY <1>1, <1>3 DEF Distinct
  <2>. QED
    BY <1>6, <2>1
<1>. HIDE DEF joined
<1>9. Range(waiters') = Range(waiters) \cup Registered
  BY <1>2, <1>4, <1>5, <1>7, RangeConcatenation
<1>10. \A i, j \in DOMAIN waiters' : waiters'[i] = waiters'[j] => i = j
  <2>1. Range(waiters) \cap Range(joined) = {}
    BY <1>7 DEF Distinct
  <2>2. \A i, j \in DOMAIN waiters : waiters[i] = waiters[j] => i = j
    BY DEF Distinct
  <2>3. \A i, j \in DOMAIN (waiters \o joined) :
           (waiters \o joined)[i] = (waiters \o joined)[j] => i = j
    <3>1. waiters \in Seq(Ticket) /\ joined \in Seq(Ticket)
      BY <1>2, <1>4
    <3>. QED
      BY <1>8, <2>1, <2>2, <3>1, JoinedDistinct
  <2>. QED
    BY <1>5, <2>3
<1>11. Registrations' = {} /\ Registered' = {}
  <2>1. register_inject' = <<>>
    BY DEF TakeRegisters
  <2>2. Registrations' = {}
    BY <2>1 DEF Registrations
  <2>. QED
    BY <2>2 DEF Registered
<1>12. Named(timers') \cap Ticket \subseteq Named(timers) \cup Registered
  <2>. DEFINE I == TimedAt(register_inject)
              T == Pick(register_inject, I)
  <2>1. I \in SUBSET DOMAIN register_inject
    BY <1>1 DEF TimedAt, W
  <2>2. timers' = timers \o T
    BY DEF TakeRegisters
  <2>3. \A i \in I : register_inject[i].kind = "drain" \/ i \in Registrations
    BY <1>1 DEF TimedAt, W
  <2>. HIDE DEF I
  <2>4. T \in Seq(Entry) /\ Range(T) \subseteq {register_inject[i] : i \in I}
    BY <1>2, <2>1, RangePick
  <2>5. Range(timers') = Range(timers) \cup Range(T)
    BY <1>2, <2>2, <2>4, RangeConcatenation
  <2>6. ASSUME NEW i \in I PROVE register_inject[i].of \in Drainer \cup Registered
    BY <1>2, <2>1, <2>3, EntryOf DEF Registered
  <2>7. \A e \in Range(T) : e.of \in Drainer \cup Registered
    BY <2>4, <2>6
  <2>8. Drainer \cap Ticket = {}
    BY NamesAssumption
  <2>. QED
    BY <2>5, <2>7, <2>8 DEF Named
<1>. QED
  BY <1>9, <1>10, <1>11, <1>12

\* A waiter is counted before it is registered and until it has been answered or dropped,
\* in one place at a time.
LEMMA EnrolledStep == Sound /\ Sound' /\ Enrolled /\ [Next]_vars => Enrolled'
<1>. SUFFICES ASSUME Sound, Sound', Enrolled, [Next]_vars PROVE Enrolled'
  OBVIOUS
<1>0. /\ Client \subseteq Thread /\ Worker \subseteq Thread /\ Manager \in Thread
      /\ Manager \notin Client /\ Client \cap Worker = {} /\ Manager \notin Worker
      /\ Thread \cap Drainer = {} /\ Ticket \cap Lock = {} /\ NoTicket \notin Ticket
      /\ \A u \in Thread : PlacedAt(u)
      /\ TypeOK /\ TypeOK' /\ Placed /\ Ready /\ Posted
  BY NamesAssumption DEF Thread, Sound, Placed
<1>a. /\ \A c \in Registering : ticket[c] \in Ticket
      /\ \A c \in Client : pc[c] \in Awaiting => ticket[c] \in Ticket
      /\ Registered \subseteq Ticket
  <2>1. \A c \in Client : pc[c] \in {"register"} \cup Awaiting => ticket[c] \in Ticket
    BY <1>0 DEF PlacedAt, Awaiting
  <2>2. Registered \subseteq Ticket
    BY <1>0, EntryOf DEF TypeOK, Registered, Registrations
  <2>. QED
    BY <2>1, <2>2 DEF Registering
<1>. USE DEF counters, queues, client, manager, Goto, Call, Return, Hold, LetGo
\* A step of one thread that is not about the waiters.
<1>1. ASSUME NEW t \in Thread, UNCHANGED <<waiters, register_inject, waiter_count, ticket, letter>>,
             \A u \in Thread \ {t} : pc'[u] = pc[u],
             pc[t] \notin {"register", "decrement", "stopped"},
             pc'[t] \notin {"register", "decrement"} \cup Awaiting,
             t = Manager => (pc'[t] = "skip" => letter[Head(waiters)] # "pending"),
             Named(timers') \cap Ticket \subseteq Named(timers)
      PROVE  Enrolled'
  <2>1. Registrations' = Registrations
    BY <1>1 DEF Registrations
  <2>2. pc[Manager] = "stopped" => pc'[Manager] = "stopped"
    BY <1>0, <1>1
  <2>3. pc'[Manager] = "decrement" <=> pc[Manager] = "decrement"
    BY <1>0, <1>1
  <2>4. pc'[Manager] = "skip" => pc[Manager] = "skip" \/ letter'[Head(waiters)] # "pending"
    BY <1>0, <1>1
  <2>5. /\ \A c \in Client : pc'[c] = "register" <=> pc[c] = "register"
        /\ \A c \in Client : pc'[c] \in Awaiting => pc[c] \in Awaiting
    BY <1>0, <1>1
  <2>. QED
    BY <1>0, <1>1, <2>1, <2>2, <2>3, <2>4, <2>5, EnrolledKeeps
\* A step that moves no thread, or none that the waiters are about.
<1>2. ASSUME UNCHANGED <<waiters, register_inject, waiter_count, ticket, letter>>,
             \A u \in Thread : pc'[u] = pc[u],
             Named(timers') \cap Ticket \subseteq Named(timers)
      PROVE  Enrolled'
  <2>1. Registrations' = Registrations
    BY <1>2 DEF Registrations
  <2>. QED
    BY <1>0, <1>2, <2>1, EnrolledKeeps
<1>3. ASSUME NEW t \in Thread, Release(t) \/ ReleaseRecheck(t) PROVE Enrolled'
  <2>1. /\ pc[t] \in {"release", "recheck"} /\ pc'[t] \in {"recheck", "return", "dispose"}
        /\ \A u \in Thread \ {t} : pc'[u] = pc[u]
        /\ UNCHANGED <<waiters, register_inject, waiter_count, ticket, letter>>
    BY <1>0, <1>3 DEF Release, ReleaseRecheck, KeepOr, TypeOK
  <2>2. timers' = timers \/ timers' = Outdated(timers, hand[t])
    BY <1>3 DEF Release, ReleaseRecheck, KeepOr
  <2>3. Named(timers') = Named(timers)
    BY <1>0, <2>2, NamedKept DEF TypeOK
  <2>. QED
    BY <1>1, <2>1, <2>3 DEF Awaiting
<1>4. ASSUME NEW t \in Thread, \/ ReleaseReturn(t) \/ ReleaseTell(t) \/ Dispose(t)
                              \/ DisposeTell(t) \/ UnlockNone(t)
      PROVE  Enrolled'
  <2>1. /\ pc[t] \in {"return", "tell", "dispose", "dispose_count", "unlock"}
        /\ \A u \in Thread \ {t} : pc'[u] = pc[u]
        /\ UNCHANGED <<waiters, register_inject, waiter_count, ticket, letter, timers>>
    BY <1>0, <1>4 DEF ReleaseReturn, ReleaseTell, Dispose, DisposeTell, UnlockNone, TypeOK
  <2>2. pc'[t] \in {"tell", "dispose_count", "unlock"} \/ pc'[t] \in Resumed(t)
    BY <1>0, <1>4
    DEF ReleaseReturn, ReleaseTell, Dispose, DisposeTell, UnlockNone, PlacedAt, Leaving, TypeOK
  <2>3. Resumed(t) \subseteq {"idle", "init", "pop", "timers", "state", "drain"}
    BY DEF Resumed
  <2>. QED
    BY <1>1, <2>1, <2>2, <2>3 DEF Awaiting
<1>5. ASSUME NEW t \in Client \cup {Manager}, PopIdle(t) \/ LockIdle(t) PROVE Enrolled'
  <2>1. /\ t \in Thread /\ pc[t] \in {"pop", "lock"}
        /\ pc'[t] \in {"pop", "lock", "count", "state", "send", "peek", "unlock"}
        /\ \A u \in Thread \ {t} : pc'[u] = pc[u]
        /\ UNCHANGED <<waiters, register_inject, waiter_count, ticket, letter, timers>>
    BY <1>0, <1>5 DEF PopIdle, LockIdle, TypeOK
  <2>. QED
    BY <1>1, <2>1 DEF Awaiting
\* Clients that do not wait.
<1>6. ASSUME NEW c \in Client,
             \/ AcquireAgain(c) \/ Acquire(c) \/ Peek(c) \/ CreateFromCount(c)
             \/ UpdateCount(c) \/ Create(c) \/ Discard(c) \/ DropManaged(c)
      PROVE  Enrolled'
  <2>1. UNCHANGED <<waiters, register_inject, waiter_count, ticket, letter, timers>>
    BY <1>6
    DEF AcquireAgain, Acquire, CheckBusy, Peek, CreateFromCount, UpdateCount, Create, Discard,
        DropManaged
  <2>2. /\ pc[c] \in {"init", "idle", "peek", "count", "cas", "create", "managed"}
        /\ pc'[c] \in {"pop", "count", "managed", "release", "verifying", "cas", "wait",
                       "create", "creating"}
        /\ \A u \in Thread \ {c} : pc'[u] = pc[u]
    BY <1>0, <1>6
    DEF AcquireAgain, Acquire, CheckBusy, Peek, Resolved, CreateFromCount, UpdateCount, Create,
        Discard, DropManaged, TypeOK
  <2>. QED
    BY <1>0, <1>1, <2>1, <2>2 DEF Awaiting
<1>7. ASSUME NEW t \in Client \cup Worker, EndCreate(t) \/ EndVerify(t) PROVE Enrolled'
  <2>1. /\ pc[t] \in {"creating", "verifying"} /\ t \in Thread
        /\ UNCHANGED <<waiters, register_inject, waiter_count, ticket, letter, timers>>
    BY <1>0, <1>7 DEF EndCreate, EndVerify
  <2>2. \E next \in {"managed", "release", "unlock"} : Goto(t, next)
    BY <1>7 DEF EndCreate, EndVerify, Complete, Fail, Resolved
  <2>3. /\ pc'[t] \in {"managed", "release", "unlock"}
        /\ \A u \in Thread \ {t} : pc'[u] = pc[u]
    BY <1>0, <2>1, <2>2 DEF TypeOK
  <2>. QED
    BY <1>1, <2>1, <2>3 DEF Awaiting
<1>8. ASSUME NEW c \in Client, AbandonFuture(c) PROVE Enrolled'
  <2>1. PICK w \in Worker : /\ pc[w] = "idle" /\ pc[c] \in {"creating", "verifying"}
                           /\ pc' = [pc EXCEPT ![w] = pc[c], ![c] = "idle"]
    BY <1>8 DEF AbandonFuture
  <2>2. /\ w # c /\ w # Manager /\ c # Manager /\ w \notin Client
        /\ UNCHANGED <<waiters, register_inject, waiter_count, ticket, letter, timers>>
    BY <1>0, <1>8, <2>1 DEF AbandonFuture
  <2>3. pc'[c] = "idle" /\ \A u \in Thread \ {w, c} : pc'[u] = pc[u]
    BY <1>0, <2>1, <2>2 DEF TypeOK
  <2>4. /\ pc'[Manager] = pc[Manager]
        /\ \A d \in Client : pc'[d] = pc[d] \/ (pc[d] # "register" /\ pc'[d] = "idle")
    BY <1>0, <2>1, <2>2, <2>3
  <2>5. Registrations' = Registrations
    BY <2>2 DEF Registrations
  <2>. QED
    BY <1>0, <2>2, <2>4, <2>5, EnrolledKeeps DEF Awaiting
<1>9. ASSUME NEW c \in Client, NotifyManager(c) PROVE Enrolled'
  <2>1. /\ UNCHANGED <<waiters, register_inject, waiter_count, ticket, letter, timers>>
        /\ pc[c] \in Awaiting /\ pc'[c] \in Awaiting /\ c # Manager
        /\ \A u \in Thread \ {c} : pc'[u] = pc[u]
    BY <1>0, <1>9 DEF NotifyManager, Awaiting, TypeOK
  <2>2. Registrations' = Registrations
    BY <2>1 DEF Registrations
  <2>3. \A d \in Client : pc'[d] = "register" <=> pc[d] = "register"
    BY <1>0, <2>1 DEF Awaiting
  <2>4. \A d \in Client : pc'[d] \in Awaiting => pc[d] \in Awaiting
    BY <1>0, <2>1
  <2>5. pc'[Manager] = pc[Manager]
    BY <1>0, <2>1
  <2>. QED
    BY <1>0, <2>1, <2>2, <2>3, <2>4, <2>5, EnrolledKeeps
<1>10. ASSUME NEW t \in Client \cup Drainer, Dropping(t) \/ DropHandle(t) PROVE Enrolled'
  BY <1>2, <1>10 DEF Dropping, ShutDown, ShutDownNotify, Uncount, DropHandle
<1>11. ASSUME NEW d \in Drainer, DrainNotify(d) PROVE Enrolled'
  <2>1. \A u \in Thread : u # d
    BY <1>0
  <2>2. \A u \in Thread : pc'[u] = pc[u]
    BY <1>0, <1>11, <2>1 DEF DrainNotify, TypeOK
  <2>. QED
    BY <1>2, <1>11, <2>2 DEF DrainNotify
<1>12. ASSUME NEW d \in Drainer, Drain(d) PROVE Enrolled'
  <2>1. \A u \in Thread : u # d
    BY <1>0
  <2>2. \A u \in Thread : pc'[u] = pc[u]
    BY <1>0, <1>12, <2>1 DEF Drain, TypeOK
  <2>3. /\ register_inject' = Append(register_inject, Entered("drain", d))
        /\ UNCHANGED <<waiters, waiter_count, ticket, letter, timers>>
    BY <1>12 DEF Drain
  <2>4. Entered("drain", d) \in Entry /\ Entered("drain", d).kind # "waiter"
    BY DEF Entered, Entry
  <2>5. /\ Registrations' = Registrations
        /\ \A i \in Registrations : register_inject'[i] = register_inject[i]
    BY <1>0, <2>3, <2>4, RegistrationAdded
  <2>. QED
    BY <1>0, <2>2, <2>3, <2>5, EnrolledKeeps
\* A client is counted, with a waiter that is nobody else's.
<1>13. ASSUME NEW c \in Client, TryWait(c) PROVE Enrolled'
  <2>0. /\ pc[c] = "wait" /\ ticket[c] = NoTicket /\ c \in Thread /\ c # Manager
        /\ UNCHANGED <<waiters, register_inject, timers>>
    BY <1>0, <1>13 DEF TryWait, Posted, Ticketed
  <2>1. CASE Goto(c, "idle") /\ UNCHANGED <<waiter_count, ticket, letter>>
    <3>1. pc'[c] = "idle" /\ \A u \in Thread \ {c} : pc'[u] = pc[u]
      BY <1>0, <2>1 DEF TypeOK
    <3>. QED
      BY <1>1, <2>0, <2>1, <3>1 DEF Awaiting
  <2>2. CASE ~(Goto(c, "idle") /\ UNCHANGED <<waiter_count, ticket, letter>>)
    <3>. SUFFICES ASSUME pc'[Manager] # "stopped"
                  PROVE  Distinct' /\ Unanswered' /\ Known' /\ Tallied' /\ Cancelled'
      BY DEF Enrolled
    <3>1. PICK k \in FreshTicket : /\ ticket' = [ticket EXCEPT ![c] = k]
                                  /\ letter' = [letter EXCEPT ![k] = "pending"]
      BY <1>13, <2>2 DEF TryWait
    <3>2. /\ waiter_count < MaxWaiters /\ waiter_count' = More(waiter_count)
          /\ Goto(c, "register")
      BY <1>13, <2>2 DEF TryWait
    <3>3. /\ pc'[c] = "register" /\ \A u \in Thread \ {c} : pc'[u] = pc[u]
          /\ pc'[Manager] = pc[Manager]
      BY <1>0, <2>0, <3>2 DEF TypeOK
    <3>4. Distinct /\ Unanswered /\ Known /\ Tallied /\ Cancelled
      BY <3>3 DEF Enrolled
    <3>5. /\ k \in Ticket /\ k \notin Range(waiters) /\ k \notin Registered
          /\ k \notin Named(timers) /\ \A d \in Client : ticket[d] # k
      <4>1. k \in Ticket /\ k \notin Range(waiters) /\ k \notin Named(timers)
            /\ k \notin Range(ticket) /\ k \notin Named(register_inject)
        BY <3>1 DEF FreshTicket
      <4>2. Registered \subseteq Named(register_inject)
        BY DEF Registered, Registrations, Named, Range
      <4>3. \A d \in Client : ticket[d] \in Range(ticket)
        BY <1>0 DEF TypeOK, Range
      <4>. QED
        BY <4>1, <4>2, <4>3
    <3>6. /\ ticket'[c] = k /\ \A d \in Client \ {c} : ticket'[d] = ticket[d]
          /\ letter'[k] = "pending" /\ \A j \in Ticket \ {k} : letter'[j] = letter[j]
      BY <1>0, <3>1, <3>5 DEF TypeOK
    <3>7. /\ Registrations' = Registrations /\ Registered' = Registered
          /\ Registering' = Registering \cup {c} /\ c \notin Registering
      BY <1>0, <2>0, <3>3 DEF Registrations, Registered, Registering
    <3>8. /\ {ticket'[d] : d \in Registering'} = {ticket[d] : d \in Registering} \cup {k}
          /\ k \notin {ticket[d] : d \in Registering}
      <4>1. \A d \in Registering : ticket'[d] = ticket[d]
        BY <3>6, <3>7 DEF Registering
      <4>. QED
        BY <3>5, <3>6, <3>7, <4>1 DEF Registering
    <3>9. Queued' = Queued \cup {k} /\ k \notin Queued /\ Unread' = Unread \cup {k} /\ k \notin Unread
      BY <2>0, <3>5, <3>7, <3>8 DEF Queued, Unread
    <3>10. Distinct'
      <4>1. \A i, j \in Registrations : register_inject[i].of = register_inject[j].of => i = j
        BY <3>4 DEF Distinct
      <4>2. \A d, e \in Client : ticket'[d] = ticket'[e] /\ ticket'[d] # NoTicket => d = e
        BY <3>4, <3>5, <3>6 DEF Distinct
      <4>3. \A d \in Registering' : ticket'[d] \notin Range(waiters) \cup Registered
        BY <3>4, <3>5, <3>6, <3>7 DEF Distinct, Registering
      <4>. QED
        BY <2>0, <3>4, <3>7, <4>1, <4>2, <4>3 DEF Distinct
    <3>11. Unanswered'
      <4>1. Unread \subseteq Ticket
        BY <1>a DEF Unread
      <4>. QED
        BY <2>0, <3>4, <3>5, <3>6, <3>9, <4>1 DEF Unanswered
    <3>12. Known'
      <4>1. \A d \in Client : pc'[d] \in Awaiting => d # c /\ pc[d] \in Awaiting
        BY <1>0, <3>3 DEF Awaiting
      <4>. QED
        BY <1>a, <2>0, <3>4, <3>5, <3>6, <3>7, <4>1 DEF Known
    <3>13. Tallied'
      <4>1. waiter_count' = waiter_count + 1 /\ waiter_count \in Nat
        <5>1. MaxWaiters \in Nat /\ MaxWaiters <= UsizeMax /\ UsizeMax \in Nat
          BY <1>0, PoolAssumption DEF TypeOK, MaxWaiters, PoolConfig
        <5>2. waiter_count \in 0..UsizeMax /\ waiter_count < UsizeMax
          BY <1>0, <3>2, <5>1 DEF TypeOK
        <5>. QED
          BY <3>2, <5>1, <5>2, CountsOn
      <4>2. IsFiniteSet(Queued)
        BY <1>0, <1>a, <3>4, QueuedCount
      <4>3. Cardinality(Queued') = Cardinality(Queued) + 1 /\ Cardinality(Queued) \in Nat
        BY <3>9, <4>2, FS_AddElement, FS_CardinalityType
      <4>4. Passing' = Passing /\ Passing \in Nat
        BY <3>3 DEF Passing
      <4>. QED
        BY <3>4, <4>1, <4>3, <4>4 DEF Tallied
    <3>14. Cancelled'
      <4>1. pc[Manager] = "skip" => Head(waiters) \in Range(waiters) /\ Head(waiters) \in Ticket
        BY <1>0, RangePop DEF Ready, TypeOK
      <4>. QED
        BY <2>0, <3>3, <3>4, <3>5, <3>6, <4>1 DEF Cancelled
    <3>. QED
      BY <3>10, <3>11, <3>12, <3>13, <3>14
  <2>. QED
    BY <2>1, <2>2
\* A counted client registers.
<1>14. ASSUME NEW c \in Client, RegisterWaiter(c) PROVE Enrolled'
  <2>. DEFINE k == ticket[c]
              n == Len(register_inject) + 1
  <2>. SUFFICES ASSUME pc'[Manager] # "stopped"
                PROVE  Distinct' /\ Unanswered' /\ Known' /\ Tallied' /\ Cancelled'
    BY DEF Enrolled
  <2>1. /\ pc[c] = "register" /\ c \in Thread /\ c # Manager /\ c \in Registering /\ k \in Ticket
        /\ UNCHANGED <<waiters, timers, ticket, letter, waiter_count>>
        /\ register_inject' = Append(register_inject, Entered("waiter", k))
    BY <1>0, <1>a, <1>14 DEF RegisterWaiter, Registering
  <2>2. /\ pc'[c] = "notify" /\ \A u \in Thread \ {c} : pc'[u] = pc[u]
        /\ pc'[Manager] = pc[Manager]
    BY <1>0, <1>14 DEF RegisterWaiter, TypeOK
  <2>3. Distinct /\ Unanswered /\ Known /\ Tallied /\ Cancelled
    BY <2>2 DEF Enrolled
  <2>4. Entered("waiter", k) \in Entry /\ Entered("waiter", k).kind = "waiter" /\ Entered("waiter", k).of = k
    BY <2>1 DEF Entered, Entry
  <2>5. /\ Registrations' = Registrations \cup {n} /\ n \notin Registrations
        /\ register_inject'[n].of = k
        /\ \A i \in Registrations : register_inject'[i] = register_inject[i]
    BY <1>0, <2>1, <2>4, RegistrationAdded
  <2>. HIDE DEF n
  <2>6. Registered' = Registered \cup {k}
    BY <2>5 DEF Registered
  <2>7. Registering' = Registering \ {c}
    BY <1>0, <2>2 DEF Registering
  <2>8. k \notin Range(waiters) /\ k \notin Registered
    BY <2>1, <2>3 DEF Distinct
  <2>9. \A d \in Registering' : ticket[d] # k
    BY <1>0, <2>1, <2>3, <2>7 DEF Distinct, Registering
  <2>10. {ticket[d] : d \in Registering'} \cup {k} = {ticket[d] : d \in Registering}
    BY <2>1, <2>7
  <2>11. Queued' = Queued /\ Unread' = Unread
    BY <2>1, <2>6, <2>10 DEF Queued, Unread
  <2>12. Distinct'
    <3>1. \A i, j \in Registrations' : register_inject'[i].of = register_inject'[j].of => i = j
      <4>1. \A i \in Registrations : register_inject'[i].of # k
        BY <2>5, <2>8 DEF Registered
      <4>2. \A i, j \in Registrations : register_inject'[i].of = register_inject'[j].of => i = j
        BY <2>3, <2>5 DEF Distinct
      <4>. QED
        BY <2>5, <4>1, <4>2
    <3>2. Range(waiters) \cap Registered' = {}
      BY <2>3, <2>6, <2>8 DEF Distinct
    <3>3. \A d \in Registering' : ticket[d] \notin Range(waiters) \cup Registered'
      BY <2>3, <2>6, <2>7, <2>9 DEF Distinct
    <3>. QED
      BY <2>1, <2>3, <3>1, <3>2, <3>3 DEF Distinct
  <2>13. Unanswered'
    BY <2>1, <2>3, <2>11 DEF Unanswered
  <2>14. Known'
    <3>1. ASSUME NEW d \in Client, pc'[d] \in Awaiting, letter[ticket[d]] = "pending"
          PROVE  ticket[d] \in Range(waiters) \cup Registered'
      <4>1. CASE d = c
        BY <2>6, <4>1
      <4>2. CASE d # c
        <5>1. pc[d] \in Awaiting
          BY <1>0, <2>2, <3>1, <4>2
        <5>. QED
          BY <2>3, <2>6, <3>1, <5>1 DEF Known
      <4>. QED
        BY <4>1, <4>2
    <3>. QED
      BY <2>1, <3>1 DEF Known
  <2>15. Tallied' /\ Cancelled'
    BY <2>1, <2>2, <2>3, <2>11 DEF Tallied, Passing, Cancelled
  <2>. QED
    BY <2>12, <2>13, <2>14, <2>15
\* A client has its answer, or gives up; its waiter may stay in the list.
<1>15. ASSUME NEW c \in Client, Answered(c) \/ AbandonWaiter(c) PROVE Enrolled'
  <2>1. /\ pc[c] = "waiting" /\ c \in Thread /\ c # Manager /\ ticket[c] \in Ticket
        /\ UNCHANGED <<waiters, register_inject, waiter_count, timers>>
        /\ ticket' = [ticket EXCEPT ![c] = NoTicket]
    BY <1>0, <1>a, <1>15 DEF Answered, AbandonWaiter, Awaiting
  <2>2. \E next \in {"idle", "release", "managed"} : Goto(c, next)
    BY <1>15 DEF Answered, AbandonWaiter, Resolved
  <2>3. /\ pc'[c] \in {"idle", "release", "managed"} /\ \A u \in Thread \ {c} : pc'[u] = pc[u]
        /\ pc'[Manager] = pc[Manager]
    BY <1>0, <2>1, <2>2 DEF TypeOK
  <2>4. /\ ticket'[c] = NoTicket /\ \A d \in Client \ {c} : ticket'[d] = ticket[d]
    BY <1>0, <2>1 DEF TypeOK
  <2>5. \/ letter' = letter
        \/ letter[ticket[c]] # "pending" /\ letter' = [letter EXCEPT ![ticket[c]] = "taken"]
    BY <1>15, NamesAssumption DEF Answered, AbandonWaiter
  <2>6. \A k \in Ticket : letter'[k] = "pending" => letter[k] = "pending"
    BY <1>0, <2>1, <2>5 DEF TypeOK
  <2>7. pc[Manager] # "stopped" => \A k \in Unread : letter'[k] = letter[k]
    <3>1. ASSUME pc[Manager] # "stopped", NEW k \in Unread PROVE letter'[k] = letter[k]
      <4>1. letter[k] = "pending" /\ k \in Ticket
        BY <1>a, <3>1 DEF Enrolled, Unanswered, Unread
      <4>. QED
        BY <1>0, <2>1, <2>5, <4>1 DEF TypeOK
    <3>. QED
      BY <3>1
  <2>8. Registrations' = Registrations
    BY <2>1 DEF Registrations
  <2>9. /\ \A d \in Client : pc'[d] = "register" <=> pc[d] = "register"
        /\ \A d \in Client : pc'[d] \in Awaiting => pc[d] \in Awaiting /\ ticket'[d] = ticket[d]
        /\ \A d \in Client : ticket'[d] = ticket[d] \/ (ticket'[d] = NoTicket /\ pc[d] # "register")
    BY <1>0, <2>1, <2>3, <2>4 DEF Awaiting
  <2>10. CASE pc[Manager] = "stopped"
    BY <2>3, <2>10 DEF Enrolled
  <2>11. CASE pc[Manager] # "stopped"
    BY <1>0, <2>1, <2>3, <2>6, <2>7, <2>8, <2>9, <2>11, EnrolledKeeps
  <2>. QED
    BY <2>10, <2>11
\* The manager's timers.
<1>16. CASE VerifyTimer
  <2>1. /\ UNCHANGED <<waiters, register_inject, waiter_count, ticket, letter>>
        /\ pc[Manager] = "timers" /\ Range(timers') \subseteq Range(timers)
    BY <1>0, <1>16, Fired
  <2>2. Named(timers') \subseteq Named(timers)
    BY <2>1 DEF Named
  <2>3. CASE pc' = pc
    BY <1>2, <2>1, <2>2, <2>3
  <2>4. CASE \E w \in Worker : Goto(w, "verifying") /\ pc[w] = "idle"
    <3>1. PICK w \in Worker : Goto(w, "verifying") /\ pc[w] = "idle"
      BY <2>4
    <3>2. w \in Thread /\ w # Manager /\ pc'[w] = "verifying" /\ \A u \in Thread \ {w} : pc'[u] = pc[u]
      BY <1>0, <3>1 DEF TypeOK
    <3>. QED
      BY <1>1, <2>1, <2>2, <3>1, <3>2 DEF Awaiting
  <2>5. CASE Goto(Manager, "dispose") \/ Goto(Manager, "release")
    <3>1. pc'[Manager] \in {"dispose", "release"} /\ \A u \in Thread \ {Manager} : pc'[u] = pc[u]
      BY <1>0, <2>5 DEF TypeOK
    <3>. QED
      BY <1>0, <1>1, <2>1, <2>2, <3>1 DEF Awaiting
  <2>. QED
    BY <1>0, <1>16, <2>3, <2>4, <2>5, Fired DEF Moved
\* A waiter's timer is not there before its registration is read.
<1>17. CASE WaiterTimer
  <2>1. PICK i \in DOMAIN timers :
          /\ timers[i].kind = "waiter"
          /\ timers' = RemoveAt(timers, i)
          /\ letter' = [letter EXCEPT ![timers[i].of] = IF @ = "pending" THEN "taken" ELSE @]
    BY <1>17 DEF WaiterTimer
  <2>2. /\ UNCHANGED <<pc, waiters, register_inject, waiter_count, ticket>>
        /\ pc[Manager] = "timers"
    BY <1>17 DEF WaiterTimer
  <2>3. timers[i].of \in Named(timers) /\ timers[i].of \in Ticket
    BY <1>0, <2>1, EntryOf DEF TypeOK, Named
  <2>4. Named(timers') \subseteq Named(timers)
    BY <1>0, <2>1, NamedKept DEF TypeOK
  <2>5. \A k \in Unread : k \in Ticket /\ k # timers[i].of
    BY <1>a, <2>2, <2>3 DEF Enrolled, Unanswered, Unread
  <2>6. /\ \A k \in Unread : letter'[k] = letter[k]
        /\ \A k \in Ticket : letter'[k] = "pending" => letter[k] = "pending"
    BY <1>0, <2>1, <2>3, <2>5 DEF TypeOK
  <2>7. Registrations' = Registrations
    BY <2>2 DEF Registrations
  <2>. QED
    BY <1>0, <2>2, <2>4, <2>6, <2>7, EnrolledKeeps
<1>18. CASE DrainTimer
  <2>1. PICK i \in DOMAIN timers :
          /\ timers[i].kind = "drain" /\ timers' = RemoveAt(timers, i)
          /\ Goto(timers[i].of, WhenUndrained(timers[i].of))
    BY <1>18 DEF DrainTimer
  <2>2. timers[i].of \in Drainer
    BY <1>0, <2>1, EntryOf DEF TypeOK
  <2>3. \A u \in Thread : pc'[u] = pc[u]
    BY <1>0, <2>1, <2>2 DEF TypeOK
  <2>4. Named(timers') \subseteq Named(timers)
    BY <1>0, <2>1, NamedKept DEF TypeOK
  <2>. QED
    BY <1>2, <1>18, <2>3, <2>4 DEF DrainTimer
\* What the manager does beside the waiters.
<1>19. CASE \/ Listen \/ Park \/ CheckState \/ CheckWaiters \/ DrainLock
  <2>1. UNCHANGED <<waiters, register_inject, waiter_count, ticket, letter, timers>>
    BY <1>19 DEF Listen, Park, CheckState, CheckWaiters, DrainLock
  <2>2. pc[Manager] \in {"timers", "park", "state", "waiters", "drain"}
    BY <1>19 DEF Listen, Park, CheckState, CheckWaiters, DrainLock
  <2>3. /\ pc'[Manager] \in {"events", "timers", "drain", "park", "state", "skip", "pop", "dispose",
                             "release", "send"}
        /\ pc'[Manager] = "skip" => letter[Head(waiters)] # "pending"
        /\ \A u \in Thread \ {Manager} : pc'[u] = pc[u]
    <3>1. CASE Listen \/ Park \/ CheckState
      BY <1>0, <3>1 DEF Listen, Park, CheckState, TypeOK
    <3>2. CASE CheckWaiters
      <4>1. NextWaiter(waiters, NoLock) \in {"state", "skip", "pop", "release", "send"}
        BY DEF NextWaiter
      <4>2. NextWaiter(waiters, NoLock) = "skip" => letter[Head(waiters)] # "pending"
        BY DEF NextWaiter
      <4>3. Goto(Manager, "state") \/ Goto(Manager, NextWaiter(waiters, NoLock))
        BY <3>2 DEF CheckWaiters
      <4>. QED
        BY <1>0, <4>1, <4>2, <4>3 DEF TypeOK
    <3>3. CASE DrainLock
      <4>1. pc' = pc \/ Goto(Manager, "dispose")
        BY <3>3 DEF DrainLock
      <4>. QED
        BY <1>0, <3>3, <4>1 DEF TypeOK, DrainLock
    <3>. QED
      BY <1>19, <3>1, <3>2, <3>3
  <2>. QED
    BY <1>0, <1>1, <2>1, <2>2, <2>3 DEF Awaiting
<1>20. CASE TakeEvents
  <2>1. /\ UNCHANGED <<waiters, register_inject, waiter_count, ticket, letter>>
        /\ pc[Manager] = "events" /\ pc'[Manager] = "registers"
        /\ \A u \in Thread \ {Manager} : pc'[u] = pc[u]
        /\ timers' = timers \o Pick(event_queue, VerifyAt(event_queue))
    BY <1>0, <1>20 DEF TakeEvents, TypeOK
  <2>. DEFINE I == VerifyAt(event_queue)
              T == Pick(event_queue, I)
  <2>2. I \in SUBSET DOMAIN event_queue /\ \A i \in I : event_queue[i].kind = "verify"
    BY DEF VerifyAt
  <2>. HIDE DEF I
  <2>3. T \in Seq(Entry) /\ Range(T) \subseteq {event_queue[i] : i \in I}
    BY <1>0, <2>2, RangePick DEF TypeOK
  <2>4. \A i \in I : event_queue[i].of \in Lock
    BY <1>0, <2>2, EntryOf DEF TypeOK
  <2>5. \A e \in Range(T) : e.of \notin Ticket
    BY <1>0, <2>3, <2>4
  <2>6. Range(timers') = Range(timers) \cup Range(T)
    BY <1>0, <2>1, <2>3, RangeConcatenation DEF TypeOK, I
  <2>7. Named(timers') \cap Ticket \subseteq Named(timers)
    BY <2>5, <2>6 DEF Named
  <2>. QED
    BY <1>0, <1>1, <2>1, <2>7 DEF Awaiting
\* The manager reads of the waiters.
<1>21. CASE TakeRegisters
  <2>. SUFFICES ASSUME pc'[Manager] # "stopped"
                PROVE  Distinct' /\ Unanswered' /\ Known' /\ Tallied' /\ Cancelled'
    BY DEF Enrolled
  <2>1. /\ UNCHANGED <<waiter_count, ticket, letter>>
        /\ pc[Manager] = "registers" /\ pc'[Manager] = "waiters"
        /\ \A u \in Thread \ {Manager} : pc'[u] = pc[u]
    BY <1>0, <1>21 DEF TakeRegisters, TypeOK
  <2>2. Distinct /\ Unanswered /\ Known /\ Tallied /\ Cancelled
    BY <2>1 DEF Enrolled
  <2>3. /\ Range(waiters') = Range(waiters) \cup Registered
        /\ \A i, j \in DOMAIN waiters' : waiters'[i] = waiters'[j] => i = j
        /\ Registrations' = {} /\ Registered' = {}
        /\ Named(timers') \cap Ticket \subseteq Named(timers) \cup Registered
    BY <1>0, <1>21, <2>2, Joined
  <2>4. Registering' = Registering
    BY <1>0, <2>1 DEF Registering
  <2>5. Queued' = Queued /\ Unread' = {ticket[c] : c \in Registering}
    BY <2>1, <2>3, <2>4 DEF Queued, Unread
  <2>6. Distinct'
    BY <2>1, <2>2, <2>3, <2>4 DEF Distinct
  <2>7. Unanswered'
    <3>1. ASSUME NEW c \in Registering PROVE letter[ticket[c]] = "pending" /\ ticket[c] \notin Named(timers')
      <4>1. ticket[c] \in Ticket /\ ticket[c] \notin Registered
        BY <1>a, <2>2, <3>1 DEF Distinct
      <4>2. letter[ticket[c]] = "pending" /\ ticket[c] \notin Named(timers)
        BY <2>2, <3>1 DEF Unanswered, Unread
      <4>. QED
        BY <2>3, <4>1, <4>2
    <3>. QED
      BY <2>1, <2>5, <3>1 DEF Unanswered
  <2>8. Known'
    <3>1. \A c \in Client : pc'[c] = pc[c]
      BY <1>0, <2>1
    <3>. QED
      BY <2>1, <2>2, <2>3, <3>1 DEF Known
  <2>9. Tallied' /\ Cancelled'
    BY <2>1, <2>2, <2>5 DEF Tallied, Passing, Cancelled
  <2>. QED
    BY <2>6, <2>7, <2>8, <2>9
\* A waiter leaves the list, cancelled or to be answered.
<1>22. CASE SkipWaiter \/ Send
  <2>. DEFINE k == Head(waiters)
  <2>. SUFFICES ASSUME pc'[Manager] # "stopped"
                PROVE  Distinct' /\ Unanswered' /\ Known' /\ Tallied' /\ Cancelled'
    BY DEF Enrolled
  <2>1. /\ UNCHANGED <<register_inject, ticket, timers>> /\ waiters' = Tail(waiters)
        /\ pc[Manager] \in {"skip", "send"} /\ waiters # <<>>
    BY <1>0, <1>22 DEF SkipWaiter, Send, DecrementWaiters, Ready, Serving
  <2>2. Distinct /\ Unanswered /\ Known /\ Tallied /\ Cancelled
    BY <2>1 DEF Enrolled
  <2>3. /\ k \in Range(waiters) /\ k \in Ticket
        /\ Range(waiters') = Range(waiters) \ {k}
        /\ \A i, j \in DOMAIN waiters' : waiters'[i] = waiters'[j] => i = j
    <3>1. waiters \in Seq(Ticket) /\ \A i, j \in DOMAIN waiters : waiters[i] = waiters[j] => i = j
      BY <1>0, <2>2 DEF TypeOK, Distinct
    <3>2. Range(waiters) \subseteq Ticket
      BY <3>1, RangeOfSeq
    <3>. QED
      BY <2>1, <3>1, <3>2, HeadTaken
  <2>4. \E next \in {"state", "release", "skip", "pop", "send", "decrement"} : Goto(Manager, next)
    <3>1. \A list, l : NextWaiter(list, l) \in {"state", "release", "skip", "pop", "send"}
      BY DEF NextWaiter
    <3>. QED
      BY <1>22, <3>1 DEF SkipWaiter, Send, DecrementWaiters
  <2>5. \A u \in Thread \ {Manager} : pc'[u] = pc[u]
    BY <1>0, <2>4 DEF TypeOK
  <2>6. /\ Registrations' = Registrations /\ Registered' = Registered /\ Registering' = Registering
    BY <1>0, <2>1, <2>5 DEF Registrations, Registered, Registering
  <2>7. k \notin Unread
    BY <2>2, <2>3 DEF Unread, Distinct
  <2>8. Queued' = Queued \ {k} /\ k \in Queued /\ Unread' = Unread
    BY <2>1, <2>3, <2>6, <2>7 DEF Queued, Unread
  <2>9. letter'[k] # "pending" /\ \A j \in Ticket \ {k} : letter'[j] = letter[j]
    <3>1. CASE SkipWaiter
      BY <2>2, <3>1 DEF SkipWaiter, DecrementWaiters, Cancelled
    <3>2. CASE Send
      <4>1. \/ letter' = [letter EXCEPT ![k] = hand[Manager]]
            \/ letter' = [letter EXCEPT ![k] = "taken"]
        BY <3>2 DEF Send
      <4>2. hand[Manager] # "pending"
        BY <1>0, <3>2, NamesAssumption DEF Send, PlacedAt, Handling, Guarded
      <4>. QED
        BY <1>0, <2>3, <4>1, <4>2 DEF TypeOK
    <3>. QED
      BY <1>22, <3>1, <3>2
  <2>10. Distinct'
    BY <2>1, <2>2, <2>3, <2>6 DEF Distinct
  <2>11. Unanswered'
    BY <1>a, <2>1, <2>2, <2>7, <2>8, <2>9 DEF Unanswered, Unread
  <2>12. Known'
    <3>1. ASSUME NEW c \in Client, pc'[c] \in Awaiting, letter'[ticket[c]] = "pending"
          PROVE  ticket[c] \in Range(waiters') \cup Registered
      <4>1. pc[c] \in Awaiting /\ ticket[c] \in Ticket /\ ticket[c] # k
        BY <1>0, <1>a, <2>5, <2>9, <3>1
      <4>2. letter[ticket[c]] = "pending"
        BY <2>9, <3>1, <4>1
      <4>. QED
        BY <2>2, <2>3, <4>1, <4>2 DEF Known
    <3>. QED
      BY <2>1, <2>6, <3>1 DEF Known
  <2>13. Tallied'
    <3>1. IsFiniteSet(Queued)
      BY <1>0, <1>a, <2>2, QueuedCount
    <3>2. /\ Cardinality(Queued') = Cardinality(Queued) - 1
          /\ Cardinality(Queued) \in Nat /\ Cardinality(Queued) # 0
      BY <2>8, <3>1, FS_RemoveElement, FS_CardinalityType, FS_EmptySet
    <3>3. waiter_count = Cardinality(Queued) /\ waiter_count \in 0..UsizeMax
      BY <1>0, <2>1, <2>2, <3>2 DEF Tallied, Passing, TypeOK
    <3>4. CASE Send
      <4>1. pc'[Manager] = "decrement" /\ waiter_count' = waiter_count
        BY <1>0, <3>4 DEF Send, TypeOK
      <4>. QED
        BY <3>2, <3>3, <4>1 DEF Tallied, Passing
    <3>5. CASE SkipWaiter
      <4>1. waiter_count' = Less(waiter_count)
        BY <3>5 DEF SkipWaiter, DecrementWaiters
      <4>2. waiter_count' = waiter_count - 1
        <5>1. waiter_count > 0
          BY <3>2, <3>3
        <5>. QED
          BY <3>3, <4>1, <5>1, CountsOn
      <4>3. pc'[Manager] # "decrement"
        <5>1. NextWaiter(waiters', hand[Manager]) # "decrement"
          BY DEF NextWaiter
        <5>. QED
          BY <1>0, <3>5, <5>1 DEF SkipWaiter, DecrementWaiters, TypeOK
      <4>. QED
        BY <3>2, <3>3, <4>2, <4>3 DEF Tallied, Passing
    <3>. QED
      BY <1>22, <3>4, <3>5
  <2>14. Cancelled'
    <3>1. CASE Send
      BY <1>0, <3>1 DEF Send, Cancelled, TypeOK
    <3>2. CASE SkipWaiter
      <4>1. pc'[Manager] = NextWaiter(waiters', hand[Manager]) /\ letter' = letter
        BY <1>0, <3>2 DEF SkipWaiter, DecrementWaiters, TypeOK
      <4>2. NextWaiter(waiters', hand[Manager]) = "skip" => letter[Head(waiters')] # "pending"
        BY DEF NextWaiter
      <4>. QED
        BY <4>1, <4>2 DEF Cancelled
    <3>. QED
      BY <1>22, <3>1, <3>2
  <2>. QED
    BY <2>10, <2>11, <2>12, <2>13, <2>14
\* The answered waiter comes off the count.
<1>23. CASE CountServed
  <2>. SUFFICES ASSUME pc'[Manager] # "stopped"
                PROVE  Distinct' /\ Unanswered' /\ Known' /\ Tallied' /\ Cancelled'
    BY DEF Enrolled
  <2>1. /\ UNCHANGED <<register_inject, ticket, timers, letter, waiters>>
        /\ waiter_count' = Less(waiter_count)
        /\ Goto(Manager, NextWaiter(waiters, hand[Manager])) /\ pc[Manager] = "decrement"
    BY <1>23 DEF CountServed, DecrementWaiters
  <2>2. Distinct /\ Unanswered /\ Known /\ Tallied /\ Cancelled
    BY <2>1 DEF Enrolled
  <2>3. /\ pc'[Manager] = NextWaiter(waiters, hand[Manager])
        /\ \A u \in Thread \ {Manager} : pc'[u] = pc[u]
    BY <1>0, <2>1 DEF TypeOK
  <2>4. /\ NextWaiter(waiters, hand[Manager]) # "decrement"
        /\ NextWaiter(waiters, hand[Manager]) = "skip" => letter[Head(waiters)] # "pending"
    BY DEF NextWaiter
  <2>5. /\ Registrations' = Registrations /\ Registered' = Registered /\ Registering' = Registering
    BY <1>0, <2>1, <2>3 DEF Registrations, Registered, Registering
  <2>6. Queued' = Queued /\ Unread' = Unread
    BY <2>1, <2>5 DEF Queued, Unread
  <2>7. Distinct' /\ Unanswered'
    BY <2>1, <2>2, <2>5, <2>6 DEF Distinct, Unanswered
  <2>8. Known'
    <3>1. \A c \in Client : pc'[c] = pc[c]
      BY <1>0, <2>3
    <3>. QED
      BY <2>1, <2>2, <2>5, <3>1 DEF Known
  <2>9. Cancelled'
    BY <2>1, <2>3, <2>4 DEF Cancelled
  <2>10. Tallied'
    <3>1. Cardinality(Queued) \in Nat
      BY <1>0, <1>a, <2>2, QueuedCount, FS_CardinalityType
    <3>2. waiter_count = Cardinality(Queued) + 1 /\ waiter_count \in 0..UsizeMax
      BY <1>0, <2>1, <2>2 DEF Tallied, Passing, TypeOK
    <3>3. waiter_count' = waiter_count - 1
      BY <2>1, <3>1, <3>2, CountsOn
    <3>. QED
      BY <2>3, <2>4, <2>6, <3>1, <3>2, <3>3 DEF Tallied, Passing
  <2>. QED
    BY <2>7, <2>8, <2>9, <2>10
<1>24. CASE DrainRetain
  <2>1. CASE Present # {}
    <3>1. /\ UNCHANGED <<waiters, register_inject, waiter_count, ticket, letter, timers>>
          /\ Goto(Manager, "park") /\ pc[Manager] = "drain"
      BY <1>24, <2>1 DEF DrainRetain
    <3>2. pc'[Manager] = "park" /\ \A u \in Thread \ {Manager} : pc'[u] = pc[u]
      BY <1>0, <3>1 DEF TypeOK
    <3>. QED
      BY <1>0, <1>1, <3>1, <3>2 DEF Awaiting
  <2>2. CASE Present = {}
    <3>1. pc'[Manager] = "stopped"
      BY <1>0, <1>24, <2>2 DEF DrainRetain, TypeOK
    <3>. QED
      BY <3>1 DEF Enrolled
  <2>. QED
    BY <2>1, <2>2
<1>25. CASE UNCHANGED vars
  BY <1>2, <1>25 DEF vars
<1>. QED
  BY <1>0, <1>3, <1>4, <1>5, <1>6, <1>7, <1>8, <1>9, <1>10, <1>11, <1>12, <1>13, <1>14, <1>15,
     <1>16, <1>17, <1>18, <1>19, <1>20, <1>21, <1>22, <1>23, <1>24, <1>25
  DEF Next, ClientStep, ClientChoice, WorkerStep, DrainerStep, ManagerStep, Releasing

\* Every waiter is listed once until it is answered, and waiter_count, by which is_busy()
\* (mod.rs:112-114) and max_waiters (mod.rs:197-217) go, is how many are listed, registered
\* or about to be, and the one that the manager has sent to and not taken off the count
\* (pool.rs:237-258): none is listed twice, lost, or counted for good, whichever of its
\* timer, its client and the manager is done with it first.
THEOREM Queueing == Spec => []WaitersListed
<1>1. Init => Sound /\ Enrolled
  BY SoundInit, EnrolledInit
<1>2. Sound /\ Enrolled /\ [Next]_vars => (Sound /\ Enrolled)'
  BY SoundStep, EnrolledStep
<1>3. Sound /\ Enrolled => WaitersListed
  <2>. SUFFICES ASSUME Sound, Enrolled, pc[Manager] # "stopped" PROVE WaitersListed
    BY DEF WaitersListed
  <2>1. /\ TypeOK /\ Distinct /\ Known /\ Tallied
        /\ \A c \in Client : pc[c] \in {"register"} \cup Awaiting => ticket[c] \in Ticket
    BY DEF Sound, Placed, PlacedAt, Thread, Enrolled, Awaiting
  <2>2. ASSUME NEW c \in Client, pc[c] \in Awaiting, letter[ticket[c]] = "pending"
        PROVE  Times(ticket[c], waiters) + Times(Entered("waiter", ticket[c]), register_inject) = 1
    <3>. DEFINE k == ticket[c]
                e == Entered("waiter", k)
    <3>1. Times(k, waiters) = IF k \in Range(waiters) THEN 1 ELSE 0
      BY <2>1, TimesOnce DEF Distinct
    <3>2. e \in Range(register_inject) <=> k \in Registered
      <4>1. \A i \in DOMAIN register_inject :
               register_inject[i] = e <=> i \in Registrations /\ register_inject[i].of = k
        <5>1. \A i \in DOMAIN register_inject : register_inject[i].kind = "waiter"
                 => register_inject[i] = Entered("waiter", register_inject[i].of)
          BY <2>1, EntryOf DEF TypeOK
        <5>. QED
          BY <5>1 DEF Registrations, Entered
      <4>. QED
        BY <4>1 DEF Range, Registered, Registrations
    <3>3. Times(e, register_inject) = IF e \in Range(register_inject) THEN 1 ELSE 0
      <4>1. \A i, j \in DOMAIN register_inject :
               register_inject[i] = e /\ register_inject[j] = e => i = j
        BY <2>1 DEF Distinct, Registrations, Entered
      <4>. QED
        BY <4>1, TimesOnce
    <3>4. k \in Range(waiters) \cup Registered /\ ~(k \in Range(waiters) /\ k \in Registered)
      BY <2>1, <2>2 DEF Known, Distinct
    <3>. QED
      BY <3>1, <3>2, <3>3, <3>4
  <2>3. waiter_count = Len(waiters) + Cardinality(Registrations) + Cardinality(Registering) + Passing
    BY <2>1, QueuedCount DEF Tallied, Registering
  <2>. QED
    BY <2>2, <2>3 DEF WaitersListed, Registrations, Registering, Passing, Awaiting
<1>. QED
  BY <1>1, <1>2, <1>3, PTL DEF Spec
=============================================================================
