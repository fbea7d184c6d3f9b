------------------------------ MODULE PoolProofs -----------------------------
(***************************************************************************)
(* What holds of Pool for any clients, workers, drainers, locks, waiters   *)
(* and configurations.                                                     *)
(***************************************************************************)
EXTENDS Pool, TLAPS, SequenceTheorems, FiniteSetTheorems

(* The queues, as sequences of anything. *)

\* What an Append adds to the entries of a queue.
LEMMA RangeAppend ==
  ASSUME NEW S, NEW seq \in Seq(S), NEW e \in S
  PROVE  /\ Append(seq, e) \in Seq(S)
         /\ Range(Append(seq, e)) = Range(seq) \cup {e}
<1>1. Append(seq, e) = seq \o <<e>> /\ <<e>> \in Seq(S)
  BY AppendIsConcat
<1>2. Range(<<e>>) = {e}
  BY DEF Range
<1>3. Range(seq \o <<e>>) = Range(seq) \cup Range(<<e>>)
  BY <1>1, RangeConcatenation
<1>4. Append(seq, e) \in Seq(S)
  BY AppendProperties
<1>. QED
  BY <1>1, <1>2, <1>3, <1>4

\* What a pop takes from them.
LEMMA RangePop ==
  ASSUME NEW S, NEW seq \in Seq(S), seq # <<>>
  PROVE  /\ Head(seq) \in S /\ Tail(seq) \in Seq(S)
         /\ Range(seq) = {Head(seq)} \cup Range(Tail(seq))
<1>1. /\ Head(seq) \in S /\ Tail(seq) \in Seq(S) /\ Len(Tail(seq)) = Len(seq) - 1
      /\ \A i \in 1..Len(Tail(seq)) : Tail(seq)[i] = seq[i + 1]
  BY HeadTailProperties
<1>2. Len(seq) \in Nat \ {0} /\ Head(seq) = seq[1]
  BY EmptySeq
<1>3. DOMAIN seq = 1..Len(seq) /\ DOMAIN Tail(seq) = 1..Len(Tail(seq))
  BY <1>1, LenProperties
<1>4. \A i \in 2..Len(seq) : i - 1 \in 1..Len(Tail(seq)) /\ seq[i] = Tail(seq)[i - 1]
  BY <1>1, <1>2
<1>5. Range(seq) \subseteq {Head(seq)} \cup Range(Tail(seq))
  <2>1. SUFFICES ASSUME NEW i \in 1..Len(seq)
                 PROVE  seq[i] \in {Head(seq)} \cup Range(Tail(seq))
    BY <1>3 DEF Range
  <2>2. CASE i = 1
    BY <2>2, <1>2
  <2>3. CASE i # 1
    <3>1. i - 1 \in DOMAIN Tail(seq) /\ seq[i] = Tail(seq)[i - 1]
      BY <1>2, <1>3, <1>4, <2>3
    <3>. QED
      BY <3>1 DEF Range
  <2>. QED
    BY <2>2, <2>3
<1>6. {Head(seq)} \cup Range(Tail(seq)) \subseteq Range(seq)
  BY <1>1, <1>2, <1>3 DEF Range
<1>. QED
  BY <1>1, <1>5, <1>6

\* A timer that has fired is gone, and the others are as they were.
LEMMA RangeRemoveAt ==
  ASSUME NEW S, NEW seq \in Seq(S), NEW i \in DOMAIN seq
  PROVE  RemoveAt(seq, i) \in Seq(S) /\ Range(RemoveAt(seq, i)) \subseteq Range(seq)
<1>. DEFINE a == SubSeq(seq, 1, i - 1)
            b == SubSeq(seq, i + 1, Len(seq))
            R == Range(seq)
<1>1. DOMAIN seq = 1..Len(seq) /\ Len(seq) \in Nat /\ seq \in Seq(R) /\ R \subseteq S
  BY LenProperties, SeqOfRange, RangeOfSeq
<1>2. a \in Seq(R)
  BY <1>1, SubSeqProperties DEF Range
<1>3. b \in Seq(R)
  BY <1>1, SubSeqProperties DEF Range
<1>4. RemoveAt(seq, i) \in Seq(R)
  BY <1>2, <1>3, ConcatProperties DEF RemoveAt
<1>. QED
  BY <1>1, <1>4, SeqMonotonic, RangeOfSeq

\* Every number up to the size of a set of indices is the rank of one of them.
LEMMA Ranked ==
  ASSUME NEW N \in Nat, NEW I \in SUBSET (1..N), NEW n \in 1..Cardinality(I)
  PROVE  \E i \in I : Rank(I, i) = n
<1>. DEFINE J(i) == {j \in I : j <= i}
            f == [i \in I |-> Rank(I, i)]
            C == 1..Cardinality(I)
<1>0. IsFiniteSet(1..N)
  BY FS_Interval
<1>1. IsFiniteSet(I) /\ Cardinality(I) \in Nat
  BY <1>0, FS_Subset, FS_CardinalityType
<1>2. ASSUME NEW i \in I PROVE IsFiniteSet(J(i)) /\ Rank(I, i) \in C
  <2>1. J(i) \in SUBSET I /\ i \in J(i)
    OBVIOUS
  <2>2. IsFiniteSet(J(i)) /\ Cardinality(J(i)) <= Cardinality(I)
    BY <1>1, <2>1, FS_Subset
  <2>3. Cardinality(J(i)) \in Nat /\ Cardinality(J(i)) # 0
    BY <2>1, <2>2, FS_CardinalityType, FS_EmptySet
  <2>. QED
    BY <1>1, <2>2, <2>3 DEF Rank
<1>3. ASSUME NEW i \in I, NEW j \in I, i < j PROVE Rank(I, i) # Rank(I, j)
  <2>1. J(i) \in SUBSET J(j) /\ j \in J(j) /\ j \notin J(i)
    <3>1. I \subseteq Int
      OBVIOUS
    <3>2. (\A k \in I : k <= i => k <= j) /\ j <= j /\ ~(j <= i)
      BY <1>3, <3>1
    <3>. QED
      BY <3>2
  <2>2. IsFiniteSet(J(j)) /\ J(i) # J(j)
    BY <1>2, <2>1
  <2>3. Cardinality(J(i)) # Cardinality(J(j))
    BY <2>1, <2>2, FS_Subset
  <2>. QED
    BY <2>3 DEF Rank
<1>4. f \in Injection(I, C)
  <2>1. f \in [I -> C]
    BY <1>2
  <2>2. ASSUME NEW i \in I, NEW j \in I, f[i] = f[j] PROVE i = j
    BY <1>3, <2>2
  <2>. QED
    BY <2>1, <2>2 DEF Injection, IsInjective
<1>5. IsFiniteSet(C) /\ Cardinality(C) = Cardinality(I)
  BY <1>1, FS_Interval
<1>6. f \in Surjection(I, C)
  BY <1>4, <1>5, FS_Injection
<1>. QED
  BY <1>6 DEF Surjection

\* What the manager picks from a queue is what is there at those indices.
LEMMA RangePick ==
  ASSUME NEW S, NEW seq \in Seq(S), NEW I \in SUBSET DOMAIN seq
  PROVE  /\ Pick(seq, I) \in Seq(S)
         /\ DOMAIN Pick(seq, I) = 1..Cardinality(I)
         /\ Range(Pick(seq, I)) \subseteq {seq[i] : i \in I}
<1>. DEFINE at(n) == CHOOSE i \in I : Rank(I, i) = n
            C == 1..Cardinality(I)
<1>0. DOMAIN seq = 1..Len(seq) /\ Len(seq) \in Nat
  BY LenProperties
<1>1. IsFiniteSet(1..Len(seq)) /\ I \in SUBSET (1..Len(seq))
  BY <1>0, FS_Interval
<1>6. Cardinality(I) \in Nat
  BY <1>1, FS_Subset, FS_CardinalityType
<1>2. \A n \in C : at(n) \in I
  BY <1>0, <1>1, Ranked
<1>3. \A n \in C : seq[at(n)] \in S
  BY <1>0, <1>2, ElementOfSeq
<1>4. Pick(seq, I) = [n \in C |-> seq[at(n)]]
  BY DEF Pick
<1>. HIDE DEF at
<1>5. [n \in C |-> seq[at(n)]] \in Seq(S)
  BY <1>3, <1>6, IsASeq
<1>. QED
  BY <1>2, <1>4, <1>5 DEF Range

(* The inductive invariants. *)

\* Where a thread has the guard of a lock, is about to take it, or to list the lock.
Handling == Guarded \cup {"return", "lock"}

\* Where a thread is inside Shared::release or dispose, or drops a guard, and what it
\* comes back to.
Leaving == {"release", "recheck", "return", "tell", "dispose", "dispose_count", "unlock"}
Resumed(t) ==
    CASE t \in Client -> {"idle", "init", "pop"}
      [] t \in Worker -> {"idle"}
      [] OTHER        -> {"timers", "state", "drain", "pop"}

\* What a thread has in its hand, and goes back to, is told by where it is.
PlacedAt(t) ==
    /\ pc[t] \in Handling => hand[t] \in Lock
    /\ \/ pc[t] \in Handling
       \/ hand[t] = NoLock
       \/ t = Manager /\ pc[t] \in {"skip", "decrement"}
    /\ pc[t] \in Leaving => back[t] \in Resumed(t)
    /\ t \in Client /\ pc[t] \in {"register", "notify", "notify again", "waiting"}
         => ticket[t] \in Ticket

\* Where the manager is about to serve the first of the waiters.
Serving ==
    \/ pc[Manager] \in {"pop", "lock", "send"}
    \/ pc[Manager] \in Leaving /\ back[Manager] = "pop"

\* There is a waiter where the manager takes one, who waits where it is served.
Ready ==
    /\ pc[Manager] = "skip" => waiters # <<>>
    /\ Serving => waiters # <<>> /\ letter[Head(waiters)] = "pending"

Placed == (\A t \in Thread : PlacedAt(t)) /\ Ready

\* A lock that reads HELD has a guard, which is with one thread or in one letter, and
\* any other lock has none.
Has(t, l) == hand[t] = l /\ GuardOf(t)
OneGuard(l) ==
    IF lock[l].state = "HELD" THEN \E h \in Thread \cup Ticket : Guards(l) = {h} ELSE Guards(l) = {}
Exclusive == \A l \in Lock : OneGuard(l)

\* Where a client has the receiver of a waiter; a letter with a resource has one.
Ticketed == {"register", "notify", "notify again", "waiting"}
Posted ==
    /\ \A c \in Client : pc[c] \notin Ticketed => ticket[c] = NoTicket
    /\ \A k \in Ticket : letter[k] \in Lock => \E c \in Client : ticket[c] = k

\* A lock that nobody holds says whether it has a resource, which is then in the idle
\* queue or on the way to it or from it; and what is looked at twice before it is kept
\* is still there.
Near(l) ==
    \/ l \in Range(idle_queue)
    \/ \E t \in Thread : hand[t] = l /\ pc[t] \in {"return", "lock"}
Stowed ==
    /\ \A l \in Lock :
          /\ lock[l].state # "HELD" => (lock[l].full <=> lock[l].state = "SOME")
          /\ lock[l].state = "SOME" => Near(l)
    /\ \A t \in Thread : pc[t] = "recheck" => lock[hand[t]].full

\* A guard has a resource where its place calls for one, and none where it calls for
\* that, and so has a letter with a lock.
HandedAt(t) ==
    /\ pc[t] \in {"peek", "verifying", "managed", "send"} => lock[hand[t]].full
    /\ t = Manager /\ pc[t] \in {"skip", "decrement"} /\ hand[t] # NoLock
         => lock[hand[t]].full
    /\ pc[t] \in {"creating", "dispose_count", "unlock"} => ~lock[hand[t]].full
Handed ==
    /\ \A t \in Thread : HandedAt(t)
    /\ \A k \in Ticket : letter[k] \in Lock => lock[letter[k]].full

-----------------------------------------------------------------------------
(* Types *)

\* Counters wrap, so they stay in a usize (operation.rs:27-43).
LEMMA UsizeType ==
  ASSUME NEW n \in 0..UsizeMax
  PROVE  Less(n) \in 0..UsizeMax /\ More(n) \in 0..UsizeMax
<1>. DEFINE M == UsizeMax + 1
<1>1. M \in Nat \ {0} /\ M - 1 = UsizeMax /\ n - 1 \in Int /\ n + 1 \in Int
  BY PoolAssumption
<1>. HIDE DEF M
<1>2. \A a \in Int : a % M \in 0..(M - 1)
  BY <1>1
<1>3. (n - 1) % M \in 0..UsizeMax /\ (n + 1) % M \in 0..UsizeMax
  BY <1>1, <1>2
<1>. QED
  BY <1>3 DEF Less, More, M

PcType ==
    /\ pc \in [Thread \cup Drainer -> Somewhere]
    /\ \A t \in Thread \cup Drainer : pc[t] \in Place(t)

\* A thread that goes on at one of its places is at one of its places.
LEMMA GotoType ==
  ASSUME PcType, NEW t \in Thread \cup Drainer, NEW next \in Place(t) \cap Somewhere,
         Goto(t, next)
  PROVE  PcType'
  BY DEF PcType, Goto


\* What the places of threads have in common.
LEMMA Places ==
    /\ \A t \in Thread : Guarded \cup Returning \subseteq Place(t) \cap Somewhere
    /\ \A c \in Client : ClientPlace \subseteq Place(c) \cap Somewhere /\ c \in Thread
    /\ \A w \in Worker : "idle" \in Place(w) \cap Somewhere /\ w \in Thread
    /\ ManagerPlace \subseteq Place(Manager) \cap Somewhere /\ Manager \in Thread
    /\ \A d \in Drainer : Place(d) = DrainerPlace /\ DrainerPlace \subseteq Somewhere
    /\ \A t \in Thread : Resumed(t) \subseteq Place(t) \cap Somewhere
    /\ \A t \in Thread : Resumed(t) \subseteq ClientPlace \cup ManagerPlace
  BY NamesAssumption
  DEF Place, Somewhere, Thread, Resumed, ClientPlace, ManagerPlace, DrainerPlace

\* Outdating the entries for a lock changes nothing else about a queue.
LEMMA OutdatedEntries ==
  ASSUME NEW seq \in Seq(Entry), NEW l
  PROVE  /\ Outdated(seq, l) \in Seq(Entry)
         /\ DOMAIN Outdated(seq, l) = DOMAIN seq
         /\ \A i \in DOMAIN seq : /\ Outdated(seq, l)[i].kind = seq[i].kind
                                  /\ Outdated(seq, l)[i].of = seq[i].of
                                  /\ seq[i].kind # "verify" => Outdated(seq, l)[i] = seq[i]
<1>. DEFINE f(i) == IF seq[i].kind = "verify" /\ seq[i].of = l
                      THEN [seq[i] EXCEPT !.current = FALSE] ELSE seq[i]
<1>1. DOMAIN seq = 1..Len(seq) /\ Len(seq) \in Nat
  BY LenProperties
<1>2. ASSUME NEW i \in 1..Len(seq)
      PROVE  /\ f(i) \in Entry /\ f(i).kind = seq[i].kind /\ f(i).of = seq[i].of
             /\ seq[i].kind # "verify" => f(i) = seq[i]
  <2>1. seq[i] \in Entry
    BY ElementOfSeq
  <2>2. CASE seq[i].kind = "verify"
    BY <2>1, <2>2 DEF Entry
  <2>3. CASE seq[i].kind # "verify"
    BY <2>1, <2>3
  <2>. QED
    BY <2>2, <2>3
<1>3. Outdated(seq, l) = [i \in 1..Len(seq) |-> f(i)]
  BY <1>1 DEF Outdated
<1>. HIDE DEF f
<1>4. [i \in 1..Len(seq) |-> f(i)] \in Seq(Entry)
  BY <1>1, <1>2, IsASeq
<1>. QED
  BY <1>1, <1>2, <1>3, <1>4

\* What an entry is about is told by its kind.
LEMMA EntryOf ==
  ASSUME NEW seq \in Seq(Entry), NEW i \in DOMAIN seq
  PROVE  /\ seq[i] \in Entry /\ seq[i] \in Range(seq)
         /\ seq[i].kind \in {"created", "verify"} => seq[i].of \in Lock
         /\ seq[i].kind = "waiter" => seq[i].of \in Ticket
         /\ seq[i].kind = "drain" => seq[i].of \in Drainer
         /\ seq[i].of \in Lock \cup Ticket \cup Drainer
         /\ seq[i].kind \in {"created", "waiter", "drain"} =>
               seq[i] = Entered(seq[i].kind, seq[i].of)
<1>1. seq[i] \in Entry /\ seq[i] \in Range(seq)
  BY LenProperties, ElementOfSeq DEF Range
<1>. DEFINE e == seq[i]
<1>2. \/ e \in [kind : {"verify"}, of : Lock, current : BOOLEAN]
      \/ e \in [kind : {"created"}, of : Lock, current : {TRUE}]
      \/ e \in [kind : {"waiter"}, of : Ticket, current : {TRUE}]
      \/ e \in [kind : {"drain"}, of : Drainer, current : {TRUE}]
  BY <1>1 DEF Entry
<1>. HIDE DEF e
<1>3. /\ e.kind \in {"created", "verify"} => e.of \in Lock
      /\ e.kind = "waiter" => e.of \in Ticket
      /\ e.kind = "drain" => e.of \in Drainer
      /\ e.of \in Lock \cup Ticket \cup Drainer
      /\ e.kind \in {"created", "waiter", "drain"} => e = Entered(e.kind, e.of)
  BY <1>2 DEF Entered
<1>. QED
  BY <1>1, <1>3 DEF e

\* What the entries of a queue are about.
LEMMA NamedType ==
  ASSUME NEW seq \in Seq(Entry)
  PROVE  Named(seq) \subseteq Lock \cup Ticket \cup Drainer
<1>1. \A e \in Range(seq) : \E i \in DOMAIN seq : e = seq[i]
  BY DEF Range
<1>. QED
  BY <1>1, EntryOf DEF Named

\* What the manager finds among its registrations are waiters.
LEMMA PickedTickets ==
  ASSUME NEW seq \in Seq(Entry)
  PROVE  LET joined == Pick(seq, WaiterAt(seq))
         IN  [i \in DOMAIN joined |-> joined[i].of] \in Seq(Ticket)
<1>. DEFINE joined == Pick(seq, WaiterAt(seq))
<1>1. WaiterAt(seq) \subseteq DOMAIN seq /\ DOMAIN seq = 1..Len(seq)
  BY LenProperties DEF WaiterAt
<1>2. joined \in Seq(Entry) /\ Range(joined) \subseteq {seq[i] : i \in WaiterAt(seq)}
  BY <1>1, RangePick
<1>3. \A i \in WaiterAt(seq) : seq[i].of \in Ticket
  BY <1>1, EntryOf DEF WaiterAt
<1>4. \A i \in DOMAIN joined : joined[i] \in Range(joined)
  BY DEF Range
<1>. HIDE DEF joined
<1>5. ASSUME NEW i \in DOMAIN joined PROVE joined[i].of \in Ticket
  BY <1>2, <1>3, <1>4
<1>6. DOMAIN joined = 1..Len(joined) /\ Len(joined) \in Nat
  BY <1>2, LenProperties
<1>7. [i \in 1..Len(joined) |-> joined[i].of] \in Seq(Ticket)
  BY <1>5, <1>6, IsASeq
<1>. QED
  BY <1>6, <1>7 DEF joined

\* A Verify timer leaves a locked resource alone, or moves it to a new lock, with a
\* worker to verify it or the manager to dispose of it or release it (pool.rs:140-183).
Moved(old, new) ==
    /\ lock[old].state # "HELD"
    /\ lock' = [lock EXCEPT ![new] = [lock[old] EXCEPT !.state = "HELD"], ![old] = Empty]
    /\ \/ /\ lock[old].full /\ repo' = repo \ {old} /\ config.on_verify # {}
          /\ \E w \in Worker :
                pc[w] = "idle" /\ Goto(w, "verifying") /\ Hold(w, new) /\ UNCHANGED back
       \/ /\ lock[old].full /\ repo' = repo \ {old}
          /\ Hold(Manager, new) /\ Call(Manager, "dispose", "timers")
       \/ /\ repo' = (repo \ {old}) \cup {new}
          /\ Hold(Manager, new) /\ Call(Manager, "release", "timers")

\* A Verify timer takes itself off the list, and at most moves a resource to a new lock.
LEMMA Fired ==
  ASSUME TypeOK, VerifyTimer
  PROVE  /\ pc[Manager] = "timers"
         /\ timers' \in Seq(Entry) /\ Range(timers') \subseteq Range(timers)
         /\ UNCHANGED <<counters, queues, state, letter, notified, client, waiters,
                        next_check, todo, disposed, handle, config>>
         /\ \/ UNCHANGED <<lock, repo, pc, back, hand>>
            \/ \E old \in Lock \cap Named(timers), new \in FreshLock :
                  old # new /\ Moved(old, new)
<1>1. PICK i \in DOMAIN timers :
        timers[i].kind = "verify" /\ timers' = RemoveAt(timers, i) /\ FireVerify(i)
  BY DEF VerifyTimer
<1>. DEFINE old == timers[i].of
<1>2. timers' \in Seq(Entry) /\ Range(timers') \subseteq Range(timers)
  BY <1>1, RangeRemoveAt DEF TypeOK
<1>3. old \in Lock /\ old \in Named(timers) /\ old \notin FreshLock
  BY <1>1, EntryOf DEF TypeOK, Named, FreshLock
<1>4. CASE lock[old].state = "HELD"
  BY <1>1, <1>2, <1>4 DEF FireVerify, VerifyTimer
<1>5. CASE lock[old].state # "HELD"
  <2>1. \E new \in FreshLock : Moved(old, new)
    BY <1>1, <1>5 DEF FireVerify, Moved
  <2>. QED
    BY <1>2, <1>3, <2>1 DEF VerifyTimer
<1>. QED
  BY <1>4, <1>5

\* Writing one field of a lock.
LEMMA LockWritten ==
  ASSUME NEW r \in ResourceLock
  PROVE  /\ \A s \in {"NONE", "SOME", "HELD"} : [r EXCEPT !.state = s] \in ResourceLock
         /\ \A b \in BOOLEAN : /\ [r EXCEPT !.full = b] \in ResourceLock
                              /\ [r EXCEPT !.reusable = b] \in ResourceLock
                              /\ [r EXCEPT !.expired = b] \in ResourceLock
         /\ Empty \in ResourceLock
  BY DEF ResourceLock, Empty

\* A step that writes one field of one of the locks leaves them locks.
LEMMA LocksWritten ==
  ASSUME lock \in [Lock -> ResourceLock], NEW l \in Lock,
         NEW s \in {"NONE", "SOME", "HELD"}, NEW b \in BOOLEAN,
         \/ lock' = [lock EXCEPT ![l].state = s]
         \/ lock' = [lock EXCEPT ![l].full = b]
         \/ lock' = [lock EXCEPT ![l].reusable = b]
         \/ lock' = [lock EXCEPT ![l].expired = b]
  PROVE  lock' \in [Lock -> ResourceLock]
<1>1. \E r \in ResourceLock : lock' = [lock EXCEPT ![l] = r]
  <2>1. /\ [lock[l] EXCEPT !.state = s] \in ResourceLock
        /\ [lock[l] EXCEPT !.full = b] \in ResourceLock
        /\ [lock[l] EXCEPT !.reusable = b] \in ResourceLock
        /\ [lock[l] EXCEPT !.expired = b] \in ResourceLock
    BY LockWritten
  <2>2. \/ lock' = [lock EXCEPT ![l] = [lock[l] EXCEPT !.state = s]]
        \/ lock' = [lock EXCEPT ![l] = [lock[l] EXCEPT !.full = b]]
        \/ lock' = [lock EXCEPT ![l] = [lock[l] EXCEPT !.reusable = b]]
        \/ lock' = [lock EXCEPT ![l] = [lock[l] EXCEPT !.expired = b]]
    OBVIOUS
  <2>. QED
    BY <2>1, <2>2
<1>. QED
  BY <1>1

\* What every action of the release of a resource keeps.
LEMMA ReleaseType ==
  ASSUME TypeOK, Placed, NEW t \in Thread, Releasing(t)
  PROVE  TypeOK'
<1>0. PcType /\ hand[t] \in Lock \cup {NoLock}
  BY DEF TypeOK, PcType
<1>. USE DEF counters, queues, client, manager
<1>1. ASSUME NEW l
      PROVE  /\ Outdated(event_queue, l) \in Seq(Entry)
             /\ Outdated(timers, l) \in Seq(Entry)
  BY OutdatedEntries DEF TypeOK
<1>2. ASSUME NEW next \in Guarded, KeepOr(t, next), hand[t] \in Lock, config' = config
      PROVE  /\ PcType'
             /\ lock' \in [Lock -> ResourceLock]
             /\ event_queue' \in Seq(Entry) /\ timers' \in Seq(Entry)
  <2>1. {next, "return"} \subseteq Place(t) \cap Somewhere
    BY Places DEF Guarded, Returning
  <2>2. \E n \in {next, "return"} : Goto(t, n)
    BY <1>2 DEF KeepOr
  <2>3. PcType'
    BY <1>0, <2>1, <2>2, GotoType
  <2>4. event_queue' \in Seq(Entry) /\ timers' \in Seq(Entry)
    BY <1>1, <1>2 DEF KeepOr, TypeOK
  <2>5. lock' \in [Lock -> ResourceLock]
    <3>1. \/ lock' = lock
          \/ lock' = [lock EXCEPT ![hand[t]] = [lock[hand[t]] EXCEPT !.state = "SOME"]]
      BY <1>2 DEF KeepOr
    <3>2. [lock[hand[t]] EXCEPT !.state = "SOME"] \in ResourceLock
      BY <1>2, LockWritten DEF TypeOK
    <3>. QED
      BY <1>2, <3>1, <3>2 DEF TypeOK
  <2>. QED
    BY <2>3, <2>4, <2>5
<1>3. CASE Release(t)
  <2>1. hand[t] \in Lock
    BY <1>3 DEF Release, Placed, PlacedAt, Handling, Guarded
  <2>2. PcType'
    BY <1>0, <1>2, <1>3, <2>1, Places, GotoType DEF Release, Guarded
  <2>3. /\ event_queue' \in Seq(Entry) /\ timers' \in Seq(Entry)
        /\ lock' \in [Lock -> ResourceLock]
    BY <1>2, <1>3, <2>1 DEF Release, TypeOK, Guarded
  <2>. QED
    BY <1>3, <2>2, <2>3 DEF TypeOK, Release, PcType
<1>4. CASE ReleaseRecheck(t)
  <2>1. hand[t] \in Lock
    BY <1>4 DEF ReleaseRecheck, Placed, PlacedAt, Handling, Guarded
  <2>2. PcType'
    BY <1>0, <1>2, <1>4, <2>1, Places, GotoType DEF ReleaseRecheck, Guarded
  <2>3. /\ event_queue' \in Seq(Entry) /\ timers' \in Seq(Entry)
        /\ lock' \in [Lock -> ResourceLock]
    BY <1>2, <1>4, <2>1 DEF ReleaseRecheck, TypeOK, Guarded
  <2>. QED
    BY <1>4, <2>2, <2>3 DEF TypeOK, ReleaseRecheck, PcType
<1>5. CASE ReleaseReturn(t)
  <2>1. PcType' /\ hand[t] \in Lock
    BY <1>0, <1>5, Places, GotoType DEF ReleaseReturn, Returning, Placed, PlacedAt, Handling
  <2>2. Entered("verify", hand[t]) \in Entry
    BY <2>1 DEF Entered, Entry
  <2>3. event_queue' \in Seq(Entry) /\ idle_queue' \in Seq(Lock)
    BY <1>5, <2>1, <2>2, AppendProperties DEF ReleaseReturn, TypeOK
  <2>. QED
    BY <1>5, <2>1, <2>3 DEF TypeOK, ReleaseReturn, PcType, LetGo, Hold
<1>6. CASE ReleaseTell(t)
  <2>1. back[t] \in Place(t) \cap Somewhere
    BY <1>6, Places DEF ReleaseTell, Placed, PlacedAt, Leaving
  <2>2. PcType' /\ "idle" \in ClientPlace
    BY <1>0, <1>6, <2>1, GotoType DEF ReleaseTell, Return, ClientPlace
  <2>. QED
    BY <1>6, <2>2 DEF TypeOK, ReleaseTell, Return, PcType
<1>7. CASE Dispose(t)
  <2>1. PcType' /\ hand[t] \in Lock
    BY <1>0, <1>7, Places, GotoType DEF Dispose, Guarded, Placed, PlacedAt, Handling
  <2>2. count' \in 0..UsizeMax
    BY <1>7, UsizeType DEF Dispose, TypeOK
  <2>. QED
    BY <1>7, <2>1, <2>2 DEF TypeOK, Dispose, PcType, ResourceLock
<1>8. CASE DisposeTell(t)
  <2>1. PcType'
    BY <1>0, <1>8, Places, GotoType DEF DisposeTell, Guarded
  <2>. QED
    BY <1>8, <2>1 DEF TypeOK, DisposeTell, PcType
<1>9. CASE UnlockNone(t)
  <2>1. back[t] \in Place(t) \cap Somewhere /\ hand[t] \in Lock
    BY <1>9, Places DEF UnlockNone, Placed, PlacedAt, Leaving, Handling, Guarded
  <2>2. PcType' /\ "idle" \in ClientPlace
    BY <1>0, <1>9, <2>1, GotoType DEF UnlockNone, Return, ClientPlace
  <2>. QED
    BY <1>9, <2>1, <2>2 DEF TypeOK, UnlockNone, Return, PcType, LetGo, Hold, Empty, ResourceLock
<1>. QED
  BY <1>3, <1>4, <1>5, <1>6, <1>7, <1>8, <1>9 DEF Releasing

\* Every step of every thread keeps the types.
LEMMA TypeStep == TypeOK /\ Placed /\ [Next]_vars => TypeOK'
<1>. SUFFICES ASSUME TypeOK, Placed, [Next]_vars PROVE TypeOK'
  OBVIOUS
<1>0. PcType /\ Client \subseteq Thread /\ Worker \subseteq Thread /\ Manager \in Thread
  BY DEF TypeOK, PcType, Thread
<1>. USE DEF counters, queues, client, manager
<1>1. ASSUME NEW t \in Thread, Releasing(t) PROVE TypeOK'
  BY <1>1, ReleaseType
<1>2. ASSUME NEW t \in Client \cup {Manager}, PopIdle(t) PROVE TypeOK'
  <2>1. PcType'
    BY <1>0, <1>2, GotoType, Places DEF PopIdle, ClientPlace, ManagerPlace
  <2>2. idle_queue # <<>> => Head(idle_queue) \in Lock /\ Tail(idle_queue) \in Seq(Lock)
    BY HeadTailProperties DEF TypeOK
  <2>3. idle_queue' \in Seq(Lock) /\ hand' \in [Thread -> Lock \cup {NoLock}]
    BY <1>0, <1>2, <2>2 DEF PopIdle, TypeOK, Hold
  <2>. QED
    BY <1>2, <2>1, <2>3 DEF TypeOK, PcType, PopIdle
<1>3. ASSUME NEW t \in Client \cup {Manager}, LockIdle(t) PROVE TypeOK'
  <2>1. PcType' /\ t \in Thread /\ hand[t] \in Lock /\ "pop" \in ClientPlace
    BY <1>0, <1>3, GotoType, Places
    DEF LockIdle, ClientPlace, ManagerPlace, Guarded, Call, Placed, PlacedAt, Handling
  <2>2. lock' \in [Lock -> ResourceLock]
    BY <1>3, <2>1, LocksWritten DEF LockIdle, TypeOK
  <2>. QED
    BY <1>3, <2>1, <2>2 DEF TypeOK, PcType, LockIdle, LetGo, Hold, Call
<1>4. ASSUME NEW c \in Client, AcquireAgain(c) \/ Acquire(c) PROVE TypeOK'
  <2>1. PcType'
    BY <1>0, <1>4, GotoType, Places DEF AcquireAgain, Acquire, CheckBusy, ClientPlace
  <2>2. acquired' \in 0..config.acquire_bound
    BY <1>4, PoolAssumption DEF AcquireAgain, Acquire, TypeOK, PoolConfig
  <2>. QED
    BY <1>4, <2>1, <2>2 DEF TypeOK, PcType, AcquireAgain, Acquire, CheckBusy
<1>5. ASSUME NEW c \in Client, NEW b, Resolved(c, b)
      PROVE  PcType' /\ back' \in [Thread -> ClientPlace \cup ManagerPlace]
  BY <1>0, <1>5, GotoType, Places DEF Resolved, Call, ClientPlace, Guarded, TypeOK
<1>6. ASSUME NEW c \in Client, Peek(c) PROVE TypeOK'
  <2>1. PcType' /\ back' \in [Thread -> ClientPlace \cup ManagerPlace]
    BY <1>0, <1>5, <1>6, GotoType, Places DEF Peek, Call, ClientPlace, Guarded, TypeOK
  <2>2. hand[c] \in Lock
    BY <1>0, <1>6 DEF Peek, Placed, PlacedAt, Handling, Guarded
  <2>3. lock' \in [Lock -> ResourceLock]
    <3>1. lock' = lock \/ lock' = [lock EXCEPT ![hand[c]].expired = TRUE]
      BY <1>6 DEF Peek
    <3>. QED
      BY <2>2, <3>1, LocksWritten DEF TypeOK
  <2>. QED
    BY <1>6, <2>1, <2>3 DEF TypeOK, PcType, Peek
<1>7. ASSUME NEW c \in Client, CreateFromCount(c) PROVE TypeOK'
  <2>1. PcType'
    BY <1>0, <1>7, GotoType, Places DEF CreateFromCount, ClientPlace
  <2>. QED
    BY <1>7, <2>1 DEF TypeOK, PcType, CreateFromCount
<1>8. ASSUME NEW c \in Client, UpdateCount(c) PROVE TypeOK'
  <2>1. PcType'
    BY <1>0, <1>8, GotoType, Places DEF UpdateCount, ClientPlace, PcType
  <2>2. count' \in 0..UsizeMax /\ 0 \in 0..UsizeMax
    <3>1. More(count) \in 0..UsizeMax
      BY UsizeType DEF TypeOK
    <3>. QED
      BY <1>8, <3>1, PoolAssumption DEF UpdateCount, TypeOK
  <2>. QED
    BY <1>8, <2>1, <2>2 DEF TypeOK, PcType, UpdateCount
<1>9. ASSUME NEW c \in Client, Create(c) PROVE TypeOK'
  <2>1. PcType'
    BY <1>0, <1>9, GotoType, Places DEF Create, Guarded
  <2>2. PICK l \in Lock :
          /\ lock' = [lock EXCEPT ![l] = [state |-> "HELD", full |-> FALSE,
                                          reusable |-> IdleTimeout, expired |-> FALSE]]
          /\ event_queue' = Append(event_queue, Entered("created", l))
          /\ Hold(c, l)
    BY <1>9 DEF Create, FreshLock
  <2>3. IdleTimeout \in BOOLEAN /\ Entered("created", l) \in Entry
    BY PoolAssumption DEF IdleTimeout, Entered, Entry, TypeOK, PoolConfig
  <2>4. lock' \in [Lock -> ResourceLock]
    BY <2>2, <2>3 DEF TypeOK, ResourceLock
  <2>5. event_queue' \in Seq(Entry)
    BY <2>2, <2>3, AppendProperties DEF TypeOK
  <2>. QED
    BY <1>9, <2>1, <2>2, <2>4, <2>5 DEF TypeOK, PcType, Create, Hold
<1>10. ASSUME NEW c \in Client, TryWait(c) PROVE TypeOK'
  <2>1. PcType'
    BY <1>0, <1>10, GotoType, Places DEF TryWait, ClientPlace
  <2>2. waiter_count' \in 0..UsizeMax
    BY <1>10, UsizeType DEF TryWait, TypeOK
  <2>3. ticket' \in [Client -> Ticket \cup {NoTicket}]
    BY <1>10 DEF TryWait, FreshTicket, TypeOK
  <2>4. letter' \in [Ticket -> {"pending", "taken"} \cup Lock]
    BY <1>10 DEF TryWait, FreshTicket, TypeOK
  <2>. QED
    BY <1>10, <2>1, <2>2, <2>3, <2>4 DEF TypeOK, PcType, TryWait
<1>11. ASSUME NEW c \in Client, RegisterWaiter(c) PROVE TypeOK'
  <2>1. PcType'
    BY <1>0, <1>11, GotoType, Places DEF RegisterWaiter, ClientPlace
  <2>2. Entered("waiter", ticket[c]) \in Entry
    BY <1>0, <1>11 DEF RegisterWaiter, Placed, PlacedAt, Entered, Entry
  <2>3. register_inject' \in Seq(Entry)
    BY <1>11, <2>2, AppendProperties DEF RegisterWaiter, TypeOK
  <2>. QED
    BY <1>11, <2>1, <2>3 DEF TypeOK, PcType, RegisterWaiter
<1>12. ASSUME NEW c \in Client, NotifyManager(c) PROVE TypeOK'
  <2>1. PcType'
    BY <1>0, <1>12, GotoType, Places DEF NotifyManager, ClientPlace
  <2>. QED
    BY <1>12, <2>1 DEF TypeOK, PcType, NotifyManager
<1>13. ASSUME NEW c \in Client, Answered(c) PROVE TypeOK'
  <2>1. ticket[c] \in Ticket
    BY <1>0, <1>13 DEF Answered, Placed, PlacedAt
  <2>2. PcType' /\ back' \in [Thread -> ClientPlace \cup ManagerPlace]
    BY <1>0, <1>5, <1>13, GotoType, Places DEF Answered, ClientPlace, TypeOK
  <2>3. hand' \in [Thread -> Lock \cup {NoLock}]
    BY <1>0, <1>13, <2>1 DEF Answered, Hold, TypeOK
  <2>. QED
    BY <1>13, <2>1, <2>2, <2>3 DEF TypeOK, PcType, Answered
<1>14. ASSUME NEW t \in Client \cup Worker, NEW b, Complete(t, b) \/ Fail(t)
       PROVE  PcType' /\ back' \in [Thread -> ClientPlace \cup ManagerPlace]
  BY <1>0, <1>5, <1>14, GotoType, Places DEF Complete, Fail, Call, ClientPlace, Guarded, TypeOK
<1>15. ASSUME NEW t \in Client \cup Worker, EndCreate(t) \/ EndVerify(t) PROVE TypeOK'
  <2>1. PcType' /\ back' \in [Thread -> ClientPlace \cup ManagerPlace]
    BY <1>14, <1>15 DEF EndCreate, EndVerify
  <2>2. t \in Thread /\ hand[t] \in Lock
    BY <1>0, <1>15 DEF EndCreate, EndVerify, Placed, PlacedAt, Handling, Guarded
  <2>3. lock' \in [Lock -> ResourceLock]
    <3>1. \/ lock' = lock
          \/ \E b \in BOOLEAN : \/ lock' = [lock EXCEPT ![hand[t]].full = b]
                                \/ lock' = [lock EXCEPT ![hand[t]].expired = b]
      BY <1>15 DEF EndCreate, EndVerify
    <3>. QED
      BY <2>2, <3>1, LocksWritten DEF TypeOK
  <2>. QED
    BY <1>15, <2>1, <2>3 DEF TypeOK, PcType, EndCreate, EndVerify
<1>16. ASSUME NEW c \in Client, Discard(c) PROVE TypeOK'
  <2>1. hand[c] \in Lock
    BY <1>0, <1>16 DEF Discard, Placed, PlacedAt, Handling, Guarded
  <2>2. lock' \in [Lock -> ResourceLock]
    BY <1>16, <2>1, LocksWritten DEF Discard, TypeOK
  <2>. QED
    BY <1>16, <2>2 DEF TypeOK, Discard
<1>17. ASSUME NEW c \in Client, DropManaged(c) PROVE TypeOK'
  <2>1. PcType' /\ back' \in [Thread -> ClientPlace \cup ManagerPlace]
    BY <1>0, <1>17, GotoType, Places DEF DropManaged, Call, ClientPlace, Guarded, TypeOK
  <2>. QED
    BY <1>17, <2>1 DEF TypeOK, PcType, DropManaged
<1>18. ASSUME NEW c \in Client, AbandonFuture(c) PROVE TypeOK'
  <2>1. PICK w \in Worker : /\ pc' = [pc EXCEPT ![w] = pc[c], ![c] = "idle"]
                           /\ hand' = [hand EXCEPT ![w] = hand[c], ![c] = NoLock]
    BY <1>18 DEF AbandonFuture
  <2>2. pc[c] \in Guarded
    BY <1>18 DEF AbandonFuture, Guarded
  <2>3. PcType'
    BY <1>0, <2>1, <2>2, Places DEF PcType, ClientPlace
  <2>4. hand' \in [Thread -> Lock \cup {NoLock}]
    BY <1>0, <2>1 DEF TypeOK
  <2>. QED
    BY <1>18, <2>3, <2>4 DEF TypeOK, PcType, AbandonFuture
<1>19. ASSUME NEW c \in Client, AbandonWaiter(c) PROVE TypeOK'
  <2>1. ticket[c] \in Ticket
    BY <1>0, <1>19 DEF AbandonWaiter, Placed, PlacedAt
  <2>2. PcType' /\ back' \in [Thread -> ClientPlace \cup ManagerPlace]
    BY <1>0, <1>19, GotoType, Places DEF AbandonWaiter, Call, ClientPlace, Guarded, TypeOK
  <2>. QED
    BY <1>19, <2>1, <2>2 DEF TypeOK, PcType, AbandonWaiter, Hold
<1>20. ASSUME NEW t \in Client \cup Drainer, Dropping(t) \/ DropHandle(t) PROVE TypeOK'
  BY <1>20 DEF TypeOK, Dropping, ShutDown, ShutDownNotify, Uncount, DropHandle
<1>21. ASSUME NEW d \in Drainer, Drain(d) PROVE TypeOK'
  <2>1. PcType'
    BY <1>0, <1>21, GotoType, Places DEF Drain, DrainerPlace
  <2>2. Entered("drain", d) \in Entry
    BY DEF Entered, Entry
  <2>3. register_inject' \in Seq(Entry)
    BY <1>21, <2>2, AppendProperties DEF Drain, TypeOK
  <2>. QED
    BY <1>21, <2>1, <2>3 DEF TypeOK, PcType, Drain
<1>22. ASSUME NEW d \in Drainer, DrainNotify(d) PROVE TypeOK'
  <2>1. PcType'
    BY <1>0, <1>22, GotoType, Places DEF DrainNotify, DrainerPlace
  <2>. QED
    BY <1>22, <2>1 DEF TypeOK, PcType, DrainNotify
<1>23. CASE VerifyTimer
  <2>1. timers' \in Seq(Entry)
    BY <1>23, Fired
  <2>2. CASE UNCHANGED <<lock, repo, pc, back, hand>>
    BY <1>23, <2>1, <2>2 DEF TypeOK, VerifyTimer
  <2>3. ASSUME NEW old \in Lock, NEW new \in Lock, Moved(old, new) PROVE TypeOK'
    <3>1. lock' \in [Lock -> ResourceLock]
      <4>1. [lock[old] EXCEPT !.state = "HELD"] \in ResourceLock /\ Empty \in ResourceLock
        BY LockWritten DEF TypeOK
      <4>. QED
        BY <2>3, <4>1 DEF Moved, TypeOK
    <3>2. PcType'
      BY <1>0, <2>3, GotoType, Places DEF Moved, Call, Guarded
    <3>3. /\ hand' \in [Thread -> Lock \cup {NoLock}]
          /\ back' \in [Thread -> ClientPlace \cup ManagerPlace]
          /\ repo' \subseteq Lock
      BY <1>0, <2>3 DEF Moved, TypeOK, Call, Hold, ManagerPlace
    <3>. QED
      BY <1>23, <2>1, <3>1, <3>2, <3>3 DEF TypeOK, PcType, VerifyTimer
  <2>. QED
    BY <1>23, <2>2, <2>3, Fired DEF FreshLock
<1>24. CASE WaiterTimer
  <2>1. PICK i \in DOMAIN timers :
          /\ timers[i].kind = "waiter" /\ timers' = RemoveAt(timers, i)
          /\ letter' = [letter EXCEPT ![timers[i].of] = IF @ = "pending" THEN "taken" ELSE @]
    BY <1>24 DEF WaiterTimer
  <2>2. timers' \in Seq(Entry)
    BY <2>1, RangeRemoveAt DEF TypeOK
  <2>3. letter' \in [Ticket -> {"pending", "taken"} \cup Lock]
    BY <2>1 DEF TypeOK
  <2>. QED
    BY <1>24, <2>2, <2>3 DEF TypeOK, WaiterTimer
<1>25. CASE DrainTimer
  <2>1. PICK i \in DOMAIN timers :
          /\ timers[i].kind = "drain" /\ timers' = RemoveAt(timers, i)
          /\ Goto(timers[i].of, WhenUndrained(timers[i].of))
          /\ state' = IF Draining(timers') \/ state # "DRAIN" THEN state ELSE "ACTIVE"
    BY <1>25 DEF DrainTimer
  <2>2. timers' \in Seq(Entry)
    BY <2>1, RangeRemoveAt DEF TypeOK
  <2>3. timers[i].of \in Drainer
    BY <2>1, EntryOf DEF TypeOK
  <2>4. PcType'
    BY <1>0, <2>1, <2>3, GotoType, Places DEF DrainerPlace, WhenUndrained, Telling
  <2>. QED
    BY <1>25, <2>1, <2>2, <2>4 DEF TypeOK, PcType, DrainTimer
<1>26. ASSUME NEW next \in ManagerPlace, Goto(Manager, next) PROVE PcType'
  BY <1>0, <1>26, GotoType, Places
<1>27. CASE Listen
  BY <1>26, <1>27 DEF TypeOK, PcType, Listen, ManagerPlace
<1>28. CASE TakeEvents
  <2>1. VerifyAt(event_queue) \subseteq DOMAIN event_queue
    BY DEF VerifyAt
  <2>2. timers' \in Seq(Entry)
    BY <1>28, <2>1, RangePick, ConcatProperties DEF TakeEvents, TypeOK
  <2>3. repo' \subseteq Lock
    <3>1. \A e \in Range(event_queue) : e.kind = "created" => e.of \in Lock
      BY EntryOf DEF TypeOK, Range
    <3>. QED
      BY <1>28, <3>1 DEF TakeEvents, TypeOK
  <2>4. PcType' /\ event_queue' \in Seq(Entry)
    BY <1>26, <1>28 DEF TakeEvents, ManagerPlace
  <2>. QED
    BY <1>28, <2>2, <2>3, <2>4 DEF TypeOK, PcType, TakeEvents
<1>29. CASE TakeRegisters
  <2>. DEFINE joined == Pick(register_inject, WaiterAt(register_inject))
              new == [i \in DOMAIN joined |-> joined[i].of]
  <2>1. /\ TimedAt(register_inject) \subseteq DOMAIN register_inject
        /\ WaiterAt(register_inject) \subseteq DOMAIN register_inject
    BY DEF TimedAt, WaiterAt
  <2>2. timers' \in Seq(Entry)
    BY <1>29, <2>1, RangePick, ConcatProperties DEF TakeRegisters, TypeOK
  <2>3. new \in Seq(Ticket)
    BY <2>1, PickedTickets DEF TypeOK
  <2>4. waiters' \in Seq(Ticket)
    BY <1>29, <2>3, ConcatProperties DEF TakeRegisters, TypeOK
  <2>5. PcType' /\ register_inject' \in Seq(Entry)
    BY <1>26, <1>29 DEF TakeRegisters, ManagerPlace
  <2>. QED
    BY <1>29, <2>2, <2>4, <2>5 DEF TypeOK, PcType, TakeRegisters
<1>30. ASSUME NEW list, NEW l, Goto(Manager, NextWaiter(list, l)) PROVE PcType'
  BY <1>0, <1>30, GotoType, Places DEF NextWaiter, ManagerPlace, Guarded
<1>31. CASE CheckWaiters
  <2>1. PcType'
    BY <1>26, <1>30, <1>31 DEF CheckWaiters, ManagerPlace
  <2>. QED
    BY <1>31, <2>1 DEF TypeOK, PcType, CheckWaiters
<1>32. ASSUME NEW list, DecrementWaiters(list)
       PROVE  /\ PcType' /\ waiter_count' \in 0..UsizeMax
              /\ back' \in [Thread -> ClientPlace \cup ManagerPlace]
  BY <1>30, <1>32, UsizeType DEF DecrementWaiters, Call, TypeOK, ManagerPlace
<1>33. CASE SkipWaiter
  <2>1. waiters' \in Seq(Ticket)
    BY <1>33, HeadTailProperties DEF SkipWaiter, Placed, Ready, TypeOK
  <2>2. DecrementWaiters(waiters')
    BY <1>33 DEF SkipWaiter
  <2>. QED
    BY <1>32, <2>1, <2>2 DEF TypeOK, PcType, DecrementWaiters
<1>34. CASE CountServed
  <2>1. DecrementWaiters(waiters) /\ waiters' = waiters
    BY <1>34 DEF CountServed
  <2>. QED
    BY <1>32, <2>1 DEF TypeOK, PcType, DecrementWaiters
<1>35. CASE Send
  <2>1. hand[Manager] \in Lock /\ waiters # <<>>
    BY <1>0, <1>35 DEF Send, Placed, PlacedAt, Ready, Serving, Handling, Guarded
  <2>2. waiters' \in Seq(Ticket) /\ Head(waiters) \in Ticket
    BY <1>35, <2>1, HeadTailProperties DEF Send, TypeOK
  <2>3. letter' \in [Ticket -> {"pending", "taken"} \cup Lock]
    BY <1>35, <2>1, <2>2 DEF Send, TypeOK
  <2>4. hand' \in [Thread -> Lock \cup {NoLock}]
    BY <1>0, <1>35 DEF Send, TypeOK, LetGo, Hold
  <2>5. PcType'
    BY <1>26, <1>35 DEF Send, ManagerPlace
  <2>. QED
    BY <1>35, <2>2, <2>3, <2>4, <2>5 DEF TypeOK, PcType, Send
<1>36. CASE CheckState
  <2>1. PcType'
    BY <1>26, <1>36 DEF CheckState, ManagerPlace
  <2>. QED
    BY <1>36, <2>1 DEF TypeOK, PcType, CheckState, Present
<1>37. CASE DrainLock
  <2>1. PICK l \in todo :
          /\ todo' = todo \ {l} /\ lock' = [lock EXCEPT ![l].state = "HELD"]
          /\ \/ UNCHANGED <<pc, back, hand>>
             \/ Hold(Manager, l) /\ Call(Manager, "dispose", "drain")
    BY <1>37 DEF DrainLock
  <2>2. PcType' /\ l \in Lock
    BY <1>0, <2>1, GotoType, Places DEF Call, Guarded, PcType, TypeOK
  <2>3. lock' \in [Lock -> ResourceLock]
    BY <2>1, <2>2, LocksWritten DEF TypeOK
  <2>. QED
    <3>1. /\ todo' \subseteq Lock
          /\ hand' \in [Thread -> Lock \cup {NoLock}]
          /\ back' \in [Thread -> ClientPlace \cup ManagerPlace]
      BY <1>0, <2>1, <2>2 DEF TypeOK, Hold, Call, ManagerPlace
    <3>. QED
      BY <1>37, <2>2, <2>3, <3>1 DEF TypeOK, PcType, DrainLock
<1>38. CASE DrainRetain
  <2>1. Named(timers) \subseteq Lock \cup Ticket \cup Drainer
    BY NamedType DEF TypeOK
  <2>2. PcType'
    <3>1. CASE Present # {}
      BY <1>26, <1>38, <3>1 DEF DrainRetain, ManagerPlace
    <3>2. CASE Present = {}
      <4>1. /\ DOMAIN pc = Thread \cup Drainer
            /\ pc' = [t \in DOMAIN pc |->
                        IF t = Manager THEN "stopped"
                        ELSE IF t \in Named(timers) THEN WhenDrained(t) ELSE pc[t]]
        BY <1>0, <1>38, <3>2 DEF DrainRetain, PcType
      <4>2. ASSUME NEW t \in Thread \cup Drainer
            PROVE  pc'[t] \in Place(t) \cap Somewhere
        <5>1. CASE t = Manager
          BY <4>1, <5>1, Places DEF ManagerPlace
        <5>2. CASE t # Manager /\ t \in Named(timers)
          <6>1. t \in Drainer
            BY <2>1, <5>2, NamesAssumption DEF Thread
          <6>. QED
            BY <4>1, <5>2, <6>1, Places DEF WhenDrained, Telling, DrainerPlace
        <5>3. CASE t # Manager /\ t \notin Named(timers)
          BY <1>0, <4>1, <5>3 DEF PcType
        <5>. QED
          BY <5>1, <5>2, <5>3
      <4>. QED
        BY <4>1, <4>2 DEF PcType
    <3>. QED
      BY <3>1, <3>2
  <2>3. /\ letter' \in [Ticket -> {"pending", "taken"} \cup Lock]
        /\ timers' \in Seq(Entry) /\ waiters' \in Seq(Ticket) /\ repo' \subseteq Lock
        /\ state' \in {"ACTIVE", "DRAIN", "SHUTDOWN", "STOPPED"}
    <3>1. letter' \in [Ticket -> {"pending", "taken"} \cup Lock]
      BY <1>38 DEF DrainRetain, TypeOK
    <3>2. timers' \in Seq(Entry) /\ waiters' \in Seq(Ticket)
      BY <1>38, EmptySeq DEF DrainRetain, TypeOK
    <3>. QED
      BY <1>38, <3>1, <3>2 DEF DrainRetain, TypeOK, Present
  <2>. QED
    BY <1>38, <2>2, <2>3 DEF TypeOK, PcType, DrainRetain
<1>39. CASE Park
  BY <1>26, <1>39 DEF TypeOK, PcType, Park, ManagerPlace
<1>40. CASE UNCHANGED vars
  BY <1>40 DEF TypeOK, vars
<1>. QED
  BY <1>0, <1>1, <1>2, <1>3, <1>4, <1>6, <1>7, <1>8, <1>9, <1>10, <1>11, <1>12, <1>13, <1>15,
     <1>16, <1>17, <1>18, <1>19, <1>20, <1>21, <1>22, <1>23, <1>24, <1>25, <1>27, <1>28,
     <1>29, <1>31, <1>33, <1>34, <1>35, <1>36, <1>37, <1>38, <1>39, <1>40
  DEF Next, ClientStep, ClientChoice, WorkerStep, DrainerStep, ManagerStep

-----------------------------------------------------------------------------
(* Where the threads are. *)

\* Nobody works on anything before the pool is used (pool.rs:323-400).
LEMMA PlacedInit == Init => Placed
  BY NamesAssumption
  DEF Init, Placed, PlacedAt, Ready, Serving, Handling, Leaving, Guarded, Thread

\* Where a thread has nothing in its hand, and where it has a lock.
Bare == {"idle", "init", "pop", "count", "cas", "create", "wait", "timers", "events",
         "registers", "waiters", "state", "drain", "park", "stopped"}
Holding == {"lock", "peek", "creating", "verifying", "managed", "send"}

\* What is known of a thread by the place it is at.
LEMMA AtPlace ==
  ASSUME NEW t \in Thread, PlacedAt(t)
  PROVE  /\ pc[t] \in Bare \cup Ticketed \cup {"tell"} => hand[t] = NoLock
         /\ pc[t] \in Holding \cup (Leaving \ {"tell"}) => hand[t] \in Lock
         /\ pc[t] \in Leaving => back[t] \in Resumed(t)
         /\ t \in Client /\ pc[t] \in Ticketed => ticket[t] \in Ticket
  BY DEF PlacedAt, Bare, Ticketed, Holding, Handling, Guarded, Leaving

\* What a thread must have at the place it comes to.
LEMMA ToPlace ==
  ASSUME NEW t \in Thread,
         \/ pc'[t] \in Bare /\ hand'[t] = NoLock
         \/ pc'[t] \in Ticketed /\ hand'[t] = NoLock /\ t \in Client /\ ticket'[t] \in Ticket
         \/ pc'[t] \in Holding /\ hand'[t] \in Lock
         \/ pc'[t] \in (Leaving \ {"tell"}) /\ hand'[t] \in Lock /\ back'[t] \in Resumed(t)
         \/ pc'[t] = "tell" /\ hand'[t] = NoLock /\ back'[t] \in Resumed(t)
  PROVE  PlacedAt(t)'
  BY DEF PlacedAt, Bare, Ticketed, Holding, Handling, Guarded, Leaving

\* What each thread comes back to.
LEMMA ResumedBy ==
    /\ \A c \in Client : Resumed(c) = {"idle", "init", "pop"}
    /\ \A w \in Worker : Resumed(w) = {"idle"}
    /\ Resumed(Manager) = {"timers", "state", "drain", "pop"}
  BY NamesAssumption DEF Resumed

\* A step of one thread leaves the others where they are.
LEMMA PlacedKeeps ==
  ASSUME Placed, NEW t \in Thread, PlacedAt(t)', Ready',
         \A u \in Thread \ {t} :
            /\ pc'[u] = pc[u] /\ hand'[u] = hand[u] /\ back'[u] = back[u]
            /\ u \in Client => ticket'[u] = ticket[u]
  PROVE  Placed'
  BY DEF Placed, PlacedAt

\* Only the manager takes waiters from the list, or answers one that is in it.
LEMMA ReadyKeeps ==
  ASSUME Ready, UNCHANGED waiters, pc'[Manager] = pc[Manager],
         back'[Manager] = back[Manager],
         waiters # <<>> /\ letter[Head(waiters)] = "pending"
            => letter'[Head(waiters)] = "pending"
  PROVE  Ready'
  BY DEF Ready, Serving

\* Every step leaves its thread at a place where it has what the place calls for, and
\* leaves the manager's next waiter to the manager.
LEMMA PlacedStep == TypeOK /\ TypeOK' /\ Placed /\ [Next]_vars => Placed'
<1>. SUFFICES ASSUME TypeOK, TypeOK', Placed, [Next]_vars PROVE Placed'
  OBVIOUS
<1>0. /\ Client \subseteq Thread /\ Worker \subseteq Thread /\ Manager \in Thread
      /\ Manager \notin Client /\ Manager \notin Worker
      /\ \A u \in Thread : PlacedAt(u)
      /\ Ready
  BY NamesAssumption DEF Thread, Placed
<1>. USE DEF counters, queues, client, manager, Goto, Call, Return, Hold, LetGo
<1>1. ASSUME NEW t \in Thread, Release(t) \/ ReleaseRecheck(t) PROVE Placed'
  <2>1. PlacedAt(t)'
    BY <1>0, <1>1 DEF Release, ReleaseRecheck, KeepOr, PlacedAt, Handling, Leaving, Guarded,
       TypeOK
  <2>2. Ready'
    BY <1>0, <1>1
    DEF Release, ReleaseRecheck, KeepOr, Ready, Serving, Leaving, TypeOK
  <2>. QED
    BY <1>0, <1>1, <2>1, <2>2, PlacedKeeps DEF Release, ReleaseRecheck, KeepOr, TypeOK
<1>2. ASSUME NEW t \in Thread, ReleaseReturn(t) PROVE Placed'
  <2>1. PlacedAt(t)'
    BY <1>0, <1>2 DEF ReleaseReturn, PlacedAt, Handling, Leaving, Guarded, TypeOK
  <2>2. Ready'
    BY <1>0, <1>2 DEF ReleaseReturn, Ready, Serving, Leaving, TypeOK
  <2>. QED
    BY <1>0, <1>2, <2>1, <2>2, PlacedKeeps DEF ReleaseReturn, TypeOK
<1>3. ASSUME NEW t \in Thread, ReleaseTell(t) \/ UnlockNone(t) PROVE Placed'
  <2>1. PlacedAt(t)'
    <3>1. /\ hand'[t] = NoLock /\ pc'[t] = back[t] /\ back[t] \in Resumed(t)
          /\ ticket' = ticket
      BY <1>0, <1>3 DEF ReleaseTell, UnlockNone, PlacedAt, Handling, Leaving, Guarded, TypeOK
    <3>2. pc'[t] \in {"idle", "init", "pop", "timers", "state", "drain"}
      BY <3>1 DEF Resumed
    <3>. QED
      BY <3>1, <3>2 DEF PlacedAt, Handling, Guarded, Leaving
  <2>2. Ready'
    BY <1>0, <1>3 DEF ReleaseTell, UnlockNone, Ready, Serving, Leaving, TypeOK, PlacedAt, Resumed, Thread
  <2>. QED
    BY <1>0, <1>3, <2>1, <2>2, PlacedKeeps DEF ReleaseTell, UnlockNone, TypeOK
<1>4. ASSUME NEW t \in Thread, Dispose(t) \/ DisposeTell(t) PROVE Placed'
  <2>1. PlacedAt(t)'
    BY <1>0, <1>4 DEF Dispose, DisposeTell, PlacedAt, Handling, Leaving, Guarded, TypeOK
  <2>2. Ready'
    BY <1>0, <1>4 DEF Dispose, DisposeTell, Ready, Serving, Leaving, TypeOK
  <2>. QED
    BY <1>0, <1>4, <2>1, <2>2, PlacedKeeps DEF Dispose, DisposeTell, TypeOK
<1>5. ASSUME NEW t \in Client \cup {Manager}, PopIdle(t) PROVE Placed'
  <2>1. idle_queue # <<>> => Head(idle_queue) \in Lock
    BY HeadTailProperties DEF TypeOK
  <2>2. PlacedAt(t)'
    <3>1. t \in Thread /\ hand[t] = NoLock
      BY <1>0, <1>5, AtPlace DEF PopIdle, Bare
    <3>2. \/ pc'[t] \in {"state", "count"} /\ hand'[t] = NoLock
          \/ pc'[t] = "lock" /\ hand'[t] \in Lock
      BY <1>5, <2>1, <3>1 DEF PopIdle, TypeOK
    <3>. QED
      BY <3>1, <3>2, ToPlace DEF Bare, Holding
  <2>3. Ready'
    BY <1>0, <1>5 DEF PopIdle, Ready, Serving, Leaving, TypeOK
  <2>. QED
    BY <1>0, <1>5, <2>2, <2>3, PlacedKeeps DEF PopIdle, TypeOK
<1>6. ASSUME NEW t \in Client \cup {Manager}, LockIdle(t) PROVE Placed'
  <2>1. t \in Thread /\ hand[t] \in Lock /\ "pop" \in Resumed(t)
    BY <1>0, <1>6, NamesAssumption DEF LockIdle, PlacedAt, Handling, Resumed
  <2>2. PlacedAt(t)'
    <3>1. \/ pc'[t] = "pop" /\ hand'[t] = NoLock
          \/ pc'[t] \in {"peek", "send"} /\ hand'[t] \in Lock
          \/ pc'[t] = "unlock" /\ hand'[t] \in Lock /\ back'[t] = "pop"
      BY <1>6, <2>1 DEF LockIdle, TypeOK
    <3>. QED
      BY <2>1, <3>1, ToPlace DEF Bare, Holding, Leaving
  <2>3. Ready'
    BY <1>0, <1>6 DEF LockIdle, Ready, Serving, Leaving, TypeOK
  <2>. QED
    BY <1>0, <1>6, <2>2, <2>3, PlacedKeeps DEF LockIdle, TypeOK
\* The steps of a client that are about nothing the manager goes by.
<1>7. ASSUME NEW c \in Client, PlacedAt(c)',
             \A u \in Thread \ {c} :
                /\ pc'[u] = pc[u] /\ hand'[u] = hand[u] /\ back'[u] = back[u]
                /\ u \in Client => ticket'[u] = ticket[u],
             UNCHANGED waiters,
             waiters # <<>> /\ letter[Head(waiters)] = "pending"
               => letter'[Head(waiters)] = "pending"
      PROVE  Placed'
  BY <1>0, <1>7, PlacedKeeps, ReadyKeeps
<1>8. ASSUME NEW c \in Client, AcquireAgain(c) \/ Acquire(c) PROVE Placed'
  <2>1. PlacedAt(c)'
    BY <1>0, <1>8
    DEF AcquireAgain, Acquire, CheckBusy, PlacedAt, Handling, Leaving, Guarded, TypeOK
  <2>. QED
    BY <1>7, <1>8, <2>1 DEF AcquireAgain, Acquire, CheckBusy, TypeOK
<1>9. ASSUME NEW c \in Client, NEW b, Resolved(c, b), hand'[c] \in Lock
      PROVE  PlacedAt(c)' /\ \A u \in Thread \ {c} : pc'[u] = pc[u] /\ back'[u] = back[u]
  <2>1. \/ pc'[c] = "release" /\ back'[c] = "init"
        \/ pc'[c] = "managed"
    BY <1>0, <1>9 DEF Resolved, TypeOK
  <2>2. "init" \in Resumed(c)
    BY <1>9, ResumedBy
  <2>3. PlacedAt(c)'
    BY <1>0, <1>9, <2>1, <2>2, ToPlace DEF Holding, Leaving
  <2>. QED
    BY <1>0, <1>9, <2>3 DEF Resolved, TypeOK
<1>10. ASSUME NEW c \in Client, Peek(c) PROVE Placed'
  <2>1. hand[c] \in Lock /\ UNCHANGED <<hand, ticket, waiters, letter>>
    BY <1>0, <1>10 DEF Peek, PlacedAt, Handling, Guarded
  <2>2. CASE \E b : Resolved(c, b)
    BY <1>7, <1>9, <2>1, <2>2
  <2>3. CASE Goto(c, "verifying") /\ UNCHANGED back
    <3>1. PlacedAt(c)'
      BY <1>0, <2>1, <2>3, ToPlace DEF Holding, TypeOK
    <3>. QED
      BY <1>7, <2>1, <2>3, <3>1 DEF TypeOK
  <2>4. CASE Call(c, "release", "pop")
    <3>1. pc'[c] = "release" /\ back'[c] = "pop" /\ "pop" \in Resumed(c)
      BY <1>0, <2>4, ResumedBy DEF TypeOK
    <3>2. PlacedAt(c)'
      BY <1>0, <2>1, <3>1, ToPlace DEF Leaving
    <3>. QED
      BY <1>7, <2>1, <2>4, <3>2 DEF TypeOK
  <2>. QED
    BY <1>10, <2>2, <2>3, <2>4 DEF Peek
<1>11. ASSUME NEW c \in Client, CreateFromCount(c) \/ UpdateCount(c) PROVE Placed'
  <2>1. PlacedAt(c)'
    <3>1. hand'[c] = NoLock
      BY <1>0, <1>11, AtPlace DEF CreateFromCount, UpdateCount, Bare
    <3>2. pc'[c] \in {"cas", "wait", "create"}
      BY <1>0, <1>11 DEF CreateFromCount, UpdateCount, TypeOK
    <3>. QED
      BY <1>0, <3>1, <3>2, ToPlace DEF Bare
  <2>. QED
    BY <1>7, <1>11, <2>1 DEF CreateFromCount, UpdateCount, TypeOK
<1>12. ASSUME NEW c \in Client, Create(c) PROVE Placed'
  <2>1. PlacedAt(c)'
    <3>1. hand'[c] \in Lock /\ pc'[c] = "creating"
      BY <1>0, <1>12 DEF Create, FreshLock, TypeOK
    <3>. QED
      BY <1>0, <3>1, ToPlace DEF Holding
  <2>. QED
    BY <1>0, <1>7, <1>12, <2>1 DEF Create, TypeOK
<1>13. ASSUME NEW c \in Client, TryWait(c) PROVE Placed'
  <2>1. PlacedAt(c)'
    <3>1. hand'[c] = NoLock
      BY <1>0, <1>13, AtPlace DEF TryWait, Bare
    <3>2. \/ pc'[c] = "idle"
          \/ pc'[c] = "register" /\ ticket'[c] \in Ticket
      <4>1. \/ Goto(c, "idle")
            \/ Goto(c, "register") /\ \E k \in Ticket : ticket' = [ticket EXCEPT ![c] = k]
        BY <1>13 DEF TryWait, FreshTicket
      <4>. QED
        BY <1>0, <4>1 DEF TypeOK
    <3>. QED
      BY <1>0, <3>1, <3>2, ToPlace DEF Bare, Ticketed
  <2>2. waiters # <<>> => Head(waiters) \in Range(waiters)
    BY RangePop DEF TypeOK
  <2>3. waiters # <<>> => letter'[Head(waiters)] = letter[Head(waiters)]
    BY <1>13, <2>2 DEF TryWait, FreshTicket, TypeOK
  <2>. QED
    BY <1>7, <1>13, <2>1, <2>3 DEF TryWait, TypeOK
<1>14. ASSUME NEW c \in Client, RegisterWaiter(c) \/ NotifyManager(c) PROVE Placed'
  <2>1. PlacedAt(c)'
    BY <1>0, <1>14
    DEF RegisterWaiter, NotifyManager, PlacedAt, Handling, Leaving, Guarded, TypeOK
  <2>. QED
    BY <1>7, <1>14, <2>1 DEF RegisterWaiter, NotifyManager, TypeOK
<1>15. ASSUME NEW c \in Client, Answered(c) PROVE Placed'
  <2>. DEFINE sent == letter[ticket[c]]
  <2>1. ticket[c] \in Ticket /\ pc[c] = "waiting" /\ hand[c] = NoLock
    BY <1>0, <1>15 DEF Answered, PlacedAt, Handling, Guarded, TypeOK
  <2>2. /\ letter' = [letter EXCEPT ![ticket[c]] = "taken"] /\ sent # "pending"
        /\ ticket' = [ticket EXCEPT ![c] = NoTicket] /\ waiters' = waiters
    BY <1>15 DEF Answered
  <2>3. waiters # <<>> /\ letter[Head(waiters)] = "pending"
          => letter'[Head(waiters)] = "pending"
    <3>1. waiters # <<>> => Head(waiters) \in Ticket
      BY HeadTailProperties DEF TypeOK
    <3>. QED
      BY <2>2, <3>1 DEF TypeOK
  <2>4. CASE Goto(c, "idle") /\ UNCHANGED <<back, hand>>
    <3>1. PlacedAt(c)'
      BY <1>0, <2>1, <2>2, <2>4, ToPlace DEF Bare, TypeOK
    <3>. QED
      BY <1>7, <2>2, <2>3, <2>4, <3>1 DEF TypeOK
  <2>5. CASE sent # "taken" /\ Hold(c, sent) /\ Resolved(c, lock[sent].expired)
    <3>1. hand'[c] \in Lock
      BY <1>0, <2>1, <2>2, <2>5 DEF TypeOK
    <3>. QED
      BY <1>7, <1>9, <2>2, <2>3, <2>5, <3>1 DEF TypeOK
  <2>. QED
    BY <1>15, <2>4, <2>5 DEF Answered
<1>16. ASSUME NEW t \in Client \cup Worker, EndCreate(t) \/ EndVerify(t) PROVE Placed'
  <2>1. /\ t \in Thread /\ hand[t] \in Lock /\ hand' = hand /\ t # Manager
        /\ UNCHANGED <<ticket, waiters, letter>>
    BY <1>0, <1>16 DEF EndCreate, EndVerify, PlacedAt, Handling, Guarded
  <2>2. PlacedAt(t)' /\ \A u \in Thread \ {t} : pc'[u] = pc[u] /\ back'[u] = back[u]
    <3>1. CASE Fail(t) \/ (t \in Worker /\ Call(t, "release", "idle"))
      <4>1. pc'[t] \in {"unlock", "release"} /\ back'[t] = "idle"
        BY <2>1, <3>1 DEF Fail, TypeOK
      <4>2. "idle" \in Resumed(t)
        BY DEF Resumed
      <4>3. PlacedAt(t)'
        BY <2>1, <4>1, <4>2, ToPlace DEF Leaving
      <4>. QED
        BY <3>1, <4>3 DEF Fail, TypeOK
    <3>2. CASE t \in Client /\ \E b : Resolved(t, b)
      BY <1>9, <2>1, <3>2
    <3>. QED
      BY <1>16, <3>1, <3>2 DEF EndCreate, EndVerify, Complete
  <2>. QED
    BY <1>0, <2>1, <2>2, PlacedKeeps, ReadyKeeps
<1>17. ASSUME NEW c \in Client, Discard(c) PROVE Placed'
  BY <1>0, <1>7, <1>17 DEF Discard, PlacedAt
<1>18. ASSUME NEW c \in Client, DropManaged(c) PROVE Placed'
  <2>1. PlacedAt(c)'
    BY <1>0, <1>18 DEF DropManaged, PlacedAt, Handling, Leaving, Guarded, Resumed, TypeOK
  <2>. QED
    BY <1>7, <1>18, <2>1 DEF DropManaged, TypeOK
<1>19. ASSUME NEW c \in Client, AbandonFuture(c) PROVE Placed'
  <2>1. PICK w \in Worker : /\ pc[w] = "idle" /\ pc[c] \in {"creating", "verifying"}
                           /\ pc' = [pc EXCEPT ![w] = pc[c], ![c] = "idle"]
                           /\ hand' = [hand EXCEPT ![w] = hand[c], ![c] = NoLock]
    BY <1>19 DEF AbandonFuture
  <2>2. w # c /\ hand[c] \in Lock
    BY <1>0, <2>1, NamesAssumption DEF PlacedAt, Handling, Guarded
  <2>3. UNCHANGED <<back, ticket, waiters, letter>>
    BY <1>19 DEF AbandonFuture
  <2>4. PlacedAt(w)' /\ PlacedAt(c)'
    BY <1>0, <2>1, <2>2, <2>3, NamesAssumption DEF PlacedAt, Handling, Leaving, Guarded, TypeOK
  <2>5. \A u \in Thread \ {w, c} : PlacedAt(u)'
    BY <1>0, <2>1, <2>3 DEF PlacedAt, TypeOK
  <2>6. Ready'
    BY <1>0, <2>1, <2>3, ReadyKeeps DEF TypeOK
  <2>. QED
    BY <2>4, <2>5, <2>6 DEF Placed
<1>20. ASSUME NEW c \in Client, AbandonWaiter(c) PROVE Placed'
  <2>1. ticket[c] \in Ticket /\ hand[c] = NoLock
    BY <1>0, <1>20 DEF AbandonWaiter, PlacedAt, Handling, Guarded
  <2>2. waiters # <<>> /\ letter[Head(waiters)] = "pending"
          => letter'[Head(waiters)] = "pending"
    BY <1>20, <2>1, NamesAssumption DEF AbandonWaiter, TypeOK
  <2>3. PlacedAt(c)'
    <3>1. \/ pc'[c] = "idle" /\ hand'[c] = NoLock
          \/ pc'[c] = "release" /\ hand'[c] \in Lock /\ back'[c] = "idle"
      BY <1>0, <1>20, <2>1 DEF AbandonWaiter, TypeOK
    <3>2. "idle" \in Resumed(c)
      BY DEF Resumed
    <3>. QED
      BY <1>0, <3>1, <3>2, ToPlace DEF Bare, Leaving
  <2>. QED
    BY <1>0, <1>7, <1>20, <2>2, <2>3 DEF AbandonWaiter, TypeOK
<1>21. ASSUME NEW t \in Client \cup Drainer, Dropping(t) \/ DropHandle(t) PROVE Placed'
  BY <1>0, <1>21 DEF Placed, PlacedAt, Ready, Serving, Dropping, ShutDown, ShutDownNotify, Uncount,
     DropHandle
\* A drainer is no thread of those.
<1>22. ASSUME NEW d \in Drainer, Drain(d) \/ DrainNotify(d) PROVE Placed'
  <2>1. \A u \in Thread : u # d
    BY NamesAssumption DEF Thread
  <2>2. /\ \A u \in Thread : pc'[u] = pc[u]
        /\ UNCHANGED <<back, hand, ticket, waiters, letter>>
    BY <1>22, <2>1 DEF Drain, DrainNotify, TypeOK
  <2>. QED
    BY <1>0, <2>2 DEF Placed, PlacedAt, Ready, Serving
\* Those of the manager leave everybody else alone.
<1>23. ASSUME PlacedAt(Manager)', Ready',
              \A u \in Thread \ {Manager} :
                 pc'[u] = pc[u] /\ hand'[u] = hand[u] /\ back'[u] = back[u],
              UNCHANGED ticket
       PROVE  Placed'
  BY <1>0, <1>23, PlacedKeeps
<1>24. ASSUME NEW next \in Bare, pc'[Manager] = next, hand'[Manager] = NoLock
       PROVE  PlacedAt(Manager)'
  BY <1>0, <1>24, ToPlace
<1>25. CASE VerifyTimer
  <2>1. pc[Manager] = "timers" /\ UNCHANGED <<letter, ticket, waiters>>
    BY <1>25 DEF VerifyTimer
  <2>2. CASE UNCHANGED <<lock, repo, pc, back, hand>>
    BY <1>0, <2>1, <2>2 DEF Placed, PlacedAt, Ready, Serving
  <2>3. ASSUME NEW old, NEW new \in Lock, Moved(old, new) PROVE Placed'
    <3>1. CASE \E w \in Worker :
                 pc[w] = "idle" /\ Goto(w, "verifying") /\ Hold(w, new) /\ UNCHANGED back
      <4>1. PICK w \in Worker :
              pc[w] = "idle" /\ Goto(w, "verifying") /\ Hold(w, new) /\ UNCHANGED back
        BY <3>1
      <4>2. w \in Thread /\ pc'[w] = "verifying" /\ hand'[w] \in Lock
        BY <1>0, <4>1 DEF TypeOK
      <4>3. PlacedAt(w)'
        BY <4>2, ToPlace DEF Holding
      <4>4. Ready'
        BY <1>0, <2>1, <4>1, ReadyKeeps DEF TypeOK
      <4>. QED
        BY <1>0, <2>1, <4>1, <4>2, <4>3, <4>4, PlacedKeeps DEF TypeOK
    <3>2. CASE /\ Hold(Manager, new)
               /\ Call(Manager, "dispose", "timers") \/ Call(Manager, "release", "timers")
      <4>1. /\ pc'[Manager] \in {"dispose", "release"} /\ hand'[Manager] \in Lock
            /\ back'[Manager] = "timers" /\ "timers" \in Resumed(Manager)
        BY <1>0, <3>2, ResumedBy DEF TypeOK
      <4>2. PlacedAt(Manager)'
        BY <1>0, <4>1, ToPlace DEF Leaving
      <4>3. Ready'
        BY <4>1 DEF Ready, Serving, Leaving
      <4>. QED
        BY <1>23, <2>1, <3>2, <4>2, <4>3 DEF TypeOK
    <3>. QED
      BY <2>3, <3>1, <3>2 DEF Moved
  <2>. QED
    BY <1>25, <2>2, <2>3, Fired DEF FreshLock
<1>26. CASE WaiterTimer
  <2>1. Ready'
    BY <1>26 DEF WaiterTimer, Ready, Serving, Leaving
  <2>. QED
    BY <1>0, <1>26, <2>1 DEF WaiterTimer, Placed, PlacedAt
<1>27. CASE DrainTimer
  <2>1. PICK i \in DOMAIN timers :
          timers[i].kind = "drain" /\ Goto(timers[i].of, WhenUndrained(timers[i].of))
    BY <1>27 DEF DrainTimer
  <2>2. timers[i].of \in Drainer
    BY <2>1, EntryOf DEF TypeOK
  <2>3. \A u \in Thread : u # timers[i].of
    BY <2>2, NamesAssumption DEF Thread
  <2>4. /\ \A u \in Thread : pc'[u] = pc[u]
        /\ UNCHANGED <<back, hand, ticket, waiters, letter>>
    BY <1>27, <2>1, <2>3 DEF DrainTimer, TypeOK
  <2>. QED
    BY <1>0, <2>4 DEF Placed, PlacedAt, Ready, Serving
<1>28. CASE Listen \/ TakeEvents \/ TakeRegisters \/ Park
  <2>1. /\ hand'[Manager] = NoLock
        /\ \E next \in {"events", "registers", "waiters", "timers"} : Goto(Manager, next)
        /\ UNCHANGED <<back, hand, ticket>>
    BY <1>0, <1>28, AtPlace DEF Listen, TakeEvents, TakeRegisters, Park, Bare
  <2>2. pc'[Manager] \in {"events", "registers", "waiters", "timers"}
    BY <1>0, <2>1 DEF TypeOK
  <2>3. PlacedAt(Manager)'
    BY <1>24, <2>1, <2>2 DEF Bare
  <2>4. Ready'
    BY <2>2 DEF Ready, Serving, Leaving
  <2>. QED
    BY <1>23, <2>1, <2>3, <2>4 DEF TypeOK
\* Where the manager looks at the first of the waiters, it finds it as it says.
<1>29. ASSUME NEW list, NextWaiter(list, hand[Manager]) = pc'[Manager],
              waiters' = list, letter' = letter, hand' = hand,
              hand[Manager] \in Lock \cup {NoLock}, back'[Manager] = "state"
       PROVE  PlacedAt(Manager)' /\ Ready'
  <2>1. CASE hand[Manager] = NoLock
    <3>1. \/ pc'[Manager] = "state"
          \/ pc'[Manager] = "skip" /\ list # <<>>
          \/ pc'[Manager] = "pop" /\ list # <<>> /\ letter[Head(list)] = "pending"
      BY <1>29, <2>1 DEF NextWaiter
    <3>2. pc'[Manager] \in Bare \/ pc'[Manager] = "skip"
      BY <3>1 DEF Bare
    <3>3. PlacedAt(Manager)'
      BY <1>24, <1>29, <2>1, <3>2 DEF PlacedAt, Handling, Guarded, Leaving
    <3>4. Ready'
      BY <1>29, <3>1 DEF Ready, Serving, Leaving
    <3>. QED
      BY <3>3, <3>4
  <2>2. CASE hand[Manager] \in Lock
    <3>1. hand[Manager] # NoLock
      BY <2>2, NamesAssumption
    <3>2. \/ pc'[Manager] = "release"
          \/ pc'[Manager] = "skip" /\ list # <<>>
          \/ pc'[Manager] = "send" /\ list # <<>> /\ letter[Head(list)] = "pending"
      BY <1>29, <3>1 DEF NextWaiter
    <3>3. "state" \in Resumed(Manager)
      BY ResumedBy
    <3>4. PlacedAt(Manager)'
      BY <1>0, <1>29, <2>2, <3>2, <3>3, NamesAssumption
      DEF PlacedAt, Handling, Guarded, Leaving
    <3>5. Ready'
      BY <1>29, <3>2 DEF Ready, Serving, Leaving
    <3>. QED
      BY <3>4, <3>5
  <2>. QED
    BY <1>29, <2>1, <2>2
<1>30. CASE CheckWaiters
  <2>1. hand[Manager] = NoLock /\ UNCHANGED <<back, hand, ticket, waiters, letter>>
    BY <1>0, <1>30, AtPlace DEF CheckWaiters, Bare
  <2>2. \/ pc'[Manager] = "state"
        \/ pc'[Manager] = "skip" /\ waiters # <<>>
        \/ pc'[Manager] = "pop" /\ waiters # <<>> /\ letter[Head(waiters)] = "pending"
    BY <1>0, <1>30 DEF CheckWaiters, NextWaiter, TypeOK
  <2>3. PlacedAt(Manager)'
    BY <2>1, <2>2 DEF PlacedAt, Handling, Guarded, Leaving
  <2>4. Ready'
    BY <2>1, <2>2 DEF Ready, Serving, Leaving
  <2>. QED
    BY <1>23, <1>30, <2>1, <2>3, <2>4 DEF CheckWaiters, TypeOK
<1>31. ASSUME DecrementWaiters(waiters') PROVE Placed'
  <2>1. /\ pc'[Manager] = NextWaiter(waiters', hand[Manager])
        /\ back'[Manager] = "state" /\ UNCHANGED <<letter, hand, ticket>>
        /\ hand[Manager] \in Lock \cup {NoLock}
    BY <1>0, <1>31 DEF DecrementWaiters, TypeOK
  <2>2. PlacedAt(Manager)' /\ Ready'
    BY <1>29, <2>1
  <2>. QED
    BY <1>23, <1>31, <2>1, <2>2 DEF DecrementWaiters, TypeOK
<1>32. CASE SkipWaiter \/ CountServed
  BY <1>31, <1>32 DEF SkipWaiter, CountServed
<1>33. CASE Send
  <2>1. hand'[Manager] \in Lock \cup {NoLock} /\ pc'[Manager] = "decrement" /\ back' = back
    BY <1>0, <1>33 DEF Send, TypeOK
  <2>2. PlacedAt(Manager)'
    BY <1>0, <2>1 DEF PlacedAt, Handling, Guarded, Leaving
  <2>3. Ready'
    BY <2>1 DEF Ready, Serving, Leaving
  <2>. QED
    BY <1>23, <1>33, <2>2, <2>3 DEF Send, TypeOK
<1>34. CASE CheckState
  <2>1. /\ hand'[Manager] = NoLock /\ pc'[Manager] \in {"drain", "park"}
        /\ UNCHANGED <<back, hand, ticket>>
    BY <1>0, <1>34, AtPlace DEF CheckState, Bare, TypeOK
  <2>2. PlacedAt(Manager)'
    BY <1>24, <2>1 DEF Bare
  <2>3. Ready'
    BY <2>1 DEF Ready, Serving, Leaving
  <2>. QED
    BY <1>23, <1>34, <2>1, <2>2, <2>3 DEF CheckState, TypeOK
<1>35. CASE DrainLock
  <2>1. pc[Manager] = "drain" /\ hand[Manager] = NoLock /\ UNCHANGED <<letter, ticket, waiters>>
    BY <1>0, <1>35, AtPlace DEF DrainLock, Bare
  <2>2. CASE UNCHANGED <<pc, back, hand>>
    BY <1>0, <2>1, <2>2 DEF Placed, PlacedAt, Ready, Serving
  <2>3. CASE \E l \in todo : Hold(Manager, l) /\ Call(Manager, "dispose", "drain")
    <3>1. /\ pc'[Manager] = "dispose" /\ hand'[Manager] \in Lock
          /\ back'[Manager] = "drain" /\ "drain" \in Resumed(Manager)
      BY <1>0, <2>3, ResumedBy DEF TypeOK
    <3>2. PlacedAt(Manager)'
      BY <1>0, <3>1, ToPlace DEF Leaving
    <3>3. Ready'
      BY <3>1 DEF Ready, Serving, Leaving
    <3>. QED
      BY <1>23, <2>1, <2>3, <3>2, <3>3 DEF TypeOK
  <2>. QED
    BY <1>35, <2>2, <2>3 DEF DrainLock
<1>36. CASE DrainRetain
  <2>1. hand[Manager] = NoLock /\ UNCHANGED <<back, hand, ticket>>
    BY <1>0, <1>36, AtPlace DEF DrainRetain, Bare
  <2>2. pc'[Manager] \in {"park", "stopped"} /\ \A u \in Thread \ {Manager} : pc'[u] = pc[u]
    <3>1. CASE Present # {}
      BY <1>0, <1>36, <3>1 DEF DrainRetain, TypeOK
    <3>2. CASE Present = {}
      <4>1. /\ DOMAIN pc = Thread \cup Drainer
            /\ pc' = [t \in DOMAIN pc |->
                        IF t = Manager THEN "stopped"
                        ELSE IF t \in Named(timers) THEN WhenDrained(t) ELSE pc[t]]
        BY <1>36, <3>2 DEF DrainRetain, TypeOK
      <4>2. Named(timers) \subseteq Lock \cup Ticket \cup Drainer
        BY NamedType DEF TypeOK
      <4>3. \A u \in Thread : u \notin Named(timers)
        BY <4>2, NamesAssumption DEF Thread
      <4>. QED
        BY <1>0, <4>1, <4>3
    <3>. QED
      BY <3>1, <3>2
  <2>3. PlacedAt(Manager)'
    BY <1>24, <2>1, <2>2 DEF Bare
  <2>4. Ready'
    BY <2>2 DEF Ready, Serving, Leaving
  <2>. QED
    BY <1>23, <2>1, <2>2, <2>3, <2>4
<1>37. CASE UNCHANGED vars
  BY <1>0, <1>37 DEF vars, Placed, PlacedAt, Ready, Serving
<1>. QED
  BY <1>0, <1>1, <1>2, <1>3, <1>4, <1>5, <1>6, <1>8, <1>10, <1>11, <1>12, <1>13, <1>14, <1>15,
     <1>16, <1>17, <1>18, <1>19, <1>20, <1>21, <1>22, <1>25, <1>26, <1>27, <1>28, <1>30, <1>32,
     <1>33, <1>34, <1>35, <1>36, <1>37
  DEF Next, ClientStep, ClientChoice, WorkerStep, DrainerStep, ManagerStep, Releasing

\* A new pool is well typed.
LEMMA TypeInit == Init => TypeOK
<1>. SUFFICES ASSUME Init PROVE TypeOK
  OBVIOUS
<1>1. config \in PoolConfig /\ 0 \in 0..UsizeMax /\ 0 \in 0..config.acquire_bound
  BY PoolAssumption DEF Init, PoolConfig
<1>2. /\ pc \in [Thread \cup Drainer -> Somewhere]
      /\ \A t \in Thread \cup Drainer : pc[t] \in Place(t)
  <2>1. \A t \in Thread \cup Drainer :
           pc[t] = IF t = Manager THEN "timers" ELSE "idle"
    BY DEF Init
  <2>2. "timers" \in Place(Manager) \cap Somewhere
    BY Places DEF ManagerPlace
  <2>3. \A t \in (Thread \cup Drainer) \ {Manager} : "idle" \in Place(t) \cap Somewhere
    BY Places DEF Thread, ClientPlace, DrainerPlace
  <2>4. \A t \in Thread \cup Drainer : pc[t] \in Place(t) \cap Somewhere
    BY <2>1, <2>2, <2>3
  <2>5. pc = [t \in Thread \cup Drainer |-> pc[t]]
    BY DEF Init
  <2>. QED
    BY <2>4, <2>5
<1>3. /\ lock \in [Lock -> ResourceLock]
      /\ letter \in [Ticket -> {"pending", "taken"} \cup Lock]
      /\ back \in [Thread -> ClientPlace \cup ManagerPlace]
      /\ handle \in [Client \cup Drainer -> {"held", "last", "shut", "counted", "gone"}]
  BY DEF Init, Empty, ResourceLock, ClientPlace
<1>4. <<>> \in Seq(Lock) /\ <<>> \in Seq(Entry) /\ <<>> \in Seq(Ticket)
  BY EmptySeq
<1>. QED
  BY <1>1, <1>2, <1>3, <1>4 DEF Init, TypeOK

\* Every value that a pool's threads leave in what they share is of its type, every
\* thread is at a place of its own, and whatever it works on there is in its hand:
\* with a guard where the code holds one (lock.rs:54-61), with none where it has
\* dropped it, with a return place of its own kind where release and dispose run
\* (mod.rs:79-131), and with a waiter, still to be served, where the manager has one.
THEOREM TypeCorrect == Spec => [](TypeOK /\ Placed)
<1>1. Init => TypeOK /\ Placed
  BY TypeInit, PlacedInit
<1>2. TypeOK /\ Placed /\ [Next]_vars => (TypeOK /\ Placed)'
  BY TypeStep, PlacedStep
<1>. QED
  BY <1>1, <1>2, PTL DEF Spec

-----------------------------------------------------------------------------
(* One holder at a time. *)

\* What a step of thread t may do about the guard of lock l, its others' left alone:
\* nothing, or drop it and open the lock, or find the lock open and take it.
LEMMA ByThread ==
  ASSUME NEW l \in Lock, OneGuard(l), NEW t \in Thread, UNCHANGED letter,
         \A u \in Thread \ {t} : pc'[u] = pc[u] /\ hand'[u] = hand[u],
         \/ /\ Has(t, l)' <=> Has(t, l)
            /\ lock'[l].state = "HELD" <=> lock[l].state = "HELD"
         \/ Has(t, l) /\ ~Has(t, l)' /\ lock'[l].state # "HELD"
         \/ lock[l].state # "HELD" /\ Has(t, l)' /\ lock'[l].state = "HELD"
  PROVE  OneGuard(l)'
<1>1. t \notin Ticket
  BY NamesAssumption DEF Thread
<1>2. \A u \in Thread \ {t} : Has(u, l)' <=> Has(u, l)
  BY DEF Has, GuardOf
<1>3. Guards(l)' \ {t} = Guards(l) \ {t}
  BY <1>1, <1>2 DEF Guards, Has
<1>4. (t \in Guards(l)' <=> Has(t, l)') /\ (t \in Guards(l) <=> Has(t, l))
  BY <1>1 DEF Guards, Has
<1>. QED
  BY <1>3, <1>4 DEF OneGuard

\* Most steps keep the guard that their thread has, or have none.
LEMMA Quiet ==
  ASSUME Exclusive, NEW t \in Thread, UNCHANGED letter,
         \A u \in Thread \ {t} : pc'[u] = pc[u] /\ hand'[u] = hand[u],
         \A l \in Lock : lock'[l].state = "HELD" <=> lock[l].state = "HELD",
         \/ hand'[t] = hand[t] /\ GuardOf(t) /\ GuardOf(t)'
         \/ /\ ~GuardOf(t) \/ hand[t] = NoLock
            /\ ~GuardOf(t)' \/ hand'[t] = NoLock
  PROVE  Exclusive'
<1>1. \A l \in Lock : l # NoLock
  BY NamesAssumption
<1>2. \A l \in Lock : Has(t, l)' <=> Has(t, l)
  BY <1>1 DEF Has
<1>. QED
  BY <1>2, ByThread DEF Exclusive

\* The guards are where they were, and the locks read as they did.
LEMMA SameGuards ==
  ASSUME Exclusive,
         \A u \in Thread : pc'[u] = pc[u] /\ hand'[u] = hand[u],
         \A l \in Lock : lock'[l].state = "HELD" <=> lock[l].state = "HELD",
         \A k \in Ticket : letter'[k] = letter[k] \/ (letter'[k] \notin Lock /\ letter[k] \notin Lock)
  PROVE  Exclusive'
<1>1. \A l \in Lock : Guards(l)' = Guards(l)
  BY DEF Guards, GuardOf
<1>. QED
  BY <1>1 DEF Exclusive, OneGuard

\* Nobody has the guard of a lock that is new.
LEMMA FreshOpen ==
  ASSUME TypeOK, Exclusive, NEW l \in FreshLock
  PROVE  l \in Lock /\ Guards(l) = {} /\ lock[l].state # "HELD"
<1>1. \A t \in Thread : hand[t] # l
  BY DEF FreshLock, TypeOK, Range
<1>2. \A k \in Ticket : letter[k] # l
  BY DEF FreshLock, TypeOK, Range
<1>3. l \in Lock /\ Guards(l) = {}
  BY <1>1, <1>2 DEF FreshLock, Guards
<1>. QED
  BY <1>3 DEF Exclusive, OneGuard

\* No client has a receiver at first, and no letter a resource.
LEMMA PostedInit == Init => Posted
  BY NamesAssumption DEF Init, Posted

\* A receiver is where its client waits, and only a client that waits is sent to.
LEMMA PostedStep == TypeOK /\ TypeOK' /\ Placed /\ Posted /\ [Next]_vars => Posted'
<1>. SUFFICES ASSUME TypeOK, TypeOK', Placed, Posted, [Next]_vars PROVE Posted'
  OBVIOUS
<1>0. /\ Client \subseteq Thread /\ Worker \subseteq Thread /\ Manager \in Thread
      /\ Manager \notin Client /\ Client \cap Worker = {}
      /\ \A u \in Thread : PlacedAt(u)
      /\ Ready
  BY NamesAssumption DEF Thread, Placed
<1>. USE DEF counters, queues, client, manager, Goto, Call, Return, Hold, LetGo
\* What neither sends nor receives, nor moves a client that waits.
<1>1. ASSUME \A c \in Client : pc'[c] \in Ticketed \/ pc'[c] = pc[c] \/ pc[c] \notin Ticketed,
             UNCHANGED ticket,
             \A k \in Ticket : letter'[k] = letter[k] \/ letter'[k] \notin Lock
      PROVE  Posted'
  BY <1>1 DEF Posted
<1>2. ASSUME NEW t \in Thread, pc[t] \notin Ticketed, UNCHANGED <<ticket, letter>>,
             \A u \in Thread \ {t} : pc'[u] = pc[u]
      PROVE  Posted'
  BY <1>0, <1>1, <1>2
<1>3. ASSUME NEW t \in Thread, Releasing(t) PROVE Posted'
  <2>1. /\ pc[t] \notin Ticketed /\ UNCHANGED <<ticket, letter>>
        /\ \A u \in Thread \ {t} : pc'[u] = pc[u]
    BY <1>0, <1>3
    DEF Releasing, Release, ReleaseRecheck, KeepOr, ReleaseReturn, ReleaseTell, Dispose,
        DisposeTell, UnlockNone, Ticketed, TypeOK
  <2>. QED
    BY <1>2, <2>1
<1>4. ASSUME NEW t \in Client \cup {Manager}, PopIdle(t) \/ LockIdle(t) PROVE Posted'
  <2>1. /\ pc[t] \notin Ticketed /\ UNCHANGED <<ticket, letter>> /\ t \in Thread
        /\ \A u \in Thread \ {t} : pc'[u] = pc[u]
    BY <1>0, <1>4 DEF PopIdle, LockIdle, Ticketed, TypeOK
  <2>. QED
    BY <1>2, <2>1
<1>5. ASSUME NEW c \in Client,
             \/ AcquireAgain(c) \/ Acquire(c) \/ Peek(c) \/ CreateFromCount(c)
             \/ UpdateCount(c) \/ Create(c) \/ Discard(c) \/ DropManaged(c)
      PROVE  Posted'
  <2>1. /\ pc[c] \notin Ticketed /\ UNCHANGED <<ticket, letter>> /\ c \in Thread
        /\ \A u \in Thread \ {c} : pc'[u] = pc[u]
    BY <1>0, <1>5
    DEF AcquireAgain, Acquire, CheckBusy, Peek, Resolved, CreateFromCount, UpdateCount, Create,
        Discard, DropManaged, Ticketed, TypeOK
  <2>. QED
    BY <1>2, <2>1
<1>6. ASSUME NEW c \in Client, TryWait(c) PROVE Posted'
  <2>1. ticket[c] = NoTicket /\ pc[c] = "wait"
    BY <1>6 DEF TryWait, Posted, Ticketed
  <2>2. CASE Goto(c, "idle") /\ UNCHANGED <<ticket, letter>>
    BY <1>0, <1>2, <2>1, <2>2 DEF TypeOK, Ticketed
  <2>3. CASE /\ Goto(c, "register")
             /\ \E k \in FreshTicket : /\ ticket' = [ticket EXCEPT ![c] = k]
                                       /\ letter' = [letter EXCEPT ![k] = "pending"]
    <3>1. PICK k \in Ticket : /\ ticket' = [ticket EXCEPT ![c] = k]
                             /\ letter' = [letter EXCEPT ![k] = "pending"]
      BY <2>3 DEF FreshTicket
    <3>2. ASSUME NEW j \in Ticket, letter'[j] \in Lock PROVE \E d \in Client : ticket'[d] = j
      <4>1. letter[j] \in Lock
        BY <3>1, <3>2, NamesAssumption DEF TypeOK
      <4>2. PICK d \in Client : ticket[d] = j
        BY <4>1 DEF Posted
      <4>3. d # c
        BY <2>1, <4>2, NamesAssumption
      <4>. QED
        BY <3>1, <4>2, <4>3 DEF TypeOK
    <3>3. \A d \in Client : pc'[d] \notin Ticketed => ticket'[d] = NoTicket
      <4>1. ASSUME NEW d \in Client \ {c} PROVE pc'[d] = pc[d] /\ ticket'[d] = ticket[d]
        BY <1>0, <2>3, <3>1 DEF TypeOK
      <4>2. pc'[c] \in Ticketed
        BY <1>0, <1>6, <2>3 DEF TypeOK, Ticketed
      <4>. QED
        BY <4>1, <4>2 DEF Posted
    <3>. QED
      BY <3>2, <3>3 DEF Posted
  <2>. QED
    BY <1>6, <2>2, <2>3 DEF TryWait
<1>7. ASSUME NEW c \in Client, RegisterWaiter(c) \/ NotifyManager(c) PROVE Posted'
  BY <1>0, <1>1, <1>7 DEF RegisterWaiter, NotifyManager, Ticketed, TypeOK
\* Who takes an answer leaves no letter.
<1>8. ASSUME NEW c \in Client, ticket' = [ticket EXCEPT ![c] = NoTicket],
             \A d \in Client \ {c} : pc'[d] = pc[d],
             \A k \in Ticket : letter'[k] = letter[k] \/ letter'[k] \notin Lock,
             ticket[c] \in Ticket => letter'[ticket[c]] \notin Lock
      PROVE  Posted'
  <2>1. ASSUME NEW k \in Ticket, letter'[k] \in Lock PROVE \E d \in Client : ticket'[d] = k
    <3>1. PICK d \in Client : ticket[d] = k
      BY <1>8, <2>1 DEF Posted
    <3>. QED
      BY <1>8, <2>1, <3>1 DEF TypeOK
  <2>2. ASSUME NEW d \in Client, pc'[d] \notin Ticketed PROVE ticket'[d] = NoTicket
    <3>1. CASE d = c
      BY <1>8, <3>1 DEF TypeOK
    <3>2. CASE d # c
      <4>1. pc'[d] = pc[d] /\ ticket'[d] = ticket[d]
        BY <1>8, <3>2 DEF TypeOK
      <4>. QED
        BY <2>2, <4>1 DEF Posted
    <3>. QED
      BY <3>1, <3>2
  <2>. QED
    BY <2>1, <2>2 DEF Posted
<1>9. ASSUME NEW c \in Client, Answered(c) PROVE Posted'
  <2>1. /\ letter' = [letter EXCEPT ![ticket[c]] = "taken"]
        /\ ticket' = [ticket EXCEPT ![c] = NoTicket]
    BY <1>9 DEF Answered
  <2>2. \A d \in Client \ {c} : pc'[d] = pc[d]
    BY <1>0, <1>9 DEF Answered, Resolved, TypeOK
  <2>. QED
    BY <1>8, <2>1, <2>2, NamesAssumption DEF TypeOK
<1>10. ASSUME NEW c \in Client, AbandonWaiter(c) PROVE Posted'
  <2>1. /\ ticket' = [ticket EXCEPT ![c] = NoTicket]
        /\ \/ letter[ticket[c]] \notin Lock /\ letter' = letter
           \/ letter' = [letter EXCEPT ![ticket[c]] = "taken"]
    BY <1>10 DEF AbandonWaiter
  <2>2. \A d \in Client \ {c} : pc'[d] = pc[d]
    BY <1>0, <1>10 DEF AbandonWaiter, TypeOK
  <2>3. \A k \in Ticket : letter'[k] = letter[k] \/ letter'[k] \notin Lock
    BY <2>1, NamesAssumption DEF TypeOK
  <2>4. ticket[c] \in Ticket => letter'[ticket[c]] \notin Lock
    BY <2>1, NamesAssumption DEF TypeOK
  <2>. QED
    BY <1>8, <2>1, <2>2, <2>3, <2>4
<1>11. ASSUME NEW t \in Client \cup Worker, EndCreate(t) \/ EndVerify(t) PROVE Posted'
  <2>1. /\ pc[t] \notin Ticketed /\ UNCHANGED <<ticket, letter>> /\ t \in Thread
        /\ \A u \in Thread \ {t} : pc'[u] = pc[u]
    BY <1>0, <1>11 DEF EndCreate, EndVerify, Complete, Fail, Resolved, Ticketed, TypeOK
  <2>. QED
    BY <1>2, <2>1
<1>12. ASSUME NEW c \in Client, AbandonFuture(c) PROVE Posted'
  <2>1. /\ \A d \in Client : d = c \/ pc'[d] = pc[d]
        /\ pc[c] \notin Ticketed /\ UNCHANGED <<ticket, letter>>
    BY <1>0, <1>12 DEF AbandonFuture, Ticketed, TypeOK
  <2>. QED
    BY <1>1, <2>1
<1>13. ASSUME NEW t \in Client \cup Drainer, Dropping(t) \/ DropHandle(t) PROVE Posted'
  BY <1>1, <1>13 DEF Dropping, ShutDown, ShutDownNotify, Uncount, DropHandle
<1>14. ASSUME NEW d \in Drainer, Drain(d) \/ DrainNotify(d) PROVE Posted'
  <2>1. \A u \in Client : u # d
    BY NamesAssumption
  <2>2. (\A u \in Client : pc'[u] = pc[u]) /\ UNCHANGED <<ticket, letter>>
    BY <1>0, <1>14, <2>1 DEF Drain, DrainNotify, TypeOK
  <2>. QED
    BY <1>1, <2>2
<1>15. CASE VerifyTimer
  <2>1. \A c \in Client : pc'[c] = pc[c] \/ pc[c] \notin Ticketed
    <3>1. CASE UNCHANGED <<lock, repo, pc, back, hand>>
      BY <3>1
    <3>2. ASSUME NEW old, NEW new, Moved(old, new)
          PROVE  \A c \in Client : pc'[c] = pc[c]
      BY <1>0, <3>2 DEF Moved, TypeOK
    <3>. QED
      BY <1>15, <3>1, <3>2, Fired
  <2>. QED
    BY <1>1, <1>15, <2>1 DEF VerifyTimer
<1>16. CASE WaiterTimer
  BY <1>1, <1>16, NamesAssumption DEF WaiterTimer, TypeOK
<1>17. CASE DrainTimer
  <2>1. PICK i \in DOMAIN timers :
          timers[i].kind = "drain" /\ Goto(timers[i].of, WhenUndrained(timers[i].of))
    BY <1>17 DEF DrainTimer
  <2>2. timers[i].of \in Drainer
    BY <2>1, EntryOf DEF TypeOK
  <2>3. \A u \in Client : u # timers[i].of
    BY <2>2, NamesAssumption
  <2>. QED
    BY <1>1, <1>17, <2>1, <2>3 DEF DrainTimer, TypeOK
<1>18. ASSUME \E next : Goto(Manager, next) PROVE \A c \in Client : pc'[c] = pc[c]
  BY <1>0, <1>18 DEF TypeOK
<1>19. CASE Listen \/ TakeEvents \/ TakeRegisters \/ CheckWaiters \/ CheckState \/ Park
  BY <1>1, <1>18, <1>19
  DEF Listen, TakeEvents, TakeRegisters, CheckWaiters, CheckState, Park
<1>20. CASE SkipWaiter \/ CountServed
  BY <1>1, <1>18, <1>20 DEF SkipWaiter, CountServed, DecrementWaiters
<1>21. CASE Send
  <2>. DEFINE k == Head(waiters)
  <2>1. k \in Ticket
    BY <1>0, <1>21, HeadTailProperties DEF Send, Ready, Serving, TypeOK
  <2>2. \A c \in Client : pc'[c] = pc[c]
    BY <1>18, <1>21 DEF Send
  <2>3. \A j \in Ticket : letter'[j] \in Lock =>
           letter[j] \in Lock \/ \E c \in Client : ticket[c] = j
    BY <1>21, <2>1, NamesAssumption DEF Send, TypeOK
  <2>4. ticket' = ticket
    BY <1>21 DEF Send
  <2>. QED
    BY <2>2, <2>3, <2>4 DEF Posted
<1>22. CASE DrainLock
  BY <1>1, <1>18, <1>22 DEF DrainLock
<1>23. CASE DrainRetain
  <2>1. \A c \in Client : pc'[c] = pc[c]
    <3>1. CASE Present # {}
      BY <1>18, <1>23, <3>1 DEF DrainRetain
    <3>2. CASE Present = {}
      <4>1. /\ DOMAIN pc = Thread \cup Drainer
            /\ pc' = [t \in DOMAIN pc |->
                        IF t = Manager THEN "stopped"
                        ELSE IF t \in Named(timers) THEN WhenDrained(t) ELSE pc[t]]
        BY <1>23, <3>2 DEF DrainRetain, TypeOK
      <4>2. \A c \in Client : c \notin Named(timers)
        BY NamedType, NamesAssumption DEF TypeOK
      <4>. QED
        BY <1>0, <4>1, <4>2
    <3>. QED
      BY <3>1, <3>2
  <2>2. \A k \in Ticket : letter'[k] = letter[k] \/ letter'[k] \notin Lock
    BY <1>23, NamesAssumption DEF DrainRetain
  <2>. QED
    BY <1>1, <1>23, <2>1, <2>2 DEF DrainRetain
<1>24. CASE UNCHANGED vars
  BY <1>1, <1>24 DEF vars
<1>. QED
  BY <1>0, <1>3, <1>4, <1>5, <1>6, <1>7, <1>9, <1>10, <1>11, <1>12, <1>13, <1>14, <1>15, <1>16,
     <1>17, <1>19, <1>20, <1>21, <1>22, <1>23, <1>24
  DEF Next, ClientStep, ClientChoice, WorkerStep, DrainerStep, ManagerStep

\* What the writes of one field of a lock leave of the locks.
LEMMA Wrote ==
  ASSUME lock \in [Lock -> ResourceLock], NEW l \in Lock, NEW v
  PROVE  /\ lock' = [lock EXCEPT ![l].state = v] =>
              /\ \A m \in Lock \ {l} : lock'[m] = lock[m]
              /\ lock'[l].state = v /\ lock'[l].full = lock[l].full
              /\ lock'[l].expired = lock[l].expired
         /\ lock' = [lock EXCEPT ![l].full = v] =>
              /\ \A m \in Lock \ {l} : lock'[m] = lock[m]
              /\ lock'[l].state = lock[l].state /\ lock'[l].full = v
              /\ lock'[l].expired = lock[l].expired
         /\ lock' = [lock EXCEPT ![l].expired = v] =>
              /\ \A m \in Lock \ {l} : lock'[m] = lock[m]
              /\ lock'[l].state = lock[l].state /\ lock'[l].full = lock[l].full
         /\ lock' = [lock EXCEPT ![l].reusable = v] =>
              /\ \A m \in Lock \ {l} : lock'[m] = lock[m]
              /\ lock'[l].state = lock[l].state /\ lock'[l].full = lock[l].full
              /\ lock'[l].expired = lock[l].expired
<1>. DEFINE r == lock[l]
<1>1. r \in ResourceLock
  OBVIOUS
<1>2. DOMAIN lock = Lock
  OBVIOUS
<1>. HIDE DEF r
<1>3. /\ [r EXCEPT !.state = v].state = v /\ [r EXCEPT !.state = v].full = r.full
      /\ [r EXCEPT !.state = v].expired = r.expired
      /\ [r EXCEPT !.full = v].state = r.state /\ [r EXCEPT !.full = v].full = v
      /\ [r EXCEPT !.full = v].expired = r.expired
      /\ [r EXCEPT !.expired = v].state = r.state /\ [r EXCEPT !.expired = v].full = r.full
      /\ [r EXCEPT !.reusable = v].state = r.state /\ [r EXCEPT !.reusable = v].full = r.full
      /\ [r EXCEPT !.reusable = v].expired = r.expired
  BY <1>1 DEF ResourceLock
<1>4. /\ lock' = [lock EXCEPT ![l].state = v] => lock' = [lock EXCEPT ![l] = [r EXCEPT !.state = v]]
      /\ lock' = [lock EXCEPT ![l].full = v] => lock' = [lock EXCEPT ![l] = [r EXCEPT !.full = v]]
      /\ lock' = [lock EXCEPT ![l].expired = v]
           => lock' = [lock EXCEPT ![l] = [r EXCEPT !.expired = v]]
      /\ lock' = [lock EXCEPT ![l].reusable = v]
           => lock' = [lock EXCEPT ![l] = [r EXCEPT !.reusable = v]]
  BY DEF r
<1>5. ASSUME NEW w, lock' = [lock EXCEPT ![l] = w]
      PROVE  lock'[l] = w /\ \A m \in Lock \ {l} : lock'[m] = lock[m]
  BY <1>2, <1>5
<1>6. ASSUME lock' = [lock EXCEPT ![l].state = v]
      PROVE  lock'[l] = [r EXCEPT !.state = v] /\ \A m \in Lock \ {l} : lock'[m] = lock[m]
  BY <1>4, <1>5, <1>6
<1>7. ASSUME lock' = [lock EXCEPT ![l].full = v]
      PROVE  lock'[l] = [r EXCEPT !.full = v] /\ \A m \in Lock \ {l} : lock'[m] = lock[m]
  BY <1>4, <1>5, <1>7
<1>8. ASSUME lock' = [lock EXCEPT ![l].expired = v]
      PROVE  lock'[l] = [r EXCEPT !.expired = v] /\ \A m \in Lock \ {l} : lock'[m] = lock[m]
  BY <1>4, <1>5, <1>8
<1>9. ASSUME lock' = [lock EXCEPT ![l].reusable = v]
      PROVE  lock'[l] = [r EXCEPT !.reusable = v] /\ \A m \in Lock \ {l} : lock'[m] = lock[m]
  BY <1>4, <1>5, <1>9
<1>10. lock[l] = r
  BY DEF r
<1>. QED
  BY <1>3, <1>6, <1>7, <1>8, <1>9, <1>10

\* No lock is held at first.
LEMMA ExclusiveInit == Init => Exclusive
<1>. SUFFICES ASSUME Init, NEW l \in Lock PROVE OneGuard(l)
  BY DEF Exclusive
<1>1. l # NoLock /\ l # "taken"
  BY NamesAssumption
<1>2. Guards(l) = {} /\ lock[l].state = "NONE"
  BY <1>1 DEF Init, Guards, Empty
<1>. QED
  BY <1>2 DEF OneGuard

\* Every step that gives a guard away lets go of it, and none takes one that is held.
LEMMA ExclusiveStep ==
  TypeOK /\ TypeOK' /\ Placed /\ Posted /\ Exclusive /\ [Next]_vars => Exclusive'
<1>. SUFFICES ASSUME TypeOK, TypeOK', Placed, Posted, Exclusive, [Next]_vars PROVE Exclusive'
  OBVIOUS
<1>0. /\ Client \subseteq Thread /\ Worker \subseteq Thread /\ Manager \in Thread
      /\ Manager \notin Client /\ Client \cap Worker = {} /\ Manager \notin Worker
      /\ \A u \in Thread : PlacedAt(u)
      /\ Ready
  BY NamesAssumption DEF Thread, Placed
<1>. USE DEF counters, queues, client, manager, Goto, Call, Return, Hold, LetGo
\* A lock's other fields are nothing to its guard.
<1>1. ASSUME NEW l \in Lock, NEW b \in BOOLEAN,
             \/ lock' = lock
             \/ lock' = [lock EXCEPT ![l].full = b]
             \/ lock' = [lock EXCEPT ![l].reusable = b]
             \/ lock' = [lock EXCEPT ![l].expired = b]
      PROVE  \A m \in Lock : lock'[m].state = lock[m].state
  <2>1. \A m \in Lock \ {l} : lock'[m] = lock[m]
    BY <1>1, Wrote DEF TypeOK
  <2>2. lock'[l].state = lock[l].state
    BY <1>1, Wrote DEF TypeOK
  <2>. QED
    BY <2>1, <2>2
\* The thread keeps its guard.
<1>2. ASSUME NEW t \in Thread, UNCHANGED <<letter, hand>>,
             \A u \in Thread \ {t} : pc'[u] = pc[u],
             \A m \in Lock : lock'[m].state = lock[m].state,
             pc[t] \in Guarded, pc'[t] \in Guarded
      PROVE  Exclusive'
  BY <1>2, Quiet DEF GuardOf
\* It has none, before or after.
<1>3. ASSUME NEW t \in Thread, UNCHANGED letter,
             \A u \in Thread \ {t} : pc'[u] = pc[u] /\ hand'[u] = hand[u],
             \A m \in Lock : lock'[m].state = lock[m].state,
             pc[t] \notin Guarded \cup {"skip", "decrement"},
             pc'[t] \notin Guarded \cup {"skip", "decrement"}
      PROVE  Exclusive'
  BY <1>3, Quiet DEF GuardOf
\* It drops the guard and leaves the lock open.
<1>4. ASSUME NEW t \in Thread, UNCHANGED letter,
             \A u \in Thread \ {t} : pc'[u] = pc[u] /\ hand'[u] = hand[u],
             pc[t] \in Guarded, pc'[t] \notin Guarded \cup {"skip", "decrement"},
             hand[t] \in Lock, hand'[t] \in {hand[t], NoLock},
             lock'[hand[t]].state # "HELD",
             \A m \in Lock \ {hand[t]} : lock'[m].state = lock[m].state
      PROVE  Exclusive'
  <2>1. \A m \in Lock : Has(t, m) <=> m = hand[t]
    BY <1>4 DEF Has, GuardOf
  <2>2. \A m \in Lock : ~Has(t, m)'
    BY <1>4 DEF Has, GuardOf
  <2>3. ASSUME NEW m \in Lock PROVE OneGuard(m)'
    <3>1. CASE m = hand[t]
      BY <1>4, <2>1, <2>2, <3>1, ByThread DEF Exclusive
    <3>2. CASE m # hand[t]
      BY <1>4, <2>1, <2>2, <3>2, ByThread DEF Exclusive
    <3>. QED
      BY <3>1, <3>2
  <2>. QED
    BY <2>3 DEF Exclusive
\* It takes the guard of a lock that is open.
<1>5. ASSUME NEW t \in Thread, NEW l \in Lock, UNCHANGED letter,
             \A u \in Thread \ {t} : pc'[u] = pc[u] /\ hand'[u] = hand[u],
             pc[t] \notin Guarded \cup {"skip", "decrement"}, pc'[t] \in Guarded, hand'[t] = l,
             lock[l].state # "HELD", lock'[l].state = "HELD",
             \A m \in Lock \ {l} : lock'[m].state = "HELD" <=> lock[m].state = "HELD"
      PROVE  Exclusive'
  <2>1. \A m \in Lock : Has(t, m)' <=> m = l
    BY <1>5 DEF Has, GuardOf
  <2>2. \A m \in Lock : ~Has(t, m)
    BY <1>5 DEF Has, GuardOf
  <2>3. ASSUME NEW m \in Lock PROVE OneGuard(m)'
    <3>1. CASE m = l
      BY <1>5, <2>1, <2>2, <3>1, ByThread DEF Exclusive
    <3>2. CASE m # l
      BY <1>5, <2>1, <2>2, <3>2, ByThread DEF Exclusive
    <3>. QED
      BY <3>1, <3>2
  <2>. QED
    BY <2>3 DEF Exclusive
\* Release and dispose.
<1>6. ASSUME NEW t \in Thread, Release(t) \/ ReleaseRecheck(t) PROVE Exclusive'
  <2>1. /\ pc[t] \in Guarded /\ hand[t] \in Lock /\ UNCHANGED <<letter, hand>>
        /\ \A u \in Thread \ {t} : pc'[u] = pc[u]
    BY <1>0, <1>6
    DEF Release, ReleaseRecheck, KeepOr, PlacedAt, Handling, Guarded, TypeOK
  <2>2. CASE Goto(t, "return") /\ lock' = [lock EXCEPT ![hand[t]].state = "SOME"]
    BY <1>4, <2>1, <2>2 DEF Guarded, TypeOK, ResourceLock
  <2>3. CASE lock' = lock /\ \E next \in {"dispose", "recheck"} : Goto(t, next)
    BY <1>2, <2>1, <2>3 DEF Guarded, TypeOK
  <2>. QED
    BY <1>6, <2>2, <2>3 DEF Release, ReleaseRecheck, KeepOr
<1>7. ASSUME NEW t \in Thread, ReleaseReturn(t) \/ ReleaseTell(t) PROVE Exclusive'
  <2>1. /\ pc[t] \notin Guarded \cup {"skip", "decrement"} /\ UNCHANGED <<lock, letter>>
        /\ \A u \in Thread \ {t} : pc'[u] = pc[u] /\ hand'[u] = hand[u]
    BY <1>0, <1>7 DEF ReleaseReturn, ReleaseTell, Guarded, TypeOK
  <2>2. pc'[t] \in {"tell", "idle", "init", "pop", "timers", "state", "drain"}
    BY <1>0, <1>7 DEF ReleaseReturn, ReleaseTell, PlacedAt, Leaving, Resumed, TypeOK
  <2>. QED
    BY <1>3, <2>1, <2>2 DEF Guarded
<1>8. ASSUME NEW t \in Thread, Dispose(t) \/ DisposeTell(t) PROVE Exclusive'
  <2>1. /\ pc[t] \in Guarded /\ pc'[t] \in Guarded /\ UNCHANGED <<letter, hand>>
        /\ \A u \in Thread \ {t} : pc'[u] = pc[u]
        /\ hand[t] \in Lock
    BY <1>0, <1>8 DEF Dispose, DisposeTell, Guarded, TypeOK, PlacedAt, Handling
  <2>2. \A m \in Lock : lock'[m].state = lock[m].state
    BY <1>1, <1>8, <2>1 DEF Dispose, DisposeTell
  <2>. QED
    BY <1>2, <2>1, <2>2
<1>9. ASSUME NEW t \in Thread, UnlockNone(t) PROVE Exclusive'
  <2>1. /\ pc[t] \in Guarded /\ hand[t] \in Lock /\ hand'[t] = NoLock /\ UNCHANGED letter
        /\ \A u \in Thread \ {t} : pc'[u] = pc[u] /\ hand'[u] = hand[u]
    BY <1>0, <1>9 DEF UnlockNone, PlacedAt, Handling, Guarded, TypeOK
  <2>2. pc'[t] \in {"idle", "init", "pop", "timers", "state", "drain"}
    BY <1>0, <1>9 DEF UnlockNone, PlacedAt, Leaving, Resumed, TypeOK
  <2>3. /\ lock'[hand[t]].state # "HELD"
        /\ \A m \in Lock \ {hand[t]} : lock'[m].state = lock[m].state
    BY <1>9, <2>1 DEF UnlockNone, Empty, TypeOK
  <2>. QED
    BY <1>4, <2>1, <2>2, <2>3 DEF Guarded
\* The idle queue.
<1>10. ASSUME NEW t \in Client \cup {Manager}, PopIdle(t) PROVE Exclusive'
  <2>1. /\ t \in Thread /\ pc[t] = "pop" /\ pc'[t] \in {"state", "count", "lock"}
        /\ \A u \in Thread \ {t} : pc'[u] = pc[u] /\ hand'[u] = hand[u]
        /\ UNCHANGED <<lock, letter>>
    BY <1>0, <1>10 DEF PopIdle, TypeOK
  <2>. QED
    BY <1>3, <2>1 DEF Guarded
<1>11. ASSUME NEW t \in Client \cup {Manager}, LockIdle(t) PROVE Exclusive'
  <2>0. \A u \in Thread \ {t} : pc'[u] = pc[u] /\ hand'[u] = hand[u]
    BY <1>0, <1>11 DEF LockIdle, TypeOK
  <2>1. /\ t \in Thread /\ pc[t] = "lock" /\ hand[t] \in Lock /\ UNCHANGED letter
        /\ lock' = [lock EXCEPT ![hand[t]].state = "HELD"]
    BY <1>0, <1>11 DEF LockIdle, PlacedAt, Handling
  <2>2. /\ lock'[hand[t]].state = "HELD"
        /\ \A m \in Lock \ {hand[t]} : lock'[m].state = lock[m].state
    BY <2>1, Wrote DEF TypeOK
  <2>3. CASE lock[hand[t]].state = "HELD"
    <3>1. pc'[t] = "pop" /\ \A m \in Lock : lock'[m].state = lock[m].state
      BY <1>11, <2>1, <2>2, <2>3 DEF LockIdle, TypeOK
    <3>. QED
      BY <1>3, <2>0, <2>1, <3>1 DEF Guarded
  <2>4. CASE lock[hand[t]].state # "HELD"
    <3>1. pc'[t] \in {"send", "peek", "unlock"} /\ hand'[t] = hand[t]
      BY <1>11, <2>1, <2>4 DEF LockIdle, TypeOK
    <3>. QED
      BY <1>5, <2>0, <2>1, <2>2, <2>4, <3>1 DEF Guarded
  <2>. QED
    BY <2>3, <2>4
\* Clients.
<1>12. ASSUME NEW c \in Client,
              \/ AcquireAgain(c) \/ Acquire(c) \/ CreateFromCount(c) \/ UpdateCount(c)
              \/ RegisterWaiter(c) \/ NotifyManager(c)
       PROVE  Exclusive'
  <2>1. UNCHANGED <<lock, letter, hand>> /\ \A u \in Thread \ {c} : pc'[u] = pc[u]
    BY <1>0, <1>12
    DEF AcquireAgain, Acquire, CheckBusy, CreateFromCount, UpdateCount, RegisterWaiter,
        NotifyManager, TypeOK
  <2>2. pc[c] \in {"init", "idle", "count", "cas", "register", "notify", "notify again"}
    BY <1>12
    DEF AcquireAgain, Acquire, CreateFromCount, UpdateCount, RegisterWaiter, NotifyManager
  <2>3. pc'[c] \in {"pop", "count", "cas", "wait", "create", "notify", "notify again", "waiting"}
    BY <1>0, <1>12
    DEF AcquireAgain, Acquire, CheckBusy, CreateFromCount, UpdateCount, RegisterWaiter,
        NotifyManager, TypeOK
  <2>. QED
    BY <1>0, <1>3, <2>1, <2>2, <2>3 DEF Guarded
<1>13. ASSUME NEW c \in Client, Peek(c) \/ Discard(c) \/ DropManaged(c) PROVE Exclusive'
  <2>1. /\ pc[c] \in Guarded /\ hand[c] \in Lock /\ UNCHANGED <<letter, hand>>
        /\ \A u \in Thread \ {c} : pc'[u] = pc[u]
    BY <1>0, <1>13
    DEF Peek, Resolved, Discard, DropManaged, Guarded, PlacedAt, Handling, TypeOK
  <2>2. pc'[c] \in Guarded
    BY <1>0, <1>13 DEF Peek, Resolved, Discard, DropManaged, Guarded, TypeOK
  <2>3. \A m \in Lock : lock'[m].state = lock[m].state
    BY <1>1, <1>13, <2>1 DEF Peek, Discard, DropManaged
  <2>. QED
    BY <1>0, <1>2, <2>1, <2>2, <2>3
<1>14. ASSUME NEW t \in Client \cup Worker, EndCreate(t) \/ EndVerify(t) PROVE Exclusive'
  <2>1. /\ t \in Thread /\ pc[t] \in Guarded /\ hand[t] \in Lock /\ UNCHANGED <<letter, hand>>
        /\ \A u \in Thread \ {t} : pc'[u] = pc[u]
    BY <1>0, <1>14
    DEF EndCreate, EndVerify, Complete, Fail, Resolved, Guarded, PlacedAt, Handling, TypeOK
  <2>2. pc'[t] \in Guarded
    BY <1>14, <2>1 DEF EndCreate, EndVerify, Complete, Fail, Resolved, Guarded, TypeOK
  <2>3. \E b \in BOOLEAN : \/ lock' = lock
                           \/ lock' = [lock EXCEPT ![hand[t]].full = b]
                           \/ lock' = [lock EXCEPT ![hand[t]].expired = b]
    BY <1>14 DEF EndCreate, EndVerify
  <2>4. \A m \in Lock : lock'[m].state = lock[m].state
    BY <1>1, <2>1, <2>3
  <2>. QED
    BY <1>2, <2>1, <2>2, <2>4
<1>15. ASSUME NEW c \in Client, Create(c) PROVE Exclusive'
  <2>1. PICK l \in FreshLock :
          /\ lock' = [lock EXCEPT ![l] = [state |-> "HELD", full |-> FALSE,
                                          reusable |-> IdleTimeout, expired |-> FALSE]]
          /\ Hold(c, l)
    BY <1>15 DEF Create
  <2>2. l \in Lock /\ lock[l].state # "HELD"
    BY <2>1, FreshOpen
  <2>3. /\ c \in Thread /\ pc[c] = "create" /\ pc'[c] = "creating" /\ hand'[c] = l
        /\ \A u \in Thread \ {c} : pc'[u] = pc[u] /\ hand'[u] = hand[u]
        /\ UNCHANGED letter
    BY <1>0, <1>15, <2>1 DEF Create, TypeOK
  <2>4. lock'[l].state = "HELD" /\ \A m \in Lock \ {l} : lock'[m] = lock[m]
    BY <2>1, <2>2 DEF TypeOK
  <2>. QED
    BY <1>5, <2>2, <2>3, <2>4 DEF Guarded
<1>16. ASSUME NEW c \in Client, TryWait(c) PROVE Exclusive'
  <2>1. /\ c \in Thread /\ pc[c] = "wait" /\ pc'[c] \in {"idle", "register"}
        /\ \A u \in Thread \ {c} : pc'[u] = pc[u]
        /\ UNCHANGED <<hand, lock>>
    BY <1>0, <1>16 DEF TryWait, TypeOK
  <2>2. CASE letter' = letter
    BY <1>3, <2>1, <2>2 DEF Guarded
  <2>3. ASSUME NEW k \in FreshTicket, letter' = [letter EXCEPT ![k] = "pending"]
        PROVE  Exclusive'
    <3>1. k \in Ticket /\ letter[k] \notin Lock
      BY <2>3 DEF FreshTicket, Posted, TypeOK, Range
    <3>2. /\ letter'[k] \notin Lock
          /\ \A j \in Ticket \ {k} : letter'[j] = letter[j]
      BY <2>3, <3>1, NamesAssumption DEF TypeOK
    <3>3. \A u \in Thread : GuardOf(u)' <=> GuardOf(u)
      BY <2>1 DEF GuardOf, Guarded
    <3>4. \A l \in Lock : Guards(l)' = Guards(l)
      BY <2>1, <3>1, <3>2, <3>3 DEF Guards
    <3>. QED
      BY <2>1, <3>4 DEF Exclusive, OneGuard
  <2>. QED
    BY <1>16, <2>2, <2>3 DEF TryWait
\* The resource in a letter goes to the client that takes it.
<1>17. ASSUME NEW c \in Client, NEW k \in Ticket, letter[k] \in Lock, hand' = [hand EXCEPT ![c] = letter[k]],
              letter' = [letter EXCEPT ![k] = "taken"], UNCHANGED lock,
              \A u \in Thread \ {c} : pc'[u] = pc[u], pc[c] = "waiting", pc'[c] \in Guarded
       PROVE  Exclusive'
  <2>. DEFINE sent == letter[k]
  <2>1. c \in Thread /\ c \notin Ticket /\ k \notin Thread /\ "taken" \notin Lock
    BY <1>0, NamesAssumption DEF Thread
  <2>2. /\ hand'[c] = sent /\ \A u \in Thread \ {c} : hand'[u] = hand[u]
        /\ letter'[k] = "taken" /\ \A j \in Ticket \ {k} : letter'[j] = letter[j]
    BY <1>17, <2>1 DEF TypeOK
  <2>3. \A u \in Thread \ {c} : GuardOf(u)' <=> GuardOf(u)
    BY <1>17 DEF GuardOf
  <2>4. GuardOf(c)' /\ ~GuardOf(c)
    BY <1>17 DEF GuardOf, Guarded
  <2>5. ASSUME NEW l \in Lock PROVE OneGuard(l)'
    <3>1. CASE l = sent
      <4>1. k \in Guards(l) /\ OneGuard(l)
        BY <3>1 DEF Guards, Exclusive
      <4>2. lock[l].state = "HELD" /\ Guards(l) = {k}
        BY <4>1 DEF OneGuard
      <4>3. Guards(l)' = {c}
        <5>1. c \in Guards(l)'
          BY <2>1, <2>2, <2>4, <3>1 DEF Guards
        <5>2. ASSUME NEW h \in Guards(l)', h # c PROVE h \in Guards(l) \ {k}
          BY <2>1, <2>2, <2>3, <3>1, <5>2 DEF Guards
        <5>. QED
          BY <4>2, <5>1, <5>2
      <4>. QED
        BY <1>17, <2>1, <4>2, <4>3 DEF OneGuard
    <3>2. CASE l # sent
      <4>1. Guards(l)' = Guards(l)
        BY <2>1, <2>2, <2>3, <2>4, <3>2 DEF Guards
      <4>. QED
        BY <1>17, <4>1 DEF Exclusive, OneGuard
    <3>. QED
      BY <3>1, <3>2
  <2>. QED
    BY <2>5 DEF Exclusive
<1>18. ASSUME NEW c \in Client, Answered(c) PROVE Exclusive'
  <2>1. /\ c \in Thread /\ pc[c] = "waiting" /\ ticket[c] \in Ticket /\ letter[ticket[c]] # "pending"
        /\ letter' = [letter EXCEPT ![ticket[c]] = "taken"] /\ UNCHANGED lock
    BY <1>0, <1>18 DEF Answered, PlacedAt, Ticketed
  <2>2. CASE letter[ticket[c]] = "taken" /\ Goto(c, "idle") /\ UNCHANGED hand
    <3>1. letter' = letter
      BY <2>1, <2>2 DEF TypeOK
    <3>2. pc'[c] = "idle" /\ \A u \in Thread \ {c} : pc'[u] = pc[u]
      BY <2>1, <2>2 DEF TypeOK
    <3>. QED
      BY <1>3, <2>1, <2>2, <3>1, <3>2 DEF Guarded
  <2>3. CASE letter[ticket[c]] # "taken" /\ Hold(c, letter[ticket[c]]) /\ \E b : Resolved(c, b)
    <3>1. letter[ticket[c]] \in Lock
      BY <2>1, <2>3 DEF TypeOK
    <3>2. pc'[c] \in Guarded /\ \A u \in Thread \ {c} : pc'[u] = pc[u]
      BY <2>1, <2>3 DEF Resolved, Guarded, TypeOK
    <3>. QED
      BY <1>17, <2>1, <2>3, <3>1, <3>2
  <2>. QED
    BY <1>18, <2>1, <2>2, <2>3 DEF Answered
<1>19. ASSUME NEW c \in Client, AbandonWaiter(c) PROVE Exclusive'
  <2>1. c \in Thread /\ pc[c] = "waiting" /\ ticket[c] \in Ticket /\ UNCHANGED lock
    BY <1>0, <1>19 DEF AbandonWaiter, PlacedAt, Ticketed
  <2>2. CASE Goto(c, "idle") /\ UNCHANGED <<hand, letter>>
    <3>1. pc'[c] = "idle" /\ \A u \in Thread \ {c} : pc'[u] = pc[u]
      BY <2>1, <2>2 DEF TypeOK
    <3>. QED
      BY <1>3, <2>1, <2>2, <3>1 DEF Guarded
  <2>3. CASE /\ letter[ticket[c]] \in Lock /\ Hold(c, letter[ticket[c]])
             /\ Call(c, "release", "idle") /\ letter' = [letter EXCEPT ![ticket[c]] = "taken"]
    <3>1. pc'[c] \in Guarded /\ \A u \in Thread \ {c} : pc'[u] = pc[u]
      BY <2>1, <2>3 DEF Guarded, TypeOK
    <3>. QED
      BY <1>17, <2>1, <2>3, <3>1
  <2>. QED
    BY <1>19, <2>2, <2>3 DEF AbandonWaiter
\* A future goes to a worker, with the guard.
<1>20. ASSUME NEW c \in Client, AbandonFuture(c) PROVE Exclusive'
  <2>1. PICK w \in Worker : /\ pc[w] = "idle" /\ pc[c] \in {"creating", "verifying"}
                           /\ pc' = [pc EXCEPT ![w] = pc[c], ![c] = "idle"]
                           /\ hand' = [hand EXCEPT ![w] = hand[c], ![c] = NoLock]
    BY <1>20 DEF AbandonFuture
  <2>2. w # c /\ c \in Thread /\ w \in Thread /\ hand[c] \in Lock /\ UNCHANGED <<lock, letter>>
    BY <1>0, <1>20, <2>1 DEF AbandonFuture, PlacedAt, Handling, Guarded
  <2>3. /\ pc'[w] = pc[c] /\ pc'[c] = "idle" /\ hand'[w] = hand[c]
        /\ \A u \in Thread \ {w, c} : pc'[u] = pc[u] /\ hand'[u] = hand[u]
    BY <2>1, <2>2 DEF TypeOK
  <2>4. /\ GuardOf(c) /\ ~GuardOf(w) /\ GuardOf(w)' /\ ~GuardOf(c)'
        /\ \A u \in Thread \ {w, c} : GuardOf(u)' <=> GuardOf(u)
    BY <2>1, <2>3 DEF GuardOf, Guarded
  <2>5. w \notin Ticket /\ c \notin Ticket
    BY <2>2, NamesAssumption DEF Thread
  <2>6. ASSUME NEW l \in Lock PROVE OneGuard(l)'
    <3>1. CASE l = hand[c]
      <4>1. c \in Guards(l) /\ OneGuard(l)
        BY <2>2, <2>4, <3>1 DEF Guards, Exclusive
      <4>2. lock[l].state = "HELD" /\ Guards(l) = {c}
        BY <4>1 DEF OneGuard
      <4>3. Guards(l)' = {w}
        <5>1. w \in Guards(l)'
          BY <2>2, <2>3, <2>4, <3>1 DEF Guards
        <5>2. ASSUME NEW h \in Guards(l)', h # w PROVE h \in Guards(l) \ {c}
          BY <2>2, <2>3, <2>4, <2>5, <5>2 DEF Guards
        <5>. QED
          BY <4>2, <5>1, <5>2
      <4>. QED
        BY <2>2, <4>2, <4>3 DEF OneGuard
    <3>2. CASE l # hand[c]
      <4>1. Guards(l)' = Guards(l)
        BY <2>2, <2>3, <2>4, <3>2 DEF Guards
      <4>. QED
        BY <2>2, <4>1 DEF Exclusive, OneGuard
    <3>. QED
      BY <3>1, <3>2
  <2>. QED
    BY <2>6 DEF Exclusive
<1>21. ASSUME NEW t \in Client \cup Drainer, Dropping(t) \/ DropHandle(t) PROVE Exclusive'
  BY <1>21, SameGuards DEF Dropping, ShutDown, ShutDownNotify, Uncount, DropHandle
<1>22. ASSUME NEW d \in Drainer, Drain(d) \/ DrainNotify(d) PROVE Exclusive'
  <2>1. \A u \in Thread : u # d
    BY NamesAssumption DEF Thread
  <2>2. (\A u \in Thread : pc'[u] = pc[u]) /\ UNCHANGED <<hand, lock, letter>>
    BY <1>22, <2>1 DEF Drain, DrainNotify, TypeOK
  <2>. QED
    BY <2>2, SameGuards
\* The manager's timers.
<1>23. CASE VerifyTimer
  <2>1. pc[Manager] = "timers" /\ UNCHANGED letter
    BY <1>23 DEF VerifyTimer
  <2>2. CASE UNCHANGED <<lock, repo, pc, back, hand>>
    BY <2>1, <2>2, SameGuards
  <2>3. ASSUME NEW old \in Lock, NEW new \in FreshLock, old # new, Moved(old, new)
        PROVE  Exclusive'
    <3>1. new \in Lock /\ lock[new].state # "HELD" /\ lock[old].state # "HELD"
      BY <2>3, FreshOpen DEF Moved
    <3>2. /\ lock'[new].state = "HELD" /\ lock'[old].state # "HELD"
          /\ \A m \in Lock \ {old, new} : lock'[m] = lock[m]
      <4>1. lock' = [lock EXCEPT ![new] = [lock[old] EXCEPT !.state = "HELD"], ![old] = Empty]
        BY <2>3 DEF Moved
      <4>2. [lock[old] EXCEPT !.state = "HELD"].state = "HELD"
        BY <2>3 DEF TypeOK, ResourceLock
      <4>. QED
        BY <2>3, <3>1, <4>1, <4>2 DEF TypeOK, Empty
    <3>3. \A m \in Lock \ {new} : lock'[m].state = "HELD" <=> lock[m].state = "HELD"
      BY <3>1, <3>2
    <3>4. ASSUME NEW t \in Thread, pc[t] \in {"idle", "timers"}, Hold(t, new),
                 \E next \in {"verifying", "dispose", "release"} : Goto(t, next)
          PROVE  Exclusive'
      <4>1. /\ hand'[t] = new /\ pc'[t] \in {"verifying", "dispose", "release"}
            /\ \A u \in Thread \ {t} : pc'[u] = pc[u] /\ hand'[u] = hand[u]
        BY <3>4 DEF TypeOK
      <4>. QED
        BY <1>5, <2>1, <3>1, <3>2, <3>3, <3>4, <4>1 DEF Guarded
    <3>5. CASE \E w \in Worker :
                 pc[w] = "idle" /\ Goto(w, "verifying") /\ Hold(w, new) /\ UNCHANGED back
      BY <1>0, <3>4, <3>5
    <3>6. CASE /\ Hold(Manager, new)
               /\ Call(Manager, "dispose", "timers") \/ Call(Manager, "release", "timers")
      BY <1>0, <2>1, <3>4, <3>6
    <3>. QED
      BY <2>3, <3>5, <3>6 DEF Moved
  <2>. QED
    BY <1>23, <2>2, <2>3, Fired
<1>24. CASE WaiterTimer
  <2>1. \A k \in Ticket : letter'[k] = letter[k] \/ (letter'[k] \notin Lock /\ letter[k] \notin Lock)
    BY <1>24, NamesAssumption DEF WaiterTimer, TypeOK
  <2>. QED
    BY <1>24, <2>1, SameGuards DEF WaiterTimer
<1>25. CASE DrainTimer
  <2>1. PICK i \in DOMAIN timers :
          timers[i].kind = "drain" /\ Goto(timers[i].of, WhenUndrained(timers[i].of))
    BY <1>25 DEF DrainTimer
  <2>2. timers[i].of \in Drainer
    BY <2>1, EntryOf DEF TypeOK
  <2>3. \A u \in Thread : u # timers[i].of
    BY <2>2, NamesAssumption DEF Thread
  <2>4. (\A u \in Thread : pc'[u] = pc[u]) /\ UNCHANGED <<hand, lock, letter>>
    BY <1>25, <2>1, <2>3 DEF DrainTimer, TypeOK
  <2>. QED
    BY <2>4, SameGuards
\* Its turns.
<1>26. CASE Listen \/ TakeEvents \/ TakeRegisters \/ CheckState \/ Park
  <2>1. /\ pc[Manager] \in {"timers", "events", "registers", "state", "park"}
        /\ \E next \in {"events", "registers", "waiters", "drain", "park", "timers"} :
              Goto(Manager, next)
        /\ UNCHANGED <<lock, letter, hand>>
    BY <1>26 DEF Listen, TakeEvents, TakeRegisters, CheckState, Park
  <2>2. /\ pc'[Manager] \in {"events", "registers", "waiters", "drain", "park", "timers"}
        /\ \A u \in Thread \ {Manager} : pc'[u] = pc[u]
    BY <1>0, <2>1 DEF TypeOK
  <2>. QED
    BY <1>0, <1>3, <2>1, <2>2 DEF Guarded
\* With a resource in its hand it goes on where it has the guard.
<1>27. ASSUME NEW list, UNCHANGED <<lock, letter, hand>>,
              pc[Manager] \in {"waiters", "skip", "decrement"},
              pc[Manager] = "waiters" => hand[Manager] = NoLock,
              Goto(Manager, NextWaiter(list, hand[Manager]))
       PROVE  Exclusive'
  <2>1. /\ pc'[Manager] = NextWaiter(list, hand[Manager])
        /\ \A u \in Thread \ {Manager} : pc'[u] = pc[u]
    BY <1>0, <1>27 DEF TypeOK
  <2>2. CASE hand[Manager] = NoLock
    BY <1>0, <1>27, <2>1, <2>2, Quiet
  <2>3. CASE hand[Manager] # NoLock
    <3>1. pc'[Manager] \in {"release", "skip", "send"}
      BY <2>1, <2>3 DEF NextWaiter
    <3>2. GuardOf(Manager) /\ GuardOf(Manager)'
      BY <1>27, <2>3, <3>1 DEF GuardOf, Guarded
    <3>. QED
      BY <1>0, <1>27, <2>1, <3>2, Quiet
  <2>. QED
    BY <2>2, <2>3
<1>28. CASE CheckWaiters
  <2>1. /\ pc[Manager] = "waiters" /\ hand[Manager] = NoLock /\ UNCHANGED <<lock, letter, hand>>
    BY <1>0, <1>28, AtPlace DEF CheckWaiters, Bare
  <2>2. CASE Goto(Manager, "state")
    <3>1. pc'[Manager] = "state" /\ \A u \in Thread \ {Manager} : pc'[u] = pc[u]
      BY <1>0, <2>2 DEF TypeOK
    <3>. QED
      BY <1>0, <1>3, <2>1, <3>1 DEF Guarded
  <2>3. CASE Goto(Manager, NextWaiter(waiters, NoLock))
    BY <1>27, <2>1, <2>3
  <2>. QED
    BY <1>28, <2>2, <2>3 DEF CheckWaiters
<1>29. CASE SkipWaiter \/ CountServed
  <2>1. /\ pc[Manager] \in {"skip", "decrement"} /\ UNCHANGED <<lock, letter, hand>>
        /\ Goto(Manager, NextWaiter(waiters', hand[Manager]))
    BY <1>29 DEF SkipWaiter, CountServed, DecrementWaiters
  <2>. QED
    BY <1>27, <2>1
<1>30. CASE Send
  <2>. DEFINE k == Head(waiters)
              l == hand[Manager]
  <2>1. pc[Manager] = "send" /\ l \in Lock /\ k \in Ticket /\ letter[k] = "pending"
    BY <1>0, <1>30, HeadTailProperties
    DEF Send, PlacedAt, Handling, Guarded, Ready, Serving, TypeOK
  <2>2. /\ pc'[Manager] = "decrement" /\ UNCHANGED lock
        /\ \A u \in Thread \ {Manager} : pc'[u] = pc[u]
    BY <1>0, <1>30 DEF Send, TypeOK
  <2>3. CASE letter' = [letter EXCEPT ![k] = "taken"] /\ UNCHANGED hand
    <3>1. \A j \in Ticket : letter'[j] = letter[j] \/ (letter'[j] \notin Lock /\ letter[j] \notin Lock)
      BY <2>1, <2>3, NamesAssumption DEF TypeOK
    <3>2. \A u \in Thread : GuardOf(u)' <=> GuardOf(u)
      BY <2>1, <2>2 DEF GuardOf, Guarded
    <3>3. \A m \in Lock : Guards(m)' = Guards(m)
      BY <2>3, <3>1, <3>2 DEF Guards
    <3>. QED
      BY <2>2, <3>3 DEF Exclusive, OneGuard
  <2>4. CASE letter' = [letter EXCEPT ![k] = l] /\ LetGo(Manager)
    <3>1. /\ letter'[k] = l /\ \A j \in Ticket \ {k} : letter'[j] = letter[j]
          /\ hand'[Manager] = NoLock /\ \A u \in Thread \ {Manager} : hand'[u] = hand[u]
      BY <1>0, <2>1, <2>4 DEF TypeOK
    <3>2. /\ NoLock \notin Lock /\ "pending" \notin Lock
          /\ k \notin Thread /\ Manager \notin Ticket
      BY <2>1, NamesAssumption DEF Thread
    <3>3. /\ GuardOf(Manager)
          /\ \A u \in Thread \ {Manager} : GuardOf(u)' <=> GuardOf(u)
      BY <2>1, <2>2 DEF GuardOf, Guarded
    <3>4. ASSUME NEW m \in Lock PROVE OneGuard(m)'
      <4>1. CASE m = l
        <5>1. Manager \in Guards(m) /\ OneGuard(m)
          BY <1>0, <3>3, <4>1 DEF Guards, Exclusive
        <5>2. lock[m].state = "HELD" /\ Guards(m) = {Manager}
          BY <5>1 DEF OneGuard
        <5>3. Guards(m)' = {k}
          <6>1. k \in Guards(m)'
            BY <2>1, <3>1, <4>1 DEF Guards
          <6>2. ASSUME NEW h \in Guards(m)', h # k PROVE h \in Guards(m) \ {Manager}
            BY <2>1, <3>1, <3>2, <3>3, <6>2 DEF Guards
          <6>. QED
            BY <5>2, <6>1, <6>2
        <5>. QED
          BY <2>1, <2>2, <5>2, <5>3 DEF OneGuard
      <4>2. CASE m # l
        <5>1. Guards(m)' = Guards(m)
          BY <2>1, <3>1, <3>2, <3>3, <4>2 DEF Guards
        <5>. QED
          BY <2>2, <5>1 DEF Exclusive, OneGuard
      <4>. QED
        BY <4>1, <4>2
    <3>. QED
      BY <3>4 DEF Exclusive
  <2>. QED
    BY <1>30, <2>3, <2>4 DEF Send
<1>31. CASE DrainLock
  <2>1. PICK l \in todo :
          /\ lock' = [lock EXCEPT ![l].state = "HELD"]
          /\ IF lock[l].state = "HELD"
               THEN UNCHANGED <<pc, back, hand>>
               ELSE Hold(Manager, l) /\ Call(Manager, "dispose", "drain")
    BY <1>31 DEF DrainLock
  <2>2. l \in Lock /\ pc[Manager] = "drain" /\ UNCHANGED letter
    BY <1>31 DEF TypeOK, DrainLock
  <2>3. lock'[l].state = "HELD" /\ \A m \in Lock \ {l} : lock'[m] = lock[m]
    BY <2>1, <2>2, Wrote DEF TypeOK
  <2>4. CASE lock[l].state = "HELD"
    BY <2>1, <2>2, <2>3, <2>4, SameGuards
  <2>5. CASE lock[l].state # "HELD"
    <3>1. /\ hand'[Manager] = l /\ pc'[Manager] = "dispose"
          /\ \A u \in Thread \ {Manager} : pc'[u] = pc[u] /\ hand'[u] = hand[u]
      BY <1>0, <2>1, <2>5 DEF TypeOK
    <3>. QED
      BY <1>0, <1>5, <2>2, <2>3, <2>5, <3>1 DEF Guarded
  <2>. QED
    BY <2>4, <2>5
<1>32. CASE DrainRetain
  <2>1. \A k \in Ticket : letter'[k] = letter[k] \/ (letter'[k] \notin Lock /\ letter[k] \notin Lock)
    BY <1>32, NamesAssumption DEF DrainRetain
  <2>2. /\ \A u \in Thread \ {Manager} : pc'[u] = pc[u]
        /\ pc[Manager] = "drain" /\ pc'[Manager] \in {"park", "stopped"}
    <3>1. CASE Present # {}
      BY <1>0, <1>32, <3>1 DEF DrainRetain, TypeOK
    <3>2. CASE Present = {}
      <4>1. /\ DOMAIN pc = Thread \cup Drainer
            /\ pc' = [t \in DOMAIN pc |->
                        IF t = Manager THEN "stopped"
                        ELSE IF t \in Named(timers) THEN WhenDrained(t) ELSE pc[t]]
        BY <1>32, <3>2 DEF DrainRetain, TypeOK
      <4>2. \A u \in Thread : u \notin Named(timers)
        BY NamedType, NamesAssumption DEF TypeOK, Thread
      <4>. QED
        BY <1>0, <1>32, <4>1, <4>2 DEF DrainRetain
    <3>. QED
      BY <3>1, <3>2
  <2>3. \A u \in Thread : GuardOf(u)' <=> GuardOf(u)
    BY <2>2 DEF GuardOf, Guarded
  <2>4. UNCHANGED <<hand, lock>>
    BY <1>32 DEF DrainRetain
  <2>5. \A m \in Lock : Guards(m)' = Guards(m)
    BY <2>1, <2>3, <2>4 DEF Guards
  <2>. QED
    BY <2>4, <2>5 DEF Exclusive, OneGuard
<1>33. CASE UNCHANGED vars
  BY <1>33, SameGuards DEF vars
<1>. QED
  BY <1>0, <1>6, <1>7, <1>8, <1>9, <1>10, <1>11, <1>12, <1>13, <1>14, <1>15, <1>16, <1>18,
     <1>19, <1>20, <1>21, <1>22, <1>23, <1>24, <1>25, <1>26, <1>28, <1>29, <1>30, <1>31,
     <1>32, <1>33
  DEF Next, ClientStep, ClientChoice, WorkerStep, DrainerStep, ManagerStep, Releasing

\* A resource is with one holder at a time, be it a client, the manager, a future, a
\* letter to a client or the drain, and a lock that reads HELD has one (lock.rs:54-61,
\* 155-160), whatever the number of threads and the order of their steps.
THEOREM Exclusion == Spec => []OneHolder
<1>1. TypeOK /\ Placed /\ Exclusive => OneHolder
  <2>1. ASSUME Exclusive, NEW l \in Lock
        PROVE  Cardinality(Guards(l)) = IF lock[l].state = "HELD" THEN 1 ELSE 0
    BY <2>1, FS_Singleton, FS_EmptySet DEF Exclusive, OneGuard
  <2>. QED
    BY <2>1 DEF OneHolder
<1>2. Init => TypeOK /\ Placed /\ Posted /\ Exclusive
  BY TypeInit, PlacedInit, PostedInit, ExclusiveInit
<1>3. TypeOK /\ Placed /\ Posted /\ Exclusive /\ [Next]_vars
        => (TypeOK /\ Placed /\ Posted /\ Exclusive)'
  BY TypeStep, PlacedStep, PostedStep, ExclusiveStep
<1>. QED
  BY <1>1, <1>2, <1>3, PTL DEF Spec

-----------------------------------------------------------------------------
(* No resource is lost. *)

\* Who has the guard of a lock is its only holder, and nobody else's step writes it.
LEMMA GuardHolds ==
  ASSUME Exclusive, NEW t \in Thread, hand[t] \in Lock, GuardOf(t)
  PROVE  lock[hand[t]].state = "HELD" /\ Guards(hand[t]) = {t}
<1>1. t \in Guards(hand[t])
  BY DEF Guards
<1>. QED
  BY <1>1 DEF Exclusive, OneGuard

\* What most steps of thread t do to the locks: nothing, or take one that is open, or
\* write one that t has, and leave it held or empty.
Wrought(t) ==
    \A l \in Lock :
        \/ lock'[l].state = lock[l].state /\ lock'[l].full = lock[l].full
        \/ /\ lock[l].state # "HELD" \/ (GuardOf(t) /\ hand[t] = l)
           /\ lock'[l].state = "HELD" \/ (lock'[l].state = "NONE" /\ lock'[l].full = FALSE)

\* Such a step leaves every resource that nobody holds where it is found.
LEMMA StowedBy ==
  ASSUME TypeOK, Placed, Exclusive, Stowed, NEW t \in Thread,
         \A u \in Thread \ {t} : pc'[u] = pc[u] /\ hand'[u] = hand[u],
         Range(idle_queue) \subseteq Range(idle_queue'),
         pc[t] \notin {"return", "lock"}, pc'[t] # "recheck", Wrought(t)
  PROVE  Stowed'
<1>1. ASSUME NEW l \in Lock, Near(l) PROVE Near(l)'
  BY <1>1 DEF Near
<1>2. ASSUME NEW l \in Lock
      PROVE  /\ lock'[l].state # "HELD" => (lock'[l].full <=> lock'[l].state = "SOME")
             /\ lock'[l].state = "SOME" => Near(l)'
  BY <1>1 DEF Stowed, Wrought
<1>3. ASSUME NEW u \in Thread, pc'[u] = "recheck" PROVE lock'[hand'[u]].full
  <2>1. u # t /\ pc[u] = "recheck" /\ hand'[u] = hand[u]
    BY <1>3
  <2>2. lock[hand[u]].full /\ hand[u] \in Lock /\ GuardOf(u)
    BY <2>1 DEF Stowed, Placed, PlacedAt, Handling, Guarded, GuardOf
  <2>3. lock[hand[u]].state = "HELD" /\ Guards(hand[u]) = {u}
    BY <2>2, GuardHolds
  <2>4. ~(GuardOf(t) /\ hand[t] = hand[u])
    <3>1. GuardOf(t) /\ hand[t] = hand[u] => Guards(hand[u]) = {t}
      BY <2>2, GuardHolds
    <3>. QED
      BY <2>1, <2>3, <3>1
  <2>. QED
    BY <2>1, <2>2, <2>3, <2>4 DEF Wrought
<1>. QED
  BY <1>2, <1>3 DEF Stowed

\* There is no resource at first.
LEMMA StowedInit == Init => Stowed
  BY DEF Init, Stowed, Empty

\* Every step that opens a lock with a resource is on its way to the idle queue, and
\* none takes a resource out of the queue but to lock it.
LEMMA StowedStep ==
  TypeOK /\ TypeOK' /\ Placed /\ Exclusive /\ Stowed /\ [Next]_vars => Stowed'
<1>. SUFFICES ASSUME TypeOK, TypeOK', Placed, Exclusive, Stowed, [Next]_vars PROVE Stowed'
  OBVIOUS
<1>0. /\ Client \subseteq Thread /\ Worker \subseteq Thread /\ Manager \in Thread
      /\ Manager \notin Client /\ Client \cap Worker = {} /\ Manager \notin Worker
      /\ \A u \in Thread : PlacedAt(u)
  BY NamesAssumption DEF Thread, Placed
<1>. USE DEF counters, queues, client, manager, Goto, Call, Return, Hold, LetGo
\* What does not touch the locks.
<1>1. ASSUME NEW t \in Thread, UNCHANGED <<lock, idle_queue>>,
             \A u \in Thread \ {t} : pc'[u] = pc[u] /\ hand'[u] = hand[u],
             pc[t] \notin {"return", "lock"}, pc'[t] # "recheck"
      PROVE  Stowed'
  BY <1>1, StowedBy DEF Wrought
\* What writes a lock of the thread's own.
<1>2. ASSUME NEW t \in Thread, UNCHANGED idle_queue,
             \A u \in Thread \ {t} : pc'[u] = pc[u] /\ hand'[u] = hand[u],
             pc[t] \in Guarded, pc'[t] # "recheck", hand[t] \in Lock,
             \A m \in Lock \ {hand[t]} : lock'[m] = lock[m],
             \/ lock'[hand[t]].state = lock[hand[t]].state
             \/ lock'[hand[t]] = Empty
      PROVE  Stowed'
  <2>1. GuardOf(t) /\ lock[hand[t]].state = "HELD"
    BY <1>2, GuardHolds DEF GuardOf
  <2>2. Wrought(t)
    BY <1>2, <2>1 DEF Wrought, Empty
  <2>. QED
    BY <1>2, <2>2, StowedBy DEF Guarded
<1>3. ASSUME NEW t \in Thread, Release(t) \/ ReleaseRecheck(t) PROVE Stowed'
  <2>. DEFINE l == hand[t]
  <2>1. /\ pc[t] \in {"release", "recheck"} /\ pc[t] \in Guarded /\ l \in Lock /\ hand' = hand
        /\ \A u \in Thread \ {t} : pc'[u] = pc[u]
        /\ idle_queue' = idle_queue
    BY <1>0, <1>3
    DEF Release, ReleaseRecheck, KeepOr, PlacedAt, Handling, Guarded, TypeOK
  <2>2. CASE lock' = lock /\ Goto(t, "dispose")
    <3>1. pc'[t] # "recheck"
      BY <2>2 DEF TypeOK
    <3>. QED
      BY <1>1, <2>1, <2>2, <3>1
  <2>3. CASE lock' = lock /\ Goto(t, "recheck") /\ lock[l].full
    <3>1. \A m \in Lock : Near(m) => Near(m)'
      BY <2>1, <2>3 DEF Near, TypeOK
    <3>2. \A u \in Thread : pc'[u] = "recheck" => lock'[hand'[u]].full
      BY <2>1, <2>3 DEF Stowed
    <3>. QED
      BY <2>3, <3>1, <3>2 DEF Stowed
  <2>4. CASE /\ lock' = [lock EXCEPT ![l].state = "SOME"] /\ Goto(t, "return")
             /\ lock[l].full
    <3>1. /\ lock'[l].state = "SOME" /\ lock'[l].full = lock[l].full
          /\ \A m \in Lock \ {l} : lock'[m] = lock[m]
      BY <2>1, <2>4, Wrote DEF TypeOK
    <3>2. pc'[t] = "return"
      BY <2>4 DEF TypeOK
    <3>3. \A m \in Lock : m = l \/ Near(m) => Near(m)'
      BY <2>1, <3>2 DEF Near
    <3>4. ASSUME NEW u \in Thread, pc'[u] = "recheck" PROVE lock'[hand'[u]].full
      <4>1. pc[u] = "recheck" /\ hand'[u] = hand[u] /\ lock[hand[u]].full /\ hand[u] \in Lock
        BY <1>0, <2>1, <3>2, <3>4 DEF Stowed, PlacedAt, Handling, Guarded
      <4>. QED
        BY <3>1, <4>1
    <3>5. ASSUME NEW m \in Lock
          PROVE  /\ lock'[m].state # "HELD" => (lock'[m].full <=> lock'[m].state = "SOME")
                 /\ lock'[m].state = "SOME" => Near(m)'
      <4>1. CASE m = l
        <5>1. lock'[m].full /\ lock'[m].state = "SOME"
          BY <2>4, <3>1, <4>1
        <5>. QED
          BY <3>3, <4>1, <5>1
      <4>2. CASE m # l
        BY <3>1, <3>3, <4>2 DEF Stowed
      <4>. QED
        BY <4>1, <4>2
    <3>. QED
      BY <3>4, <3>5 DEF Stowed
  <2>5. pc[t] = "recheck" => lock[l].full
    BY DEF Stowed
  <2>. QED
    BY <1>3, <2>2, <2>3, <2>4, <2>5 DEF Release, ReleaseRecheck, KeepOr
<1>4. ASSUME NEW t \in Thread, ReleaseReturn(t) PROVE Stowed'
  <2>1. /\ hand[t] \in Lock /\ lock' = lock /\ pc'[t] = "tell"
        /\ \A u \in Thread \ {t} : pc'[u] = pc[u] /\ hand'[u] = hand[u]
    BY <1>0, <1>4 DEF ReleaseReturn, PlacedAt, Handling, TypeOK
  <2>2. Range(idle_queue') = Range(idle_queue) \cup {hand[t]}
    BY <1>4, <2>1, RangeAppend DEF ReleaseReturn, TypeOK
  <2>3. \A m \in Lock : Near(m) => Near(m)'
    BY <2>1, <2>2 DEF Near
  <2>4. \A u \in Thread : pc'[u] = "recheck" => lock'[hand'[u]].full
    BY <2>1 DEF Stowed
  <2>. QED
    BY <2>1, <2>3, <2>4 DEF Stowed
<1>5. ASSUME NEW t \in Thread, ReleaseTell(t) PROVE Stowed'
  <2>1. /\ pc[t] = "tell" /\ UNCHANGED <<lock, idle_queue>>
        /\ \A u \in Thread \ {t} : pc'[u] = pc[u] /\ hand'[u] = hand[u]
    BY <1>5 DEF ReleaseTell, TypeOK
  <2>2. pc'[t] # "recheck"
    BY <1>0, <1>5 DEF ReleaseTell, PlacedAt, Leaving, Resumed, TypeOK
  <2>. QED
    BY <1>1, <2>1, <2>2
<1>6. ASSUME NEW t \in Thread, Dispose(t) \/ DisposeTell(t) \/ UnlockNone(t) PROVE Stowed'
  <2>1. /\ pc[t] \in Guarded /\ hand[t] \in Lock /\ idle_queue' = idle_queue
        /\ \A u \in Thread \ {t} : pc'[u] = pc[u] /\ hand'[u] = hand[u]
    BY <1>0, <1>6
    DEF Dispose, DisposeTell, UnlockNone, PlacedAt, Handling, Guarded, TypeOK
  <2>2. pc'[t] # "recheck"
    BY <1>0, <1>6 DEF Dispose, DisposeTell, UnlockNone, PlacedAt, Leaving, Resumed, TypeOK
  <2>3. /\ \A m \in Lock \ {hand[t]} : lock'[m] = lock[m]
        /\ \/ lock'[hand[t]].state = lock[hand[t]].state
           \/ lock'[hand[t]] = Empty
    <3>1. CASE UnlockNone(t)
      BY <2>1, <3>1 DEF UnlockNone, TypeOK
    <3>2. CASE Dispose(t) \/ DisposeTell(t)
      <4>1. lock' = lock \/ lock' = [lock EXCEPT ![hand[t]].full = FALSE]
        BY <3>2 DEF Dispose, DisposeTell
      <4>2. CASE lock' = lock
        BY <4>2
      <4>3. CASE lock' = [lock EXCEPT ![hand[t]].full = FALSE]
        BY <2>1, <4>3, Wrote DEF TypeOK
      <4>. QED
        BY <4>1, <4>2, <4>3
    <3>. QED
      BY <1>6, <3>1, <3>2
  <2>. QED
    BY <1>2, <2>1, <2>2, <2>3
<1>7. ASSUME NEW t \in Client \cup {Manager}, PopIdle(t) PROVE Stowed'
  <2>1. /\ t \in Thread /\ pc[t] = "pop" /\ lock' = lock
        /\ \A u \in Thread \ {t} : pc'[u] = pc[u] /\ hand'[u] = hand[u]
    BY <1>0, <1>7 DEF PopIdle, TypeOK
  <2>2. CASE idle_queue = <<>>
    <3>1. pc'[t] \in {"state", "count"} /\ idle_queue' = idle_queue
      BY <1>7, <2>1, <2>2 DEF PopIdle, TypeOK
    <3>. QED
      BY <1>1, <2>1, <3>1
  <2>3. CASE idle_queue # <<>>
    <3>1. pc'[t] = "lock" /\ hand'[t] = Head(idle_queue) /\ idle_queue' = Tail(idle_queue)
      BY <1>7, <2>1, <2>3 DEF PopIdle, TypeOK
    <3>2. Range(idle_queue) = {Head(idle_queue)} \cup Range(idle_queue')
      BY <2>3, <3>1, RangePop DEF TypeOK
    <3>3. \A m \in Lock : Near(m) => Near(m)'
      BY <2>1, <3>1, <3>2 DEF Near
    <3>4. \A u \in Thread : pc'[u] = "recheck" => lock'[hand'[u]].full
      BY <2>1, <3>1 DEF Stowed
    <3>. QED
      BY <2>1, <3>3, <3>4 DEF Stowed
  <2>. QED
    BY <2>2, <2>3
<1>8. ASSUME NEW t \in Client \cup {Manager}, LockIdle(t) PROVE Stowed'
  <2>. DEFINE l == hand[t]
  <2>1. /\ t \in Thread /\ pc[t] = "lock" /\ l \in Lock
        /\ lock' = [lock EXCEPT ![l].state = "HELD"] /\ idle_queue' = idle_queue
    BY <1>0, <1>8 DEF LockIdle, PlacedAt, Handling
  <2>2. \A u \in Thread \ {t} : pc'[u] = pc[u] /\ hand'[u] = hand[u]
    BY <1>0, <1>8 DEF LockIdle, TypeOK
  <2>3. /\ lock'[l].state = "HELD" /\ lock'[l].full = lock[l].full
        /\ \A m \in Lock \ {l} : lock'[m] = lock[m]
    BY <2>1, Wrote DEF TypeOK
  <2>4. \A m \in Lock \ {l} : Near(m) => Near(m)'
    BY <2>1, <2>2 DEF Near
  <2>5. pc'[t] # "recheck"
    BY <1>8, <2>1 DEF LockIdle, TypeOK
  <2>6. ASSUME NEW u \in Thread, pc'[u] = "recheck" PROVE lock'[hand'[u]].full
    <3>1. pc[u] = "recheck" /\ hand'[u] = hand[u] /\ lock[hand[u]].full /\ hand[u] \in Lock
      BY <1>0, <2>2, <2>5, <2>6 DEF Stowed, PlacedAt, Handling, Guarded
    <3>. QED
      BY <2>3, <3>1
  <2>. QED
    BY <2>3, <2>4, <2>6 DEF Stowed
\* Clients.
<1>9. ASSUME NEW c \in Client,
             \/ AcquireAgain(c) \/ Acquire(c) \/ CreateFromCount(c) \/ UpdateCount(c)
             \/ RegisterWaiter(c) \/ NotifyManager(c) \/ TryWait(c) \/ DropManaged(c)
      PROVE  Stowed'
  <2>1. /\ UNCHANGED <<lock, idle_queue, hand>> /\ \A u \in Thread \ {c} : pc'[u] = pc[u]
        /\ pc'[c] # "recheck"
    BY <1>0, <1>9
    DEF AcquireAgain, Acquire, CheckBusy, CreateFromCount, UpdateCount, RegisterWaiter,
        NotifyManager, TryWait, DropManaged, TypeOK
  <2>2. pc[c] \notin {"return", "lock"}
    BY <1>9
    DEF AcquireAgain, Acquire, CreateFromCount, UpdateCount, RegisterWaiter, NotifyManager,
        TryWait, DropManaged
  <2>. QED
    BY <1>0, <1>1, <2>1, <2>2
<1>10. ASSUME NEW c \in Client, Answered(c) \/ AbandonWaiter(c) PROVE Stowed'
  <2>1. /\ UNCHANGED <<lock, idle_queue>> /\ pc[c] = "waiting" /\ pc'[c] # "recheck"
        /\ \A u \in Thread \ {c} : pc'[u] = pc[u] /\ hand'[u] = hand[u]
    BY <1>0, <1>10 DEF Answered, AbandonWaiter, Resolved, TypeOK
  <2>. QED
    BY <1>0, <1>1, <2>1
<1>11. ASSUME NEW c \in Client, Peek(c) \/ Discard(c) PROVE Stowed'
  <2>1. /\ pc[c] \in Guarded /\ hand[c] \in Lock /\ UNCHANGED <<idle_queue, hand>>
        /\ \A u \in Thread \ {c} : pc'[u] = pc[u]
    BY <1>0, <1>11 DEF Peek, Resolved, Discard, PlacedAt, Handling, Guarded, TypeOK
  <2>2. pc'[c] # "recheck"
    BY <1>0, <1>11 DEF Peek, Resolved, Discard, TypeOK
  <2>3. /\ \A m \in Lock \ {hand[c]} : lock'[m] = lock[m]
        /\ lock'[hand[c]].state = lock[hand[c]].state
    <3>1. \/ lock' = lock
          \/ lock' = [lock EXCEPT ![hand[c]].expired = TRUE]
          \/ lock' = [lock EXCEPT ![hand[c]].reusable = FALSE]
      BY <1>11 DEF Peek, Discard
    <3>. QED
      BY <2>1, <3>1, Wrote DEF TypeOK
  <2>. QED
    BY <1>0, <1>2, <2>1, <2>2, <2>3
<1>12. ASSUME NEW t \in Client \cup Worker, EndCreate(t) \/ EndVerify(t) PROVE Stowed'
  <2>1. /\ t \in Thread /\ pc[t] \in Guarded /\ hand[t] \in Lock /\ UNCHANGED <<idle_queue, hand>>
        /\ \A u \in Thread \ {t} : pc'[u] = pc[u]
    BY <1>0, <1>12
    DEF EndCreate, EndVerify, Complete, Fail, Resolved, PlacedAt, Handling, Guarded, TypeOK
  <2>2. pc'[t] # "recheck"
    BY <1>12, <2>1 DEF EndCreate, EndVerify, Complete, Fail, Resolved, TypeOK
  <2>3. \E b \in BOOLEAN : \/ lock' = lock
                           \/ lock' = [lock EXCEPT ![hand[t]].full = b]
                           \/ lock' = [lock EXCEPT ![hand[t]].expired = b]
    BY <1>12 DEF EndCreate, EndVerify
  <2>4. /\ \A m \in Lock \ {hand[t]} : lock'[m] = lock[m]
        /\ lock'[hand[t]].state = lock[hand[t]].state
    BY <2>1, <2>3, Wrote DEF TypeOK
  <2>. QED
    BY <1>2, <2>1, <2>2, <2>4
<1>13. ASSUME NEW c \in Client, Create(c) PROVE Stowed'
  <2>1. PICK l \in FreshLock :
          /\ lock' = [lock EXCEPT ![l] = [state |-> "HELD", full |-> FALSE,
                                          reusable |-> IdleTimeout, expired |-> FALSE]]
          /\ Hold(c, l)
    BY <1>13 DEF Create
  <2>2. l \in Lock /\ lock[l].state # "HELD"
    BY <2>1, FreshOpen
  <2>3. /\ c \in Thread /\ pc[c] = "create" /\ pc'[c] = "creating"
        /\ \A u \in Thread \ {c} : pc'[u] = pc[u] /\ hand'[u] = hand[u]
        /\ UNCHANGED idle_queue
    BY <1>0, <1>13, <2>1 DEF Create, TypeOK
  <2>4. lock'[l].state = "HELD" /\ \A m \in Lock \ {l} : lock'[m] = lock[m]
    BY <2>1, <2>2 DEF TypeOK
  <2>5. Wrought(c)
    BY <2>2, <2>4 DEF Wrought
  <2>. QED
    BY <2>3, <2>5, StowedBy
<1>14. ASSUME NEW c \in Client, AbandonFuture(c) PROVE Stowed'
  <2>1. PICK w \in Worker : /\ pc[w] = "idle" /\ pc[c] \in {"creating", "verifying"}
                           /\ pc' = [pc EXCEPT ![w] = pc[c], ![c] = "idle"]
                           /\ hand' = [hand EXCEPT ![w] = hand[c], ![c] = NoLock]
    BY <1>14 DEF AbandonFuture
  <2>2. w # c /\ c \in Thread /\ w \in Thread /\ UNCHANGED <<lock, idle_queue>>
    BY <1>0, <1>14, <2>1 DEF AbandonFuture
  <2>3. /\ pc'[w] = pc[c] /\ pc'[c] = "idle"
        /\ \A u \in Thread \ {w, c} : pc'[u] = pc[u] /\ hand'[u] = hand[u]
    BY <2>1, <2>2 DEF TypeOK
  <2>4. \A m \in Lock : Near(m) => Near(m)'
    BY <2>1, <2>2, <2>3 DEF Near
  <2>5. \A u \in Thread : pc'[u] = "recheck" => lock'[hand'[u]].full
    BY <2>1, <2>2, <2>3 DEF Stowed
  <2>. QED
    BY <2>2, <2>4, <2>5 DEF Stowed
\* What changes nothing of the threads, the locks or the queue.
<1>15. ASSUME UNCHANGED <<lock, hand, idle_queue>>, \A u \in Thread : pc'[u] = pc[u]
       PROVE  Stowed'
  BY <1>15 DEF Stowed, Near
<1>16. ASSUME NEW t \in Client \cup Drainer, Dropping(t) \/ DropHandle(t) PROVE Stowed'
  BY <1>15, <1>16 DEF Dropping, ShutDown, ShutDownNotify, Uncount, DropHandle
<1>17. ASSUME NEW d \in Drainer, Drain(d) \/ DrainNotify(d) PROVE Stowed'
  <2>1. \A u \in Thread : u # d
    BY NamesAssumption DEF Thread
  <2>. QED
    BY <1>15, <1>17, <2>1 DEF Drain, DrainNotify, TypeOK
\* The manager.
<1>18. CASE VerifyTimer
  <2>1. pc[Manager] = "timers" /\ UNCHANGED <<letter, idle_queue>>
    BY <1>18 DEF VerifyTimer
  <2>2. CASE UNCHANGED <<lock, repo, pc, back, hand>>
    BY <1>15, <2>1, <2>2
  <2>3. ASSUME NEW old \in Lock, NEW new \in FreshLock, old # new, Moved(old, new)
        PROVE  Stowed'
    <3>1. new \in Lock /\ lock[new].state # "HELD" /\ lock[old].state # "HELD"
      BY <2>3, FreshOpen DEF Moved
    <3>2. /\ lock'[new].state = "HELD" /\ lock'[old] = Empty
          /\ \A m \in Lock \ {old, new} : lock'[m] = lock[m]
      <4>1. lock' = [lock EXCEPT ![new] = [lock[old] EXCEPT !.state = "HELD"], ![old] = Empty]
        BY <2>3 DEF Moved
      <4>2. [lock[old] EXCEPT !.state = "HELD"].state = "HELD"
        BY <2>3 DEF TypeOK, ResourceLock
      <4>. QED
        BY <2>3, <3>1, <4>1, <4>2 DEF TypeOK
    <3>3. \A t \in Thread : Wrought(t)
      BY <3>1, <3>2 DEF Wrought, Empty
    <3>4. ASSUME NEW t \in Thread, pc[t] \in {"idle", "timers"}, Hold(t, new),
                 \E next \in {"verifying", "dispose", "release"} : Goto(t, next)
          PROVE  Stowed'
      <4>1. /\ pc'[t] \in {"verifying", "dispose", "release"}
            /\ \A u \in Thread \ {t} : pc'[u] = pc[u] /\ hand'[u] = hand[u]
        BY <3>4 DEF TypeOK
      <4>. QED
        BY <2>1, <3>3, <3>4, <4>1, StowedBy
    <3>5. CASE \E w \in Worker :
                 pc[w] = "idle" /\ Goto(w, "verifying") /\ Hold(w, new) /\ UNCHANGED back
      BY <1>0, <3>4, <3>5
    <3>6. CASE /\ Hold(Manager, new)
               /\ Call(Manager, "dispose", "timers") \/ Call(Manager, "release", "timers")
      BY <1>0, <2>1, <3>4, <3>6
    <3>. QED
      BY <2>3, <3>5, <3>6 DEF Moved
  <2>. QED
    BY <1>18, <2>2, <2>3, Fired
<1>19. CASE WaiterTimer
  BY <1>15, <1>19 DEF WaiterTimer
<1>20. CASE DrainTimer
  <2>1. PICK i \in DOMAIN timers :
          timers[i].kind = "drain" /\ Goto(timers[i].of, WhenUndrained(timers[i].of))
    BY <1>20 DEF DrainTimer
  <2>2. timers[i].of \in Drainer
    BY <2>1, EntryOf DEF TypeOK
  <2>3. \A u \in Thread : u # timers[i].of
    BY <2>2, NamesAssumption DEF Thread
  <2>. QED
    BY <1>15, <1>20, <2>1, <2>3 DEF DrainTimer, TypeOK
<1>21. CASE \/ Listen \/ TakeEvents \/ TakeRegisters \/ CheckState \/ Park
            \/ CheckWaiters \/ SkipWaiter \/ CountServed \/ Send
  <2>1. /\ pc[Manager] \in {"timers", "events", "registers", "state", "park", "waiters", "skip",
                            "decrement", "send"}
        /\ UNCHANGED <<lock, idle_queue>>
        /\ \A u \in Thread \ {Manager} : hand'[u] = hand[u]
    BY <1>0, <1>21
    DEF Listen, TakeEvents, TakeRegisters, CheckState, Park, CheckWaiters, SkipWaiter,
        CountServed, DecrementWaiters, Send, TypeOK
  <2>2. \E next : Goto(Manager, next) /\ next # "recheck"
    <3>1. \A list, l : NextWaiter(list, l) # "recheck"
      BY DEF NextWaiter
    <3>. QED
      BY <1>21, <3>1
      DEF Listen, TakeEvents, TakeRegisters, CheckState, Park, CheckWaiters, SkipWaiter,
          CountServed, DecrementWaiters, Send
  <2>3. pc'[Manager] # "recheck" /\ \A u \in Thread \ {Manager} : pc'[u] = pc[u]
    BY <1>0, <2>2 DEF TypeOK
  <2>. QED
    BY <1>0, <1>1, <2>1, <2>3
<1>22. CASE DrainLock
  <2>1. PICK l \in todo :
          /\ lock' = [lock EXCEPT ![l].state = "HELD"]
          /\ IF lock[l].state = "HELD"
               THEN UNCHANGED <<pc, back, hand>>
               ELSE Hold(Manager, l) /\ Call(Manager, "dispose", "drain")
    BY <1>22 DEF DrainLock
  <2>2. l \in Lock /\ pc[Manager] = "drain" /\ UNCHANGED idle_queue
    BY <1>22 DEF TypeOK, DrainLock
  <2>3. /\ lock'[l].state = "HELD" /\ lock'[l].full = lock[l].full
        /\ \A m \in Lock \ {l} : lock'[m] = lock[m]
    BY <2>1, <2>2, Wrote DEF TypeOK
  <2>4. Wrought(Manager)
    BY <2>3 DEF Wrought
  <2>5. /\ pc'[Manager] \in {"drain", "dispose"}
        /\ \A u \in Thread \ {Manager} : pc'[u] = pc[u] /\ hand'[u] = hand[u]
    BY <1>0, <2>1, <2>2 DEF TypeOK
  <2>. QED
    BY <1>0, <2>2, <2>4, <2>5, StowedBy
<1>23. CASE DrainRetain
  <2>1. /\ \A u \in Thread \ {Manager} : pc'[u] = pc[u]
        /\ pc[Manager] = "drain" /\ pc'[Manager] \in {"park", "stopped"}
    <3>1. CASE Present # {}
      BY <1>0, <1>23, <3>1 DEF DrainRetain, TypeOK
    <3>2. CASE Present = {}
      <4>1. /\ DOMAIN pc = Thread \cup Drainer
            /\ pc' = [t \in DOMAIN pc |->
                        IF t = Manager THEN "stopped"
                        ELSE IF t \in Named(timers) THEN WhenDrained(t) ELSE pc[t]]
        BY <1>23, <3>2 DEF DrainRetain, TypeOK
      <4>2. \A u \in Thread : u \notin Named(timers)
        BY NamedType, NamesAssumption DEF TypeOK, Thread
      <4>. QED
        BY <1>0, <1>23, <4>1, <4>2 DEF DrainRetain
    <3>. QED
      BY <3>1, <3>2
  <2>2. UNCHANGED <<hand, lock, idle_queue>>
    BY <1>23 DEF DrainRetain
  <2>. QED
    BY <1>0, <1>1, <2>1, <2>2
<1>24. CASE UNCHANGED vars
  BY <1>15, <1>24 DEF vars
<1>. QED
  BY <1>0, <1>3, <1>4, <1>5, <1>6, <1>7, <1>8, <1>9, <1>10, <1>11, <1>12, <1>13, <1>14, <1>16,
     <1>17, <1>18, <1>19, <1>20, <1>21, <1>22, <1>23, <1>24
  DEF Next, ClientStep, ClientChoice, WorkerStep, DrainerStep, ManagerStep, Releasing

-----------------------------------------------------------------------------
(* Who is handed a resource has one. *)

\* There are neither guards nor letters at first.
LEMMA HandedInit == Init => Handed
  BY NamesAssumption DEF Init, Handed, HandedAt, Thread

\* A step of thread t that writes no lock but its own, or one that nobody has.
LEMMA HandedKeeps ==
  ASSUME TypeOK, Placed, Exclusive, Handed, NEW t \in Thread,
         \A u \in Thread \ {t} : pc'[u] = pc[u] /\ hand'[u] = hand[u],
         HandedAt(t)',
         \A k \in Ticket :
            letter'[k] \in Lock => letter'[k] = letter[k] \/ lock'[letter'[k]].full,
         \A l \in Lock : lock'[l].full = lock[l].full \/ Guards(l) \subseteq {t}
  PROVE  Handed'
<1>1. ASSUME NEW u \in Thread \ {t} PROVE HandedAt(u)'
  <2>1. HandedAt(u) /\ PlacedAt(u)
    BY DEF Handed, Placed
  <2>2. /\ pc[u] \in {"peek", "verifying", "managed", "send", "creating", "dispose_count",
                      "unlock"} => hand[u] \in Lock /\ GuardOf(u)
        /\ u = Manager /\ pc[u] \in {"skip", "decrement"} /\ hand[u] # NoLock
             => hand[u] \in Lock /\ GuardOf(u)
    BY <2>1 DEF PlacedAt, Handling, Guarded, GuardOf, TypeOK
  <2>3. hand[u] \in Lock /\ GuardOf(u) => lock'[hand[u]].full = lock[hand[u]].full
    BY <1>1, GuardHolds
  <2>. QED
    BY <1>1, <2>1, <2>2, <2>3 DEF HandedAt
<1>2. ASSUME NEW k \in Ticket, letter'[k] \in Lock PROVE lock'[letter'[k]].full
  <2>1. SUFFICES ASSUME letter'[k] = letter[k] PROVE lock'[letter'[k]].full
    BY <1>2
  <2>2. letter[k] \in Lock /\ lock[letter[k]].full
    BY <1>2, <2>1 DEF Handed
  <2>3. k \in Guards(letter[k]) /\ k # t
    BY NamesAssumption DEF Guards, Thread
  <2>. QED
    BY <2>1, <2>2, <2>3
<1>. QED
  BY <1>1, <1>2 DEF Handed

\* A resource stays where it is until it is disposed of, and disposed of but once.
LEMMA HandedStep ==
  TypeOK /\ TypeOK' /\ Placed /\ Exclusive /\ Stowed /\ Handed /\ [Next]_vars => Handed'
<1>. SUFFICES ASSUME TypeOK, TypeOK', Placed, Exclusive, Stowed, Handed, [Next]_vars
              PROVE  Handed'
  OBVIOUS
<1>0. /\ Client \subseteq Thread /\ Worker \subseteq Thread /\ Manager \in Thread
      /\ Manager \notin Client /\ Manager \notin Worker
      /\ Thread \cap Drainer = {} /\ Client \cap Worker = {}
      /\ \A u \in Thread : PlacedAt(u) /\ HandedAt(u)
      /\ "pending" \notin Lock /\ "taken" \notin Lock
  BY NamesAssumption DEF Thread, Placed, Handed
<1>. USE DEF counters, queues, client, manager, Goto, Call, Return, Hold, LetGo
\* What changes none of this.
<1>1. ASSUME UNCHANGED <<lock, hand>>,
             \A k \in Ticket : letter'[k] \in Lock => letter'[k] = letter[k],
             \A u \in Thread : pc'[u] = pc[u]
      PROVE  Handed'
  BY <1>0, <1>1 DEF Handed, HandedAt
\* A step of t that leaves the locks alone.
<1>2. ASSUME NEW t \in Thread, UNCHANGED lock, HandedAt(t)',
             \A k \in Ticket :
                letter'[k] \in Lock => letter'[k] = letter[k] \/ lock[letter'[k]].full,
             \A u \in Thread \ {t} : pc'[u] = pc[u] /\ hand'[u] = hand[u]
      PROVE  Handed'
  BY <1>0, <1>2, HandedKeeps
\* A thread that has the guard has it alone.
<1>3. ASSUME NEW t \in Thread, pc[t] \in Guarded
      PROVE  hand[t] \in Lock /\ Guards(hand[t]) = {t}
  BY <1>0, <1>3, GuardHolds DEF PlacedAt, Handling, GuardOf
<1>4. ASSUME NEW t \in Thread, Release(t) \/ ReleaseRecheck(t) PROVE Handed'
  <2>1. /\ pc[t] \in {"release", "recheck"} /\ pc'[t] \in {"recheck", "return", "dispose"}
        /\ \A u \in Thread \ {t} : pc'[u] = pc[u]
        /\ UNCHANGED <<hand, letter>>
    BY <1>0, <1>4 DEF Release, ReleaseRecheck, KeepOr, TypeOK
  <2>2. hand[t] \in Lock
    BY <1>3, <2>1 DEF Guarded
  <2>3. lock' = lock \/ lock' = [lock EXCEPT ![hand[t]].state = "SOME"]
    BY <1>4 DEF Release, ReleaseRecheck, KeepOr
  <2>4. \A m \in Lock : lock'[m].full = lock[m].full
    <3>1. CASE lock' = lock
      BY <3>1
    <3>2. CASE lock' = [lock EXCEPT ![hand[t]].state = "SOME"]
      BY <1>0, <2>2, <3>2, Wrote DEF TypeOK
    <3>. QED
      BY <2>3, <3>1, <3>2
  <2>5. HandedAt(t)'
    BY <2>1 DEF HandedAt
  <2>. QED
    BY <1>0, <2>1, <2>4, <2>5, HandedKeeps
<1>5. ASSUME NEW t \in Thread, ReleaseReturn(t) \/ ReleaseTell(t) PROVE Handed'
  <2>1. /\ pc'[t] \in {"tell"} \cup Resumed(t) /\ UNCHANGED <<lock, letter>>
        /\ \A u \in Thread \ {t} : pc'[u] = pc[u] /\ hand'[u] = hand[u]
    BY <1>0, <1>5 DEF ReleaseReturn, ReleaseTell, PlacedAt, Leaving, TypeOK
  <2>2. HandedAt(t)'
    BY <2>1 DEF HandedAt, Resumed
  <2>. QED
    BY <1>2, <2>1, <2>2
<1>6. ASSUME NEW t \in Thread, Dispose(t) \/ UnlockNone(t) PROVE Handed'
  <2>. DEFINE l == hand[t]
  <2>1. /\ pc[t] \in {"dispose", "unlock"} /\ UNCHANGED letter
        /\ \A u \in Thread \ {t} : pc'[u] = pc[u] /\ hand'[u] = hand[u]
    BY <1>0, <1>6 DEF Dispose, UnlockNone, TypeOK
  <2>2. l \in Lock /\ Guards(l) = {t}
    BY <1>3, <2>1 DEF Guarded
  <2>3. ~lock'[l].full /\ \A m \in Lock \ {l} : lock'[m] = lock[m]
    <3>1. CASE lock' = [lock EXCEPT ![l].full = FALSE]
      BY <1>0, <2>2, <3>1, Wrote DEF TypeOK
    <3>2. CASE lock' = [lock EXCEPT ![l] = Empty]
      BY <1>0, <2>2, <3>2 DEF TypeOK, Empty
    <3>. QED
      BY <1>6, <3>1, <3>2 DEF Dispose, UnlockNone
  <2>4. HandedAt(t)'
    <3>1. CASE Dispose(t)
      BY <1>0, <2>2, <2>3, <3>1 DEF Dispose, HandedAt, TypeOK
    <3>2. CASE UnlockNone(t)
      <4>1. pc'[t] \in Resumed(t)
        BY <1>0, <3>2 DEF UnlockNone, PlacedAt, Leaving, TypeOK
      <4>. QED
        BY <4>1 DEF HandedAt, Resumed
    <3>. QED
      BY <1>6, <3>1, <3>2
  <2>. QED
    BY <1>0, <2>1, <2>2, <2>3, <2>4, HandedKeeps
<1>7. ASSUME NEW t \in Thread, DisposeTell(t) PROVE Handed'
  <2>1. /\ pc[t] = "dispose_count" /\ pc'[t] = "unlock" /\ UNCHANGED <<lock, letter, hand>>
        /\ \A u \in Thread \ {t} : pc'[u] = pc[u]
    BY <1>0, <1>7 DEF DisposeTell, TypeOK
  <2>2. HandedAt(t)'
    BY <1>0, <2>1 DEF HandedAt
  <2>. QED
    BY <1>2, <2>1, <2>2
<1>8. ASSUME NEW t \in Client \cup {Manager}, PopIdle(t) PROVE Handed'
  <2>1. /\ t \in Thread /\ pc'[t] \in {"state", "count", "lock"} /\ UNCHANGED <<lock, letter>>
        /\ \A u \in Thread \ {t} : pc'[u] = pc[u] /\ hand'[u] = hand[u]
    BY <1>0, <1>8 DEF PopIdle, TypeOK
  <2>2. HandedAt(t)'
    BY <2>1 DEF HandedAt
  <2>. QED
    BY <1>2, <2>1, <2>2
<1>9. ASSUME NEW t \in Client \cup {Manager}, LockIdle(t) PROVE Handed'
  <2>. DEFINE l == hand[t]
  <2>1. /\ t \in Thread /\ pc[t] = "lock" /\ UNCHANGED letter
        /\ lock' = [lock EXCEPT ![l].state = "HELD"]
    BY <1>0, <1>9 DEF LockIdle
  <2>2. l \in Lock
    BY <1>0, <2>1 DEF PlacedAt, Handling
  <2>3. \A u \in Thread \ {t} : pc'[u] = pc[u] /\ hand'[u] = hand[u]
    BY <1>0, <1>9 DEF LockIdle, TypeOK
  <2>4. \A m \in Lock : lock'[m].full = lock[m].full
    <3>1. lock \in [Lock -> ResourceLock]
      BY <1>0 DEF TypeOK
    <3>. HIDE DEF l
    <3>. QED
      BY <2>1, <2>2, <3>1, Wrote
  <2>5. \/ pc'[t] = "pop"
        \/ hand'[t] = l /\ pc'[t] = IF lock[l].full
                                      THEN IF t = Manager THEN "send" ELSE "peek" ELSE "unlock"
    BY <1>0, <1>9, <2>1 DEF LockIdle, TypeOK
  <2>6. HandedAt(t)'
    BY <2>1, <2>2, <2>4, <2>5 DEF HandedAt
  <2>. QED
    BY <1>0, <2>1, <2>3, <2>4, <2>6, HandedKeeps
\* Clients.
<1>10. ASSUME NEW c \in Client,
              \/ AcquireAgain(c) \/ Acquire(c) \/ CreateFromCount(c) \/ UpdateCount(c)
              \/ RegisterWaiter(c) \/ NotifyManager(c)
       PROVE  Handed'
  <2>1. UNCHANGED <<lock, letter, hand>>
    BY <1>10
    DEF AcquireAgain, Acquire, CheckBusy, CreateFromCount, UpdateCount, RegisterWaiter,
        NotifyManager
  <2>2. /\ c \in Thread
        /\ pc'[c] \in {"pop", "count", "cas", "wait", "create", "notify", "notify again", "waiting"}
        /\ \A u \in Thread \ {c} : pc'[u] = pc[u]
    <3>1. CASE AcquireAgain(c) \/ Acquire(c) \/ CreateFromCount(c) \/ UpdateCount(c)
      BY <1>0, <3>1 DEF AcquireAgain, Acquire, CheckBusy, CreateFromCount, UpdateCount, TypeOK
    <3>2. CASE RegisterWaiter(c) \/ NotifyManager(c)
      BY <1>0, <3>2 DEF RegisterWaiter, NotifyManager, TypeOK
    <3>. QED
      BY <1>10, <3>1, <3>2
  <2>3. HandedAt(c)'
    BY <2>2 DEF HandedAt
  <2>. QED
    BY <1>2, <2>1, <2>2, <2>3
<1>11. ASSUME NEW c \in Client, TryWait(c) PROVE Handed'
  <2>1. /\ c \in Thread /\ pc'[c] \in {"register", "idle"} /\ UNCHANGED <<lock, hand>>
        /\ \A u \in Thread \ {c} : pc'[u] = pc[u]
    BY <1>0, <1>11 DEF TryWait, TypeOK
  <2>2. letter' = letter \/ \E k \in Ticket : letter' = [letter EXCEPT ![k] = "pending"]
    BY <1>11 DEF TryWait, FreshTicket
  <2>3. \A k \in Ticket : letter'[k] \in Lock => letter'[k] = letter[k]
    BY <1>0, <2>2 DEF TypeOK
  <2>4. HandedAt(c)'
    BY <2>1 DEF HandedAt
  <2>. QED
    BY <1>2, <2>1, <2>3, <2>4
<1>12. ASSUME NEW c \in Client, DropManaged(c) \/ Peek(c) PROVE Handed'
  <2>1. /\ pc[c] \in {"managed", "peek"} /\ pc'[c] \in {"release", "managed", "verifying"}
        /\ c \in Thread /\ UNCHANGED <<letter, hand>>
        /\ \A u \in Thread \ {c} : pc'[u] = pc[u]
    BY <1>0, <1>12 DEF DropManaged, Peek, Resolved, TypeOK
  <2>2. hand[c] \in Lock /\ lock[hand[c]].full
    BY <1>0, <1>3, <2>1 DEF Guarded, HandedAt
  <2>3. \A m \in Lock : lock'[m].full = lock[m].full
    <3>1. lock' = lock \/ lock' = [lock EXCEPT ![hand[c]].expired = TRUE]
      BY <1>12 DEF DropManaged, Peek
    <3>2. CASE lock' = [lock EXCEPT ![hand[c]].expired = TRUE]
      <4>1. lock \in [Lock -> ResourceLock]
        BY DEF TypeOK
      <4>2. /\ \A m \in Lock \ {hand[c]} : lock'[m] = lock[m]
            /\ lock'[hand[c]].full = lock[hand[c]].full
        BY <2>2, <3>2, <4>1, Wrote
      <4>. QED
        BY <4>2
    <3>. QED
      BY <3>1, <3>2
  <2>4. HandedAt(c)'
    BY <1>0, <2>1, <2>2, <2>3 DEF HandedAt
  <2>. QED
    BY <1>0, <2>1, <2>3, <2>4, HandedKeeps
<1>13. ASSUME NEW c \in Client, Discard(c) PROVE Handed'
  <2>1. /\ pc[c] = "managed" /\ c \in Thread /\ UNCHANGED <<pc, letter, hand>>
        /\ lock' = [lock EXCEPT ![hand[c]].reusable = FALSE]
    BY <1>0, <1>13 DEF Discard
  <2>2. hand[c] \in Lock
    BY <1>3, <2>1 DEF Guarded
  <2>3. \A m \in Lock : lock'[m].full = lock[m].full
    BY <1>0, <2>1, <2>2, Wrote DEF TypeOK
  <2>4. HandedAt(c)'
    BY <1>0, <2>1, <2>2, <2>3 DEF HandedAt
  <2>. QED
    BY <1>0, <2>1, <2>3, <2>4, HandedKeeps
<1>14. ASSUME NEW c \in Client, Answered(c) \/ AbandonWaiter(c) PROVE Handed'
  <2>1. /\ c \in Thread /\ pc[c] = "waiting" /\ ticket[c] \in Ticket /\ UNCHANGED lock
    BY <1>0, <1>14 DEF Answered, AbandonWaiter, PlacedAt
  <2>2. letter' = letter \/ letter' = [letter EXCEPT ![ticket[c]] = "taken"]
    BY <1>14 DEF Answered, AbandonWaiter
  <2>3. \A k \in Ticket : letter'[k] \in Lock => letter'[k] = letter[k]
    BY <1>0, <2>1, <2>2 DEF TypeOK
  <2>4. \A u \in Thread \ {c} : pc'[u] = pc[u] /\ hand'[u] = hand[u]
    BY <1>0, <1>14, <2>1 DEF Answered, AbandonWaiter, Resolved, TypeOK
  <2>5. \/ pc'[c] = "idle"
        \/ /\ pc'[c] \in {"release", "managed"} /\ hand'[c] = letter[ticket[c]]
           /\ letter[ticket[c]] \in Lock
    BY <1>0, <1>14, <2>1 DEF Answered, AbandonWaiter, Resolved, TypeOK
  <2>6. letter[ticket[c]] \in Lock => lock[letter[ticket[c]]].full
    BY <2>1 DEF Handed
  <2>7. HandedAt(c)'
    BY <1>0, <2>1, <2>5, <2>6 DEF HandedAt
  <2>. QED
    BY <1>2, <2>1, <2>3, <2>4, <2>7
<1>15. ASSUME NEW t \in Client \cup Worker, EndCreate(t) PROVE Handed'
  <2>. DEFINE l == hand[t]
  <2>1. /\ t \in Thread /\ pc[t] = "creating" /\ UNCHANGED <<hand, letter>>
        /\ \A u \in Thread \ {t} : pc'[u] = pc[u]
    BY <1>0, <1>15 DEF EndCreate, Complete, Fail, Resolved, TypeOK
  <2>2. l \in Lock /\ Guards(l) = {t} /\ ~lock[l].full
    BY <1>0, <1>3, <2>1 DEF Guarded, HandedAt
  <2>3. CASE lock' = [lock EXCEPT ![l].full = TRUE] /\ Complete(t, FALSE)
    <3>1. lock'[l].full /\ \A m \in Lock \ {l} : lock'[m] = lock[m]
      BY <1>0, <2>2, <2>3, Wrote DEF TypeOK
    <3>2. pc'[t] \in {"managed", "release"}
      BY <1>0, <2>1, <2>3 DEF Complete, Resolved, TypeOK
    <3>3. HandedAt(t)'
      BY <2>1, <3>1, <3>2 DEF HandedAt
    <3>. QED
      BY <1>0, <2>1, <2>2, <3>1, <3>3, HandedKeeps
  <2>4. CASE lock' = lock /\ Fail(t)
    <3>1. pc'[t] = "unlock"
      BY <1>0, <2>1, <2>4 DEF Fail, TypeOK
    <3>2. HandedAt(t)'
      BY <2>1, <2>2, <2>4, <3>1 DEF HandedAt
    <3>. QED
      BY <1>2, <2>1, <2>4, <3>2
  <2>. QED
    BY <1>15, <2>3, <2>4 DEF EndCreate
<1>16. ASSUME NEW t \in Client \cup Worker, EndVerify(t) PROVE Handed'
  <2>. DEFINE l == hand[t]
  <2>1. /\ t \in Thread /\ pc[t] = "verifying" /\ UNCHANGED <<hand, letter>>
        /\ \A u \in Thread \ {t} : pc'[u] = pc[u]
    BY <1>0, <1>16 DEF EndVerify, Complete, Fail, Resolved, TypeOK
  <2>2. l \in Lock /\ Guards(l) = {t} /\ lock[l].full
    BY <1>0, <1>3, <2>1 DEF Guarded, HandedAt
  <2>3. CASE Fail(t) /\ lock' = [lock EXCEPT ![l].full = FALSE]
    <3>1. ~lock'[l].full /\ \A m \in Lock \ {l} : lock'[m] = lock[m]
      BY <1>0, <2>2, <2>3, Wrote DEF TypeOK
    <3>2. pc'[t] = "unlock"
      BY <1>0, <2>1, <2>3 DEF Fail, TypeOK
    <3>3. HandedAt(t)'
      BY <2>1, <3>1, <3>2 DEF HandedAt
    <3>. QED
      BY <1>0, <2>1, <2>2, <3>1, <3>3, HandedKeeps
  <2>4. ASSUME NEW b \in BOOLEAN, lock' = [lock EXCEPT ![l].expired = b], Complete(t, b)
        PROVE  Handed'
    <3>1. \A m \in Lock : lock'[m].full = lock[m].full
      <4>1. /\ \A m \in Lock \ {l} : lock'[m] = lock[m]
            /\ lock'[l].full = lock[l].full
        BY <1>0, <2>2, <2>4, Wrote DEF TypeOK
      <4>. QED
        BY <4>1
    <3>2. pc'[t] \in {"managed", "release"}
      BY <1>0, <2>1, <2>4 DEF Complete, Resolved, TypeOK
    <3>3. HandedAt(t)'
      BY <2>1, <2>2, <3>1, <3>2 DEF HandedAt
    <3>. QED
      BY <1>0, <2>1, <3>1, <3>3, HandedKeeps
  <2>. QED
    BY <1>16, <2>3, <2>4 DEF EndVerify
<1>17. ASSUME NEW c \in Client, Create(c) PROVE Handed'
  <2>1. PICK l \in FreshLock :
          /\ lock' = [lock EXCEPT ![l] = [state |-> "HELD", full |-> FALSE,
                                          reusable |-> IdleTimeout, expired |-> FALSE]]
          /\ Hold(c, l)
    BY <1>17 DEF Create
  <2>2. l \in Lock /\ Guards(l) = {}
    BY <1>0, FreshOpen
  <2>3. /\ c \in Thread /\ pc'[c] = "creating" /\ hand'[c] = l /\ UNCHANGED letter
        /\ \A u \in Thread \ {c} : pc'[u] = pc[u] /\ hand'[u] = hand[u]
    BY <1>0, <1>17, <2>1 DEF Create, TypeOK
  <2>4. ~lock'[l].full /\ \A m \in Lock \ {l} : lock'[m] = lock[m]
    BY <1>0, <2>1, <2>2 DEF TypeOK
  <2>5. HandedAt(c)'
    BY <2>3, <2>4 DEF HandedAt
  <2>. QED
    BY <1>0, <2>2, <2>3, <2>4, <2>5, HandedKeeps
<1>18. ASSUME NEW c \in Client, AbandonFuture(c) PROVE Handed'
  <2>1. PICK w \in Worker : /\ pc[w] = "idle" /\ pc[c] \in {"creating", "verifying"}
                           /\ pc' = [pc EXCEPT ![w] = pc[c], ![c] = "idle"]
                           /\ hand' = [hand EXCEPT ![w] = hand[c], ![c] = NoLock]
    BY <1>18 DEF AbandonFuture
  <2>2. w # c /\ c \in Thread /\ w \in Thread /\ UNCHANGED <<lock, letter>>
    BY <1>0, <1>18, <2>1 DEF AbandonFuture
  <2>3. /\ pc'[w] = pc[c] /\ pc'[c] = "idle" /\ hand'[w] = hand[c]
        /\ \A u \in Thread \ {w, c} : pc'[u] = pc[u] /\ hand'[u] = hand[u]
    BY <1>0, <2>1, <2>2 DEF TypeOK
  <2>4. HandedAt(c)' /\ HandedAt(w)' /\ \A u \in Thread \ {w, c} : HandedAt(u)'
    BY <1>0, <2>1, <2>2, <2>3 DEF HandedAt
  <2>. QED
    BY <2>2, <2>4 DEF Handed
<1>19. ASSUME NEW t \in Client \cup Drainer, Dropping(t) \/ DropHandle(t) PROVE Handed'
  BY <1>1, <1>19 DEF Dropping, ShutDown, ShutDownNotify, Uncount, DropHandle
<1>20. ASSUME NEW d \in Drainer, Drain(d) \/ DrainNotify(d) PROVE Handed'
  <2>1. d \notin Thread /\ UNCHANGED <<lock, hand, letter>>
    BY <1>0, <1>20 DEF Drain, DrainNotify
  <2>2. \A u \in Thread : pc'[u] = pc[u]
    BY <1>0, <1>20, <2>1 DEF Drain, DrainNotify, TypeOK
  <2>. QED
    BY <1>1, <2>1, <2>2
\* The manager.
<1>21. CASE VerifyTimer
  <2>1. /\ pc[Manager] = "timers" /\ UNCHANGED letter
        /\ \/ UNCHANGED <<lock, pc, hand>>
           \/ \E old \in Lock, new \in FreshLock : old # new /\ Moved(old, new)
    BY <1>21, Fired
  <2>2. CASE UNCHANGED <<lock, pc, hand>>
    BY <1>1, <2>1, <2>2
  <2>3. ASSUME NEW old \in Lock, NEW new \in FreshLock, old # new, Moved(old, new)
        PROVE  Handed'
    <3>1. new \in Lock /\ Guards(new) = {} /\ Guards(old) = {}
      BY <2>3, FreshOpen DEF Moved, Exclusive, OneGuard
    <3>2. /\ lock'[new].full = lock[old].full
          /\ \A m \in Lock \ {old, new} : lock'[m].full = lock[m].full
      <4>1. lock[old] \in ResourceLock
        BY <1>0 DEF TypeOK
      <4>2. [lock[old] EXCEPT !.state = "HELD"].full = lock[old].full
        BY <4>1 DEF ResourceLock
      <4>3. /\ lock'[new] = [lock[old] EXCEPT !.state = "HELD"]
            /\ \A m \in Lock \ {old, new} : lock'[m] = lock[m]
        BY <2>3, <3>1 DEF Moved, TypeOK
      <4>. QED
        BY <4>2, <4>3
    <3>3. \A m \in Lock : lock'[m].full = lock[m].full \/ Guards(m) = {}
      BY <3>1, <3>2
    <3>4. ASSUME NEW w \in Worker, lock[old].full, Goto(w, "verifying"), Hold(w, new)
          PROVE  Handed'
      <4>1. /\ pc'[w] = "verifying" /\ hand'[w] = new /\ w # Manager
            /\ \A u \in Thread \ {w} : pc'[u] = pc[u] /\ hand'[u] = hand[u]
        BY <1>0, <3>4 DEF TypeOK
      <4>2. HandedAt(w)'
        BY <3>2, <3>4, <4>1 DEF HandedAt
      <4>. QED
        BY <1>0, <2>1, <3>3, <4>1, <4>2, HandedKeeps
    <3>5. ASSUME NEW next \in {"dispose", "release"}, Goto(Manager, next), Hold(Manager, new)
          PROVE  Handed'
      <4>1. /\ pc'[Manager] = next
            /\ \A u \in Thread \ {Manager} : pc'[u] = pc[u] /\ hand'[u] = hand[u]
        BY <1>0, <3>5 DEF TypeOK
      <4>2. HandedAt(Manager)'
        BY <4>1 DEF HandedAt
      <4>. QED
        BY <1>0, <2>1, <3>3, <4>1, <4>2, HandedKeeps
    <3>. QED
      BY <2>3, <3>4, <3>5 DEF Moved
  <2>. QED
    BY <2>1, <2>2, <2>3
<1>22. CASE WaiterTimer
  <2>1. PICK k : letter' = [letter EXCEPT ![k] = IF @ = "pending" THEN "taken" ELSE @]
    BY <1>22 DEF WaiterTimer
  <2>2. \A m \in Ticket : letter'[m] \in Lock => letter'[m] = letter[m]
    BY <1>0, <2>1 DEF TypeOK
  <2>. QED
    BY <1>1, <1>22, <2>2 DEF WaiterTimer
<1>23. CASE DrainTimer
  <2>1. PICK i \in DOMAIN timers :
          timers[i].kind = "drain" /\ Goto(timers[i].of, WhenUndrained(timers[i].of))
    BY <1>23 DEF DrainTimer
  <2>2. timers[i].of \in Drainer
    BY <1>0, <2>1, EntryOf DEF TypeOK
  <2>3. \A u \in Thread : pc'[u] = pc[u]
    BY <1>0, <2>1, <2>2 DEF TypeOK
  <2>. QED
    BY <1>1, <1>23, <2>3 DEF DrainTimer
<1>24. CASE Listen \/ TakeEvents \/ TakeRegisters \/ Park \/ CheckState
  <2>1. /\ pc'[Manager] \in {"events", "registers", "waiters", "timers", "park", "drain"}
        /\ \A u \in Thread \ {Manager} : pc'[u] = pc[u]
    BY <1>0, <1>24 DEF Listen, TakeEvents, TakeRegisters, Park, CheckState, TypeOK
  <2>2. UNCHANGED <<lock, letter, hand>>
    BY <1>24 DEF Listen, TakeEvents, TakeRegisters, Park, CheckState
  <2>3. HandedAt(Manager)'
    BY <2>1 DEF HandedAt
  <2>. QED
    BY <1>0, <1>2, <2>1, <2>2, <2>3
<1>25. ASSUME NEW list, Goto(Manager, NextWaiter(list, hand[Manager])),
              UNCHANGED <<lock, letter, hand>>,
              hand[Manager] # NoLock => lock[hand[Manager]].full
       PROVE  Handed'
  <2>1. /\ pc'[Manager] = NextWaiter(list, hand[Manager])
        /\ \A u \in Thread \ {Manager} : pc'[u] = pc[u]
    BY <1>0, <1>25 DEF TypeOK
  <2>2. /\ NextWaiter(list, hand[Manager]) \in {"state", "release", "skip", "pop", "send"}
        /\ NextWaiter(list, hand[Manager]) \in {"release", "send"} => hand[Manager] # NoLock
    BY DEF NextWaiter
  <2>3. HandedAt(Manager)'
    BY <1>25, <2>1, <2>2 DEF HandedAt
  <2>. QED
    BY <1>0, <1>2, <1>25, <2>1, <2>3
<1>26. CASE CheckWaiters
  <2>1. pc[Manager] = "waiters" /\ UNCHANGED <<lock, letter, hand>>
    BY <1>26 DEF CheckWaiters
  <2>2. hand[Manager] = NoLock
    BY <1>0, <2>1 DEF PlacedAt, Handling, Guarded
  <2>3. CASE Goto(Manager, NextWaiter(waiters, NoLock))
    BY <1>25, <2>1, <2>2, <2>3
  <2>4. CASE Goto(Manager, "state")
    <3>1. pc'[Manager] = "state" /\ \A u \in Thread \ {Manager} : pc'[u] = pc[u]
      BY <1>0, <2>4 DEF TypeOK
    <3>2. HandedAt(Manager)'
      BY <3>1 DEF HandedAt
    <3>. QED
      BY <1>0, <1>2, <2>1, <3>1, <3>2
  <2>. QED
    BY <1>26, <2>3, <2>4 DEF CheckWaiters
<1>27. CASE SkipWaiter \/ CountServed
  <2>1. /\ pc[Manager] \in {"skip", "decrement"} /\ UNCHANGED <<lock, letter, hand>>
        /\ Goto(Manager, NextWaiter(waiters', hand[Manager]))
    BY <1>27 DEF SkipWaiter, CountServed, DecrementWaiters
  <2>2. hand[Manager] # NoLock => lock[hand[Manager]].full
    BY <1>0, <2>1 DEF HandedAt
  <2>. QED
    BY <1>25, <2>1, <2>2
<1>28. CASE Send
  <2>1. /\ pc[Manager] = "send" /\ pc'[Manager] = "decrement" /\ UNCHANGED lock
        /\ \A u \in Thread \ {Manager} : pc'[u] = pc[u] /\ hand'[u] = hand[u]
        /\ hand'[Manager] \in {hand[Manager], NoLock}
    BY <1>0, <1>28 DEF Send, TypeOK
  <2>2. lock[hand[Manager]].full
    BY <1>0, <2>1 DEF HandedAt
  <2>3. \E v \in {hand[Manager], "taken"} : letter' = [letter EXCEPT ![Head(waiters)] = v]
    BY <1>28 DEF Send
  <2>4. \A k \in Ticket :
           letter'[k] \in Lock => letter'[k] = letter[k] \/ lock[letter'[k]].full
    BY <1>0, <2>2, <2>3 DEF TypeOK
  <2>5. HandedAt(Manager)'
    BY <2>1, <2>2 DEF HandedAt
  <2>. QED
    BY <1>0, <1>2, <2>1, <2>4, <2>5
<1>29. CASE DrainLock
  <2>1. PICK l \in todo :
          /\ lock' = [lock EXCEPT ![l].state = "HELD"]
          /\ \/ UNCHANGED <<pc, hand>>
             \/ Hold(Manager, l) /\ Goto(Manager, "dispose")
    BY <1>29 DEF DrainLock
  <2>2. l \in Lock /\ pc[Manager] = "drain" /\ UNCHANGED letter
    BY <1>29 DEF DrainLock, TypeOK
  <2>3. \A m \in Lock : lock'[m].full = lock[m].full
    <3>1. lock \in [Lock -> ResourceLock]
      BY DEF TypeOK
    <3>2. \A m \in Lock \ {l} : lock'[m] = lock[m]
      BY <2>1, <2>2, <3>1, Wrote
    <3>3. lock'[l].full = lock[l].full
      BY <2>1, <2>2, <3>1, Wrote
    <3>. QED
      BY <3>2, <3>3
  <2>4. /\ pc'[Manager] \in {"drain", "dispose"}
        /\ \A u \in Thread \ {Manager} : pc'[u] = pc[u] /\ hand'[u] = hand[u]
    BY <1>0, <2>1, <2>2 DEF TypeOK
  <2>5. HandedAt(Manager)'
    BY <2>4 DEF HandedAt
  <2>. QED
    BY <1>0, <2>2, <2>3, <2>4, <2>5, HandedKeeps
<1>31. CASE DrainRetain
  <2>1. /\ pc[Manager] = "drain" /\ UNCHANGED <<lock, hand>>
        /\ \/ Goto(Manager, "park") /\ UNCHANGED letter
           \/ /\ pc' = [t \in DOMAIN pc |->
                            IF t = Manager THEN "stopped"
                            ELSE IF t \in Named(timers) THEN WhenDrained(t) ELSE pc[t]]
              /\ letter' = [k \in Ticket |->
                              IF letter[k] = "pending"
                                   /\ k \in Named(timers) \cup Range(waiters)
                                THEN "taken" ELSE letter[k]]
    BY <1>31 DEF DrainRetain
  <2>2. \A u \in Thread : u \notin Named(timers)
    BY NamedType, NamesAssumption DEF Thread, TypeOK
  <2>3. /\ pc'[Manager] \in {"park", "stopped"}
        /\ \A u \in Thread \ {Manager} : pc'[u] = pc[u] /\ hand'[u] = hand[u]
    BY <1>0, <2>1, <2>2 DEF TypeOK
  <2>4. \A k \in Ticket : letter'[k] \in Lock => letter'[k] = letter[k]
    BY <1>0, <2>1
  <2>5. HandedAt(Manager)'
    BY <2>3 DEF HandedAt
  <2>. QED
    BY <1>0, <1>2, <2>1, <2>3, <2>4, <2>5
<1>30. CASE UNCHANGED vars
  BY <1>1, <1>30 DEF vars
<1>. QED
  BY <1>0, <1>4, <1>5, <1>6, <1>7, <1>8, <1>9, <1>10, <1>11, <1>12, <1>13, <1>14, <1>15, <1>16,
     <1>17, <1>18, <1>19, <1>20, <1>21, <1>22, <1>23, <1>24, <1>26, <1>27, <1>28, <1>29, <1>30, <1>31
  DEF Next, ClientStep, ClientChoice, WorkerStep, DrainerStep, ManagerStep, Releasing


-----------------------------------------------------------------------------

\* The invariants on which the others rest.
Sound == TypeOK /\ Placed /\ Posted /\ Exclusive /\ Stowed /\ Handed

\* A new pool is in such a state (pool.rs:51-88).
LEMMA SoundInit == Init => Sound
  BY TypeInit, PlacedInit, PostedInit, ExclusiveInit, StowedInit, HandedInit DEF Sound

\* Every step of a thread of the pool (mod.rs:60-217, operation.rs, pool.rs:123-361) leaves
\* it in such a state.
LEMMA SoundStep == Sound /\ [Next]_vars => Sound'
  BY TypeStep, PlacedStep, PostedStep, ExclusiveStep, StowedStep, HandedStep DEF Sound

\* The pool is in no other states: its threads, guards, letters and idle resources (lock.rs,
\* mod.rs:106-188, operation.rs, pool.rs:123-361) fit together.
THEOREM Soundness == Spec => []Sound
  BY SoundInit, SoundStep, PTL DEF Spec

\* The state byte of a lock that nobody holds tells whether there is a resource
\* (lock.rs:63-100), which is then in the idle queue, or on its way there or from there:
\* release opens the lock before it queues it (mod.rs:96-103), and try_acquire_idle
\* leaves out what it finds held (mod.rs:187-199), and still none is forgotten.
THEOREM Retention == Spec => []NothingLost
<1>1. Sound => NothingLost
  BY DEF Sound, Stowed, NothingLost, Near
<1>. QED
  BY <1>1, Soundness, PTL

-----------------------------------------------------------------------------
(* Refinement.  A slot of the promise is a lock, with a resource where its  *)
(* Option is full; its holder has the guard; and who has a Managed uses it. *)

\* Who holds which lock, as the promise sees it.
Guarding == [l \in Lock |-> Guards(l)]

\* There is nothing in a new pool (pool.rs:51-88), and nobody holds anything.
LEMMA PromiseInit == Init => Promise!Init
<1>. SUFFICES ASSUME Init PROVE Promise!Init
  OBVIOUS
<1>1. Resources = {} /\ InUse = {}
  BY NamesAssumption DEF Init, Resources, InUse, Empty, Thread
<1>2. \A l \in Lock : Guards(l) = {}
  BY NamesAssumption DEF Init, Guards
<1>. QED
  BY <1>1, <1>2 DEF Promise!Init

\* A step in which somebody comes to hold a lock (try_lock, detach and the hand-over of a
\* guard: lock.rs:54-61, 118-123, wait.rs:34-40), in terms of what it reads and changes.
LEMMA PromiseComes ==
  ASSUME NEW l \in Lock, NEW h \in Thread \cup Ticket, h \notin Guarding[l],
         Guarding' = [Guarding EXCEPT ![l] = {h}],
         \/ Promise!Take(h, l)
         \/ \E k \in Lock : Promise!Carry(h, k, l)
         \/ \E g \in Guarding[l] : Promise!Give(g, h, l)
  PROVE  Promise!Next
<1>1. h \in (Guarding'[l] \ Guarding[l]) \cap (Thread \cup Ticket)
  BY DEF Guarding
<1>. QED
  BY <1>1 DEF Promise!Next, Promise!Comer, Guarding

\* The same of a step by the one that holds it (lock.rs:155-161, mod.rs:58-67,
\* operation.rs:123-143, managed.rs:14-21, 66-72).
LEMMA PromiseHolds ==
  ASSUME NEW l \in Lock, NEW h \in Guarding[l],
         \/ Promise!PutBack(h, l)
         \/ Promise!Fill(h, l)
         \/ Promise!Clear(h, l)
         \/ Promise!Lend(h, l)
         \/ Promise!Reclaim(h, l)
  PROVE  Promise!Next
  BY DEF Promise!Next, Guarding

\* A step of thread t about its own guard, the others' and the letters left alone.
Others(t) == \A u \in Thread \ {t} : pc'[u] = pc[u] /\ hand'[u] = hand[u]
Alone(t) == UNCHANGED letter /\ Others(t)

\* What such a step makes of the guards of a lock.
LEMMA GuardsBut ==
  ASSUME NEW t \in Thread, Alone(t), NEW l \in Lock
  PROVE  /\ Has(t, l)' => Guards(l)' = Guards(l) \cup {t}
         /\ ~Has(t, l)' => Guards(l)' = Guards(l) \ {t}
         /\ Has(t, l) <=> t \in Guards(l)
<1>1. t \notin Ticket
  BY NamesAssumption DEF Thread
<1>2. \A u \in Thread \ {t} : Has(u, l)' <=> Has(u, l)
  BY DEF Has, GuardOf, Alone, Others
<1>. QED
  BY <1>1, <1>2 DEF Guards, Has, Alone

\* What it makes of the resources in use.
LEMMA InUseBut ==
  ASSUME NEW t \in Thread, Others(t)
  PROVE  /\ t \notin Client \/ (pc[t] # "managed" /\ pc'[t] # "managed") => UNCHANGED InUse
         /\ pc[t] # "managed" => \A l \in Lock : <<t, l>> \notin InUse
         /\ t \in Client /\ pc[t] # "managed" /\ pc'[t] = "managed"
              => InUse' = InUse \cup {<<t, hand'[t]>>}
         /\ t \in Client /\ pc[t] = "managed" /\ pc'[t] # "managed"
              => <<t, hand[t]>> \in InUse /\ InUse' = InUse \ {<<t, hand[t]>>}
<1>1. Client \subseteq Thread
  BY DEF Thread
<1>2. \A c \in Client \ {t} : pc'[c] = pc[c] /\ hand'[c] = hand[c]
  BY <1>1 DEF Others
<1>3. /\ \A c, l : <<c, l>> \in InUse <=> c \in Client /\ pc[c] = "managed" /\ l = hand[c]
      /\ \A c, l : <<c, l>> \in InUse' <=> c \in Client /\ pc'[c] = "managed" /\ l = hand'[c]
  BY DEF InUse
<1>4. /\ \A x \in InUse : \E c, l : x = <<c, l>>
      /\ \A x \in InUse' : \E c, l : x = <<c, l>>
  BY DEF InUse
<1>. HIDE DEF InUse
<1>5. t \notin Client \/ (pc[t] # "managed" /\ pc'[t] # "managed") => InUse' = InUse
  <2>1. SUFFICES ASSUME t \notin Client \/ (pc[t] # "managed" /\ pc'[t] # "managed")
                 PROVE  InUse' = InUse
    OBVIOUS
  <2>2. \A c, l : <<c, l>> \in InUse' <=> <<c, l>> \in InUse
    BY <1>2, <1>3, <2>1
  <2>. QED
    BY <1>4, <2>2
<1>6. ASSUME t \in Client, pc[t] # "managed", pc'[t] = "managed"
      PROVE  InUse' = InUse \cup {<<t, hand'[t]>>}
  <2>1. \A c, l : <<c, l>> \in InUse' <=> <<c, l>> \in InUse \/ (c = t /\ l = hand'[t])
    BY <1>2, <1>3, <1>6
  <2>. QED
    BY <1>4, <2>1
<1>7. ASSUME t \in Client, pc[t] = "managed", pc'[t] # "managed"
      PROVE  <<t, hand[t]>> \in InUse /\ InUse' = InUse \ {<<t, hand[t]>>}
  <2>1. \A c, l : <<c, l>> \in InUse' <=> <<c, l>> \in InUse /\ ~(c = t /\ l = hand[t])
    BY <1>2, <1>3, <1>7
  <2>. QED
    BY <1>3, <1>4, <1>7, <2>1
<1>. QED
  BY <1>3, <1>5, <1>6, <1>7

\* A lock that is new has no resource.
LEMMA FreshEmpty ==
  ASSUME TypeOK, Placed, Exclusive, Stowed, NEW l \in FreshLock
  PROVE  ~lock[l].full
<1>1. l \in Lock /\ lock[l].state # "HELD"
  BY FreshOpen
<1>2. ~Near(l)
  BY DEF FreshLock, Near, TypeOK, Range
<1>3. lock[l].state # "SOME" /\ (lock[l].full <=> lock[l].state = "SOME")
  BY <1>1, <1>2 DEF Stowed
<1>. QED
  BY <1>3

\* What it makes of all guards: it keeps its own or has none, takes one, or drops it.
LEMMA GuardingBut ==
  ASSUME Exclusive, NEW t \in Thread, Alone(t)
  PROVE  /\ GuardOf(t) /\ GuardOf(t)' /\ hand'[t] = hand[t] => UNCHANGED Guarding
         /\ (~GuardOf(t) \/ hand[t] = NoLock) /\ (~GuardOf(t)' \/ hand'[t] = NoLock)
              => UNCHANGED Guarding
         /\ \A l \in Lock :
              (~GuardOf(t) \/ hand[t] = NoLock) /\ GuardOf(t)' /\ hand'[t] = l
                /\ lock[l].state # "HELD"
                => Guarding[l] = {} /\ Guarding' = [Guarding EXCEPT ![l] = {t}]
         /\ hand[t] \in Lock /\ GuardOf(t) => Guarding[hand[t]] = {t}
         /\ hand[t] \in Lock /\ GuardOf(t) /\ (~GuardOf(t)' \/ hand'[t] = NoLock)
              => Guarding' = [Guarding EXCEPT ![hand[t]] = {}]
<1>0. NoLock \notin Lock /\ DOMAIN Guarding = Lock /\ DOMAIN Guarding' = Lock
  BY NamesAssumption DEF Guarding
<1>1. \A l \in Lock : Guarding[l] = Guards(l) /\ Guarding'[l] = Guards(l)'
  BY DEF Guarding
<1>2. ASSUME \A l \in Lock : Has(t, l)' <=> Has(t, l)
      PROVE  UNCHANGED Guarding
  <2>1. \A l \in Lock : Guards(l)' = Guards(l)
    BY <1>2, GuardsBut
  <2>. QED
    BY <2>1 DEF Guarding
<1>3. ASSUME GuardOf(t), GuardOf(t)', hand'[t] = hand[t] PROVE UNCHANGED Guarding
  BY <1>2, <1>3 DEF Has
<1>4. ASSUME ~GuardOf(t) \/ hand[t] = NoLock, ~GuardOf(t)' \/ hand'[t] = NoLock
      PROVE  UNCHANGED Guarding
  <2>1. \A l \in Lock : ~Has(t, l) /\ ~Has(t, l)'
    BY <1>0, <1>4 DEF Has
  <2>. QED
    BY <1>2, <2>1
<1>5. ASSUME NEW l \in Lock, ~GuardOf(t) \/ hand[t] = NoLock, GuardOf(t)', hand'[t] = l,
             lock[l].state # "HELD"
      PROVE  Guarding[l] = {} /\ Guarding' = [Guarding EXCEPT ![l] = {t}]
  <2>1. Guards(l) = {}
    BY <1>5 DEF Exclusive, OneGuard
  <2>2. /\ \A m \in Lock : ~Has(t, m)
        /\ \A m \in Lock : Has(t, m)' <=> m = l
    BY <1>0, <1>5 DEF Has
  <2>3. \A m \in Lock : Guards(m)' = IF m = l THEN {t} ELSE Guards(m)
    BY <2>1, <2>2, GuardsBut
  <2>. QED
    BY <1>0, <1>1, <2>1, <2>3 DEF Guarding
<1>6. hand[t] \in Lock /\ GuardOf(t) => Guarding[hand[t]] = {t}
  BY <1>1, GuardHolds
<1>7. ASSUME hand[t] \in Lock, GuardOf(t), ~GuardOf(t)' \/ hand'[t] = NoLock
      PROVE  Guarding' = [Guarding EXCEPT ![hand[t]] = {}]
  <2>1. Guards(hand[t]) = {t}
    BY <1>7, GuardHolds
  <2>2. /\ \A m \in Lock : ~Has(t, m)'
        /\ \A m \in Lock : Has(t, m) <=> m = hand[t]
    BY <1>0, <1>7 DEF Has
  <2>3. \A m \in Lock : Guards(m)' = Guards(m) \ {t}
    BY <2>2, GuardsBut
  <2>4. \A m \in Lock \ {hand[t]} : t \notin Guards(m)
    BY <2>2, GuardsBut
  <2>5. \A m \in Lock : Guards(m)' = IF m = hand[t] THEN {} ELSE Guards(m)
    BY <2>1, <2>3, <2>4
  <2>. QED
    BY <1>0, <1>1, <2>5 DEF Guarding
<1>. QED
  BY <1>3, <1>4, <1>5, <1>6, <1>7

\* A guard that goes from one holder to another, be it a thread or a letter.
LEMMA GuardingGiven ==
  ASSUME Exclusive, Exclusive', NEW l \in Lock, NEW g, NEW h, g \in Guards(l), h \in Guards(l)',
         \A m \in Lock \ {l} : Guards(m)' = Guards(m)
  PROVE  Guarding[l] = {g} /\ Guarding' = [Guarding EXCEPT ![l] = {h}]
<1>1. Guards(l) = {g} /\ Guards(l)' = {h}
  BY DEF Exclusive, OneGuard
<1>2. \A m \in Lock : Guards(m)' = IF m = l THEN {h} ELSE Guards(m)
  BY <1>1
<1>. QED
  BY <1>1, <1>2 DEF Guarding

\* What a step of the pool has to be.
Promised == Promise!Next \/ UNCHANGED <<Resources, Guarding, InUse>>

Same == \A l \in Lock : lock'[l].full = lock[l].full
SameBut(p) == \A l \in Lock \ {p} : lock'[l].full = lock[l].full

\* A step that is not about a guard, a letter with a resource or what is in a lock.
LEMMA Unseen ==
  ASSUME NEW t \in Thread, Others(t), Same,
         \/ pc'[t] = pc[t] /\ hand'[t] = hand[t]
         \/ /\ pc[t] # "managed" /\ pc'[t] # "managed"
            /\ \A l \in Lock : Has(t, l)' <=> Has(t, l),
         \A k \in Ticket :
            letter'[k] = letter[k] \/ (letter'[k] \notin Lock /\ letter[k] \notin Lock)
  PROVE  Promised
<1>1. \A l \in Lock : Guards(l)' = Guards(l)
  <2>1. \A u \in Thread, l \in Lock :
           hand'[u] = l /\ GuardOf(u)' <=> hand[u] = l /\ GuardOf(u)
    BY DEF Has, GuardOf, Others
  <2>. QED
    BY <2>1 DEF Guards
<1>2. \A c \in Client : /\ pc'[c] = "managed" <=> pc[c] = "managed"
                        /\ pc[c] = "managed" => hand'[c] = hand[c]
  BY DEF GuardOf, Guarded, Thread, Others
<1>3. UNCHANGED Guarding
  BY <1>1 DEF Guarding
<1>4. UNCHANGED InUse
  BY <1>2 DEF InUse
<1>5. UNCHANGED Resources
  BY DEF Resources, Same
<1>. QED
  BY <1>3, <1>4, <1>5 DEF Promised

\* A thread that has the guard of a lock has it alone, and it is not in use but by a client
\* with a Managed; and it keeps it from one place with a guard to another.
LEMMA OwnGuard ==
  ASSUME TypeOK, Placed, Exclusive, NEW t \in Thread, Alone(t), pc[t] \in Guarded
  PROVE  /\ hand[t] \in Lock /\ GuardOf(t) /\ Guarding[hand[t]] = {t} /\ t \in Guarding[hand[t]]
         /\ pc[t] # "managed" => <<t, hand[t]>> \notin InUse
         /\ pc'[t] \in Guarded /\ hand'[t] = hand[t] => UNCHANGED Guarding
<1>1. hand[t] \in Lock /\ GuardOf(t)
  BY DEF Placed, PlacedAt, Handling, GuardOf
<1>2. pc'[t] \in Guarded => GuardOf(t)'
  BY DEF GuardOf
<1>. QED
  BY <1>1, <1>2, GuardingBut, InUseBut DEF Alone

\* What the writes to locks make of the resources there are.
LEMMA Refilled ==
    /\ Same => UNCHANGED Resources
    /\ \A p \in Lock : SameBut(p) =>
          /\ ~lock[p].full /\ lock'[p].full
                => p \notin Resources /\ Resources' = Resources \cup {p}
          /\ lock[p].full /\ ~lock'[p].full
                => p \in Resources /\ Resources' = Resources \ {p}
<1>1. Same => UNCHANGED Resources
  BY DEF Same, Resources
<1>2. ASSUME NEW p \in Lock, SameBut(p)
      PROVE  /\ ~lock[p].full /\ lock'[p].full
                  => p \notin Resources /\ Resources' = Resources \cup {p}
             /\ lock[p].full /\ ~lock'[p].full
                  => p \in Resources /\ Resources' = Resources \ {p}
  BY <1>2 DEF SameBut, Resources
<1>. QED
  BY <1>1, <1>2

\* A step in which a thread keeps its guard and leaves what it guards alone, as in
\* release() before it opens the lock (mod.rs:141-150): nothing, to the promise.
LEMMA HoldsOn ==
  ASSUME TypeOK, Placed, Exclusive, NEW t \in Thread, Alone(t), Same,
         pc[t] \in Guarded \ {"managed"}, pc'[t] \in Guarded \ {"managed"}, hand'[t] = hand[t]
  PROVE  Promised
  BY OwnGuard, Refilled, InUseBut DEF Alone, Promised

\* A guard is dropped (lock.rs:155-161): PutBack.
LEMMA DropsGuard ==
  ASSUME TypeOK, Placed, Exclusive, NEW t \in Thread, Alone(t), Same,
         pc[t] \in Guarded \ {"managed"}, pc'[t] \notin Guarded \cup {"skip", "decrement"}
  PROVE  Promised
<1>. DEFINE p == hand[t]
<1>1. p \in Lock /\ GuardOf(t) /\ Guarding[p] = {t} /\ t \in Guarding[p] /\ <<t, p>> \notin InUse
  BY OwnGuard
<1>2. Guarding' = [Guarding EXCEPT ![p] = {}] /\ UNCHANGED <<Resources, InUse>>
  BY <1>1, GuardingBut, InUseBut, Refilled DEF Alone, GuardOf, Guarded
<1>3. Promise!PutBack(t, p)
  BY <1>1, <1>2 DEF Promise!PutBack, Promise!Keeps, Promise!Held, Guarding
<1>. QED
  BY <1>1, <1>3, PromiseHolds DEF Promised

\* A lock that is open is locked (lock.rs:54-61): Take.
LEMMA TakesGuard ==
  ASSUME TypeOK, Placed, Exclusive, NEW t \in Thread, Alone(t), Same,
         pc[t] \notin Guarded \cup {"skip", "decrement"}, pc'[t] \in Guarded \ {"managed"},
         NEW l \in Lock, hand'[t] = l, lock[l].state # "HELD"
  PROVE  Promised
<1>1. /\ Guarding[l] = {} /\ Guarding' = [Guarding EXCEPT ![l] = {t}]
      /\ UNCHANGED <<Resources, InUse>>
  BY GuardingBut, InUseBut, Refilled DEF Alone, GuardOf, Guarded
<1>2. Promise!Take(t, l)
  BY <1>1 DEF Promise!Take, Promise!Held, Guarding
<1>. QED
  BY <1>1, <1>2, PromiseComes DEF Promised

\* A resource is created (operation.rs:123-143): Fill, and a client that has waited for it
\* uses it (acquire.rs:60-85).
LEMMA FillsLock ==
  ASSUME TypeOK, Placed, Exclusive, NEW t \in Thread, Alone(t), SameBut(hand[t]),
         ~lock[hand[t]].full, lock'[hand[t]].full,
         pc[t] \in Guarded \ {"managed"}, pc'[t] \in Guarded, hand'[t] = hand[t],
         t \in Client \/ pc'[t] # "managed"
  PROVE  Promised
<1>. DEFINE p == hand[t]
<1>1. p \in Lock /\ Guarding[p] = {t} /\ t \in Guarding[p] /\ <<t, p>> \notin InUse
  BY OwnGuard
<1>2. UNCHANGED Guarding /\ p \notin Resources /\ Resources' = Resources \cup {p}
  BY <1>1, OwnGuard, Refilled
<1>3. UNCHANGED InUse \/ (t \in Client /\ InUse' = InUse \cup {<<t, p>>})
  BY InUseBut DEF Alone
<1>4. Promise!Fill(t, p)
  BY <1>1, <1>2, <1>3 DEF Promise!Fill, Promise!Keeps, Promise!MayLend, Guarding
<1>. QED
  BY <1>1, <1>4, PromiseHolds DEF Promised

\* It is taken out of its guard to be dropped (mod.rs:58-67, pool.rs:268-273): Clear.
LEMMA ClearsLock ==
  ASSUME TypeOK, Placed, Exclusive, NEW t \in Thread, Alone(t), SameBut(hand[t]),
         lock[hand[t]].full, ~lock'[hand[t]].full,
         pc[t] \in Guarded \ {"managed"}, pc'[t] \in Guarded \ {"managed"}, hand'[t] = hand[t]
  PROVE  Promised
<1>. DEFINE p == hand[t]
<1>1. p \in Lock /\ Guarding[p] = {t} /\ t \in Guarding[p] /\ <<t, p>> \notin InUse
  BY OwnGuard
<1>2. UNCHANGED <<Guarding, InUse>> /\ p \in Resources /\ Resources' = Resources \ {p}
  BY <1>1, OwnGuard, Refilled, InUseBut DEF Alone
<1>3. Promise!Clear(t, p)
  BY <1>1, <1>2 DEF Promise!Clear, Promise!Keeps, Guarding
<1>. QED
  BY <1>1, <1>3, PromiseHolds DEF Promised

\* A client that has the guard of a resource makes a Managed of it (managed.rs:14-21): Lend.
LEMMA LendsOut ==
  ASSUME TypeOK, Placed, Exclusive, NEW t \in Client, t \in Thread, Alone(t), Same,
         lock[hand[t]].full,
         pc[t] \in Guarded \ {"managed"}, pc'[t] = "managed", hand'[t] = hand[t]
  PROVE  Promised
<1>. DEFINE p == hand[t]
<1>1. p \in Lock /\ Guarding[p] = {t} /\ t \in Guarding[p] /\ <<t, p>> \notin InUse
  BY OwnGuard
<1>2. UNCHANGED <<Guarding, Resources>> /\ InUse' = InUse \cup {<<t, p>>} /\ p \in Resources
  BY <1>1, OwnGuard, Refilled, InUseBut DEF Alone, Guarded, Resources
<1>3. Promise!Lend(t, p)
  BY <1>1, <1>2 DEF Promise!Lend, Promise!Keeps, Guarding
<1>. QED
  BY <1>1, <1>3, PromiseHolds DEF Promised

\* A client drops a Managed, whose guard goes to release() (managed.rs:66-72): Reclaim.
LEMMA Reclaims ==
  ASSUME TypeOK, Placed, Exclusive, NEW t \in Client, t \in Thread, Alone(t), Same,
         pc[t] = "managed", pc'[t] \in Guarded \ {"managed"}, hand'[t] = hand[t]
  PROVE  Promised
<1>. DEFINE p == hand[t]
<1>1. pc[t] \in Guarded
  BY DEF Guarded
<1>2. p \in Lock /\ t \in Guarding[p] /\ UNCHANGED <<Guarding, Resources>>
  BY <1>1, OwnGuard, Refilled
<1>3. <<t, p>> \in InUse /\ InUse' = InUse \ {<<t, p>>}
  BY InUseBut DEF Alone
<1>4. Promise!Reclaim(t, p)
  BY <1>2, <1>3 DEF Promise!Reclaim, Guarding
<1>. QED
  BY <1>2, <1>4, PromiseHolds DEF Promised

\* A guard goes from one holder to another, by a letter (wait.rs:34-40, acquire.rs:87-96) or
\* with a future (pool.rs:309-331): Give.
LEMMA HandsOver ==
  ASSUME Exclusive, Exclusive', NEW l \in Lock,
         NEW g \in Thread \cup Ticket, NEW h \in Thread \cup Ticket,
         g \in Guards(l), h # g, h \in Guards(l)',
         \A m \in Lock \ {l} : Guards(m)' = Guards(m),
         Same, <<g, l>> \notin InUse,
         \/ UNCHANGED InUse
         \/ h \in Client /\ lock[l].full /\ InUse' = InUse \cup {<<h, l>>}
  PROVE  Promised
<1>1. Guarding[l] = {g} /\ Guarding' = [Guarding EXCEPT ![l] = {h}]
  BY GuardingGiven
<1>2. UNCHANGED Resources /\ (lock[l].full => l \in Resources')
  BY Refilled DEF Resources
<1>3. Promise!Give(g, h, l)
  BY <1>1, <1>2 DEF Promise!Give, Promise!Keeps, Promise!Held, Promise!MayLend, Guarding
<1>. QED
  BY <1>1, <1>3, PromiseComes DEF Promised

\* A Verify timer moves a resource to a lock of its own (pool.rs:151-160): Carry.  A lock
\* that it finds empty it only takes: Take.
LEMMA Carries ==
  ASSUME TypeOK, Exclusive, NEW t \in Thread, Alone(t),
         pc[t] \notin Guarded \cup {"skip", "decrement"}, pc'[t] \in Guarded \ {"managed"},
         NEW old \in Lock, NEW new \in Lock, old # new, hand'[t] = new,
         lock[old].state # "HELD", lock[new].state # "HELD", ~lock[new].full,
         lock'[new].full = lock[old].full, ~lock'[old].full,
         \A l \in Lock \ {old, new} : lock'[l].full = lock[l].full
  PROVE  Promised
<1>1. /\ Guarding[new] = {} /\ Guarding' = [Guarding EXCEPT ![new] = {t}]
      /\ Guarding[old] = {} /\ UNCHANGED InUse
  BY GuardingBut, InUseBut DEF Alone, GuardOf, Guarded, Guarding, Exclusive, OneGuard
<1>2. CASE lock[old].full
  <2>1. /\ old \in Resources /\ new \notin Resources
        /\ Resources' = (Resources \ {old}) \cup {new}
    BY <1>2 DEF Resources
  <2>2. Promise!Carry(t, old, new)
    BY <1>1, <2>1 DEF Promise!Carry, Promise!Held, Guarding
  <2>. QED
    BY <1>1, <2>2, PromiseComes DEF Promised
<1>3. CASE ~lock[old].full
  <2>1. UNCHANGED Resources
    BY <1>3 DEF Resources
  <2>2. Promise!Take(t, new)
    BY <1>1, <2>1 DEF Promise!Take, Promise!Held, Guarding
  <2>. QED
    BY <1>1, <2>2, PromiseComes DEF Promised
<1>. QED
  BY <1>2, <1>3

\* Every step of every thread is one of the promise's, or changes nothing that it speaks
\* of.
LEMMA PromiseStep ==
  ASSUME Sound, Sound', [Next]_vars
  PROVE  Promised
<1>0. /\ Client \subseteq Thread /\ Worker \subseteq Thread /\ Manager \in Thread
      /\ Manager \notin Client /\ Manager \notin Worker
      /\ Thread \cap Drainer = {} /\ Client \cap Worker = {} /\ Thread \cap Ticket = {}
      /\ TypeOK /\ Placed /\ Posted /\ Exclusive /\ Exclusive' /\ Stowed
      /\ \A u \in Thread : PlacedAt(u) /\ HandedAt(u)
      /\ "pending" \notin Lock /\ "taken" \notin Lock
      /\ lock \in [Lock -> ResourceLock]
  BY NamesAssumption DEF Thread, Sound, Placed, Handed, TypeOK
<1>. USE DEF counters, queues, client, manager, Goto, Call, Return, Hold, LetGo
\* What is about nothing.
<1>1. ASSUME UNCHANGED <<lock, hand>>, \A u \in Thread : pc'[u] = pc[u],
             \A k \in Ticket :
                letter'[k] = letter[k] \/ (letter'[k] \notin Lock /\ letter[k] \notin Lock)
      PROVE  Promised
  BY <1>0, <1>1, Unseen DEF Same, Others
<1>2. ASSUME NEW t \in Thread, UNCHANGED lock, Others(t),
             pc[t] \notin Guarded \cup {"skip", "decrement"},
             pc'[t] \notin Guarded \cup {"skip", "decrement"},
             \A k \in Ticket :
                letter'[k] = letter[k] \/ (letter'[k] \notin Lock /\ letter[k] \notin Lock)
      PROVE  Promised
  <2>1. \A l \in Lock : ~Has(t, l) /\ ~Has(t, l)'
    BY <1>2 DEF Has, GuardOf
  <2>. QED
    BY <1>2, <2>1, Unseen DEF Same, Guarded
\* What writes no resource.
<1>3. ASSUME NEW l \in Lock, NEW v,
             \/ lock' = lock
             \/ lock' = [lock EXCEPT ![l].state = v]
             \/ lock' = [lock EXCEPT ![l].expired = v]
             \/ lock' = [lock EXCEPT ![l].reusable = v]
             \/ lock' = [lock EXCEPT ![l] = Empty] /\ ~lock[l].full
      PROVE  Same
  <2>1. CASE lock' = [lock EXCEPT ![l] = Empty] /\ ~lock[l].full
    <3>1. lock' = [lock EXCEPT ![l] = Empty] /\ lock[l].full = FALSE /\ Empty.full = FALSE
      BY <1>0, <2>1 DEF ResourceLock, Empty
    <3>2. lock'[l].full = FALSE /\ \A m \in Lock \ {l} : lock'[m] = lock[m]
      BY <1>0, <3>1
    <3>. QED
      BY <3>1, <3>2 DEF Same
  <2>2. CASE lock' = lock
    BY <2>2 DEF Same
  <2>3. CASE \/ lock' = [lock EXCEPT ![l].state = v]
             \/ lock' = [lock EXCEPT ![l].expired = v]
             \/ lock' = [lock EXCEPT ![l].reusable = v]
    <3>1. lock'[l].full = lock[l].full /\ \A m \in Lock \ {l} : lock'[m] = lock[m]
      BY <1>0, <2>3, Wrote
    <3>. QED
      BY <3>1 DEF Same
  <2>. QED
    BY <1>3, <2>1, <2>2, <2>3
<1>4. ASSUME NEW t \in Thread, pc[t] \in Guarded PROVE hand[t] \in Lock
  BY <1>0, <1>4 DEF PlacedAt, Handling
\* Release and dispose.
<1>5. ASSUME NEW t \in Thread, Release(t) \/ ReleaseRecheck(t) PROVE Promised
  <2>1. /\ pc[t] \in {"release", "recheck"} /\ UNCHANGED hand /\ Alone(t)
    BY <1>0, <1>5 DEF Release, ReleaseRecheck, KeepOr, TypeOK, Alone, Others
  <2>2. hand[t] \in Lock
    BY <1>4, <2>1 DEF Guarded
  <2>3. CASE Goto(t, "return") /\ lock' = [lock EXCEPT ![hand[t]].state = "SOME"]
    <3>1. Same /\ pc'[t] = "return"
      BY <1>0, <1>3, <2>2, <2>3 DEF TypeOK
    <3>. QED
      BY <1>0, <2>1, <3>1, DropsGuard DEF Guarded
  <2>4. CASE lock' = lock /\ \E next \in {"dispose", "recheck"} : Goto(t, next)
    <3>1. Same /\ pc'[t] \in {"dispose", "recheck"}
      BY <1>0, <1>3, <2>2, <2>4 DEF TypeOK
    <3>. QED
      BY <1>0, <2>1, <3>1, HoldsOn DEF Guarded
  <2>. QED
    BY <1>5, <2>3, <2>4 DEF Release, ReleaseRecheck, KeepOr
<1>6. ASSUME NEW t \in Thread, ReleaseReturn(t) \/ ReleaseTell(t) PROVE Promised
  <2>1. /\ pc[t] \in {"return", "tell"} /\ pc'[t] \in {"tell"} \cup Resumed(t)
        /\ UNCHANGED <<lock, letter>> /\ Others(t)
    BY <1>0, <1>6 DEF ReleaseReturn, ReleaseTell, PlacedAt, Leaving, TypeOK, Others
  <2>. QED
    BY <1>2, <2>1 DEF Guarded, Resumed
<1>7. ASSUME NEW t \in Thread, Dispose(t) \/ DisposeTell(t) PROVE Promised
  <2>1. /\ pc[t] \in {"dispose", "dispose_count"} /\ pc'[t] \in {"dispose_count", "unlock"}
        /\ UNCHANGED hand /\ Alone(t)
    BY <1>0, <1>7 DEF Dispose, DisposeTell, TypeOK, Alone, Others
  <2>2. hand[t] \in Lock
    BY <1>4, <2>1 DEF Guarded
  <2>3. CASE lock' = lock
    <3>1. Same
      BY <1>3, <2>2, <2>3
    <3>. QED
      BY <1>0, <2>1, <3>1, HoldsOn DEF Guarded
  <2>4. CASE lock' = [lock EXCEPT ![hand[t]].full = FALSE]
    <3>1. ~lock'[hand[t]].full /\ SameBut(hand[t])
      BY <1>0, <2>2, <2>4, Wrote DEF SameBut
    <3>2. CASE lock[hand[t]].full
      BY <1>0, <2>1, <3>1, <3>2, ClearsLock DEF Guarded
    <3>3. CASE ~lock[hand[t]].full
      <4>1. lock[hand[t]].full \in BOOLEAN
        BY <1>0, <2>2 DEF ResourceLock
      <4>2. lock[hand[t]].full = FALSE /\ lock'[hand[t]].full = FALSE
        BY <1>0, <2>2, <2>4, <3>3, <4>1, Wrote
      <4>3. Same
        BY <3>1, <4>2 DEF Same, SameBut
      <4>. QED
        BY <1>0, <2>1, <4>3, HoldsOn DEF Guarded
    <3>. QED
      BY <3>2, <3>3
  <2>. QED
    BY <1>7, <2>3, <2>4 DEF Dispose, DisposeTell
<1>8. ASSUME NEW t \in Thread, UnlockNone(t) PROVE Promised
  <2>1. /\ pc[t] = "unlock" /\ pc'[t] \in Resumed(t) /\ Alone(t)
        /\ lock' = [lock EXCEPT ![hand[t]] = Empty]
    BY <1>0, <1>8 DEF UnlockNone, PlacedAt, Leaving, TypeOK, Alone, Others
  <2>2. hand[t] \in Lock /\ ~lock[hand[t]].full
    BY <1>0, <1>4, <2>1 DEF Guarded, HandedAt
  <2>3. Same
    BY <1>3, <2>1, <2>2
  <2>. QED
    BY <1>0, <2>1, <2>3, DropsGuard DEF Guarded, Resumed
\* The idle queue.
<1>9. ASSUME NEW t \in Client \cup {Manager}, PopIdle(t) PROVE Promised
  <2>1. /\ t \in Thread /\ pc[t] = "pop" /\ pc'[t] \in {"state", "count", "lock"}
        /\ UNCHANGED <<lock, letter>> /\ Others(t)
    BY <1>0, <1>9 DEF PopIdle, TypeOK, Others
  <2>. QED
    BY <1>2, <2>1 DEF Guarded
<1>10. ASSUME NEW t \in Client \cup {Manager}, LockIdle(t) PROVE Promised
  <2>. DEFINE l == hand[t]
  <2>1. /\ t \in Thread /\ pc[t] = "lock" /\ Alone(t)
        /\ lock' = [lock EXCEPT ![l].state = "HELD"]
    BY <1>0, <1>10 DEF LockIdle, TypeOK, Alone, Others
  <2>2. l \in Lock
    BY <1>0, <2>1 DEF PlacedAt, Handling
  <2>3. Same
    BY <1>3, <2>1, <2>2
  <2>4. CASE lock[l].state = "HELD"
    <3>1. pc'[t] = "pop"
      BY <1>0, <1>10, <2>1, <2>4 DEF LockIdle, TypeOK
    <3>. QED
      BY <2>1, <2>3, <3>1, Unseen DEF Has, GuardOf, Guarded, Alone
  <2>5. CASE lock[l].state # "HELD"
    <3>1. pc'[t] \in {"send", "peek", "unlock"} /\ hand'[t] = l
      BY <1>0, <1>10, <2>1, <2>5 DEF LockIdle, TypeOK
    <3>. QED
      BY <1>0, <2>1, <2>2, <2>3, <2>5, <3>1, TakesGuard DEF Guarded
  <2>. QED
    BY <2>4, <2>5
\* Clients.
<1>11. ASSUME NEW c \in Client,
              \/ AcquireAgain(c) \/ Acquire(c) \/ CreateFromCount(c) \/ UpdateCount(c)
              \/ RegisterWaiter(c) \/ NotifyManager(c)
       PROVE  Promised
  <2>1. UNCHANGED <<lock, letter, hand>>
    BY <1>11
    DEF AcquireAgain, Acquire, CheckBusy, CreateFromCount, UpdateCount, RegisterWaiter,
        NotifyManager
  <2>2. pc[c] \in {"init", "idle", "count", "cas", "register", "notify", "notify again"}
    BY <1>11
    DEF AcquireAgain, Acquire, CreateFromCount, UpdateCount, RegisterWaiter, NotifyManager
  <2>3. /\ pc'[c] \in {"pop", "count", "cas", "wait", "create", "notify", "notify again",
                      "waiting"}
        /\ \A u \in Thread \ {c} : pc'[u] = pc[u]
    <3>1. CASE AcquireAgain(c) \/ Acquire(c) \/ CreateFromCount(c) \/ UpdateCount(c)
      BY <1>0, <3>1 DEF AcquireAgain, Acquire, CheckBusy, CreateFromCount, UpdateCount, TypeOK
    <3>2. CASE RegisterWaiter(c) \/ NotifyManager(c)
      BY <1>0, <3>2 DEF RegisterWaiter, NotifyManager, TypeOK
    <3>. QED
      BY <1>11, <3>1, <3>2
  <2>. QED
    BY <1>0, <1>2, <2>1, <2>2, <2>3 DEF Guarded, Others
<1>12. ASSUME NEW c \in Client, TryWait(c) PROVE Promised
  <2>1. /\ c \in Thread /\ pc[c] = "wait" /\ pc'[c] \in {"register", "idle"}
        /\ UNCHANGED lock /\ Others(c)
    BY <1>0, <1>12 DEF TryWait, TypeOK, Others
  <2>2. letter' = letter \/ \E k \in FreshTicket : letter' = [letter EXCEPT ![k] = "pending"]
    BY <1>12 DEF TryWait
  <2>3. \A k \in FreshTicket : k \in Ticket /\ letter[k] \notin Lock
    BY <1>0 DEF FreshTicket, Posted, TypeOK, Range
  <2>4. \A k \in Ticket :
           letter'[k] = letter[k] \/ (letter'[k] \notin Lock /\ letter[k] \notin Lock)
    BY <1>0, <2>2, <2>3 DEF TypeOK
  <2>. QED
    BY <1>2, <2>1, <2>4 DEF Guarded
<1>13. ASSUME NEW c \in Client, Peek(c) PROVE Promised
  <2>1. /\ pc[c] = "peek" /\ pc'[c] \in {"release", "managed", "verifying"}
        /\ c \in Thread /\ UNCHANGED hand /\ Alone(c)
    BY <1>0, <1>13 DEF Peek, Resolved, TypeOK, Alone, Others
  <2>2. hand[c] \in Lock /\ lock[hand[c]].full
    BY <1>0, <1>4, <2>1 DEF Guarded, HandedAt
  <2>3. lock' = lock \/ lock' = [lock EXCEPT ![hand[c]].expired = TRUE]
    BY <1>13 DEF Peek
  <2>4. Same
    BY <1>3, <2>2, <2>3
  <2>5. CASE pc'[c] = "managed"
    BY <1>0, <2>1, <2>2, <2>4, <2>5, LendsOut DEF Guarded
  <2>6. CASE pc'[c] # "managed"
    BY <1>0, <2>1, <2>4, <2>6, HoldsOn DEF Guarded
  <2>. QED
    BY <2>5, <2>6
<1>14. ASSUME NEW c \in Client, Discard(c) PROVE Promised
  <2>1. /\ pc[c] = "managed" /\ c \in Thread /\ UNCHANGED <<pc, letter, hand>>
        /\ lock' = [lock EXCEPT ![hand[c]].reusable = FALSE]
    BY <1>0, <1>14 DEF Discard
  <2>2. Same
    BY <1>3, <1>4, <2>1 DEF Guarded
  <2>. QED
    BY <2>1, <2>2, Unseen DEF Others
<1>15. ASSUME NEW c \in Client, DropManaged(c) PROVE Promised
  <2>1. /\ pc[c] = "managed" /\ pc'[c] = "release" /\ c \in Thread
        /\ UNCHANGED <<lock, hand>> /\ Alone(c)
    BY <1>0, <1>15 DEF DropManaged, TypeOK, Alone, Others
  <2>. QED
    BY <1>0, <2>1, Reclaims DEF Guarded, Same
<1>16. ASSUME NEW c \in Client, Answered(c) \/ AbandonWaiter(c) PROVE Promised
  <2>1. /\ c \in Thread /\ pc[c] = "waiting" /\ ticket[c] \in Ticket /\ UNCHANGED lock
        /\ letter[ticket[c]] \in {"pending", "taken"} \cup Lock
    BY <1>0, <1>16 DEF Answered, AbandonWaiter, PlacedAt, TypeOK
  <2>2. Others(c)
    BY <1>0, <1>16, <2>1 DEF Answered, AbandonWaiter, Resolved, TypeOK, Others
  <2>3. CASE letter[ticket[c]] \notin Lock
    <3>1. /\ pc'[c] = "idle"
          /\ letter' = letter \/ letter' = [letter EXCEPT ![ticket[c]] = "taken"]
      BY <1>0, <1>16, <2>1, <2>3 DEF Answered, AbandonWaiter, TypeOK
    <3>2. \A m \in Ticket :
             letter'[m] = letter[m] \/ (letter'[m] \notin Lock /\ letter[m] \notin Lock)
      BY <1>0, <2>1, <2>3, <3>1 DEF TypeOK
    <3>. QED
      BY <1>2, <2>1, <2>2, <3>1, <3>2 DEF Guarded
  <2>4. ASSUME NEW k \in Ticket, NEW l \in Lock, k = ticket[c], l = letter[k] PROVE Promised
    <3>1. /\ pc'[c] \in {"release", "managed"} /\ hand'[c] = l
          /\ letter' = [letter EXCEPT ![k] = "taken"]
      BY <1>0, <1>16, <2>1, <2>4 DEF Answered, AbandonWaiter, Resolved, TypeOK
    <3>2. letter'[k] = "taken" /\ \A m \in Ticket \ {k} : letter'[m] = letter[m]
      BY <1>0, <3>1 DEF TypeOK
    <3>3. ~GuardOf(c) /\ GuardOf(c)' /\ lock[l].full
      <4>1. ~GuardOf(c)
        BY <2>1 DEF GuardOf, Guarded
      <4>2. GuardOf(c)'
        BY <3>1 DEF GuardOf, Guarded
      <4>3. lock[l].full
        BY <2>4 DEF Sound, Handed
      <4>. QED
        BY <4>1, <4>2, <4>3
    <3>4. k \in Guards(l) /\ c \in Guards(l)' /\ c # k
      BY <1>0, <2>1, <2>4, <3>1, <3>3 DEF Guards
    <3>5. ASSUME NEW m \in Lock \ {l} PROVE Guards(m)' = Guards(m)
      <4>1. \A u \in Thread : hand'[u] = m /\ GuardOf(u)' <=> hand[u] = m /\ GuardOf(u)
        BY <2>2, <3>1, <3>3 DEF Others, GuardOf
      <4>2. \A n \in Ticket : letter'[n] = m <=> letter[n] = m
        BY <1>0, <2>4, <3>2
      <4>. QED
        BY <4>1, <4>2 DEF Guards
    <3>6. <<k, l>> \notin InUse
      BY <1>0, <2>4 DEF InUse
    <3>7. \/ UNCHANGED InUse
          \/ c \in Client /\ lock[l].full /\ InUse' = InUse \cup {<<c, l>>}
      BY <2>1, <2>2, <3>1, <3>3, InUseBut
    <3>8. Same
      BY <2>1 DEF Same
    <3>. QED
      BY <1>0, <2>1, <3>4, <3>5, <3>6, <3>7, <3>8, HandsOver
  <2>. QED
    BY <2>1, <2>3, <2>4
<1>17. ASSUME NEW t \in Client \cup Worker, EndCreate(t) PROVE Promised
  <2>1. /\ t \in Thread /\ pc[t] = "creating" /\ UNCHANGED hand /\ Alone(t)
    BY <1>0, <1>17 DEF EndCreate, Complete, Fail, Resolved, TypeOK, Alone, Others
  <2>2. hand[t] \in Lock /\ ~lock[hand[t]].full
    BY <1>0, <1>4, <2>1 DEF Guarded, HandedAt
  <2>3. CASE lock' = [lock EXCEPT ![hand[t]].full = TRUE] /\ Complete(t, FALSE)
    <3>1. lock'[hand[t]].full /\ SameBut(hand[t])
      BY <1>0, <2>2, <2>3, Wrote DEF SameBut
    <3>2. pc'[t] = IF t \in Client THEN "managed" ELSE "release"
      BY <1>0, <2>1, <2>3 DEF Complete, Resolved, TypeOK
    <3>. QED
      BY <1>0, <2>1, <2>2, <3>1, <3>2, FillsLock DEF Guarded
  <2>4. CASE lock' = lock /\ Fail(t)
    <3>1. pc'[t] = "unlock" /\ Same
      BY <1>0, <2>1, <2>4 DEF Fail, TypeOK, Same
    <3>. QED
      BY <1>0, <2>1, <3>1, HoldsOn DEF Guarded
  <2>. QED
    BY <1>17, <2>3, <2>4 DEF EndCreate
<1>18. ASSUME NEW t \in Client \cup Worker, EndVerify(t) PROVE Promised
  <2>1. /\ t \in Thread /\ pc[t] = "verifying" /\ UNCHANGED hand /\ Alone(t)
    BY <1>0, <1>18 DEF EndVerify, Complete, Fail, Resolved, TypeOK, Alone, Others
  <2>2. hand[t] \in Lock /\ lock[hand[t]].full
    BY <1>0, <1>4, <2>1 DEF Guarded, HandedAt
  <2>3. CASE Fail(t) /\ lock' = [lock EXCEPT ![hand[t]].full = FALSE]
    <3>1. ~lock'[hand[t]].full /\ SameBut(hand[t])
      BY <1>0, <2>2, <2>3, Wrote DEF SameBut
    <3>2. pc'[t] = "unlock"
      BY <1>0, <2>1, <2>3 DEF Fail, TypeOK
    <3>. QED
      BY <1>0, <2>1, <2>2, <3>1, <3>2, ClearsLock DEF Guarded
  <2>4. ASSUME NEW b \in BOOLEAN, lock' = [lock EXCEPT ![hand[t]].expired = b], Complete(t, b)
        PROVE  Promised
    <3>1. Same
      BY <1>3, <2>2, <2>4
    <3>2. pc'[t] \in {"managed", "release"} /\ (pc'[t] = "managed" => t \in Client)
      BY <1>0, <2>1, <2>4 DEF Complete, Resolved, TypeOK
    <3>3. CASE pc'[t] = "managed"
      BY <1>0, <2>1, <2>2, <3>1, <3>2, <3>3, LendsOut DEF Guarded
    <3>4. CASE pc'[t] = "release"
      BY <1>0, <2>1, <3>1, <3>4, HoldsOn DEF Guarded
    <3>. QED
      BY <3>2, <3>3, <3>4
  <2>. QED
    BY <1>18, <2>3, <2>4 DEF EndVerify
<1>19. ASSUME NEW c \in Client, Create(c) PROVE Promised
  <2>1. PICK l \in FreshLock :
          /\ lock' = [lock EXCEPT ![l] = [state |-> "HELD", full |-> FALSE,
                                          reusable |-> IdleTimeout, expired |-> FALSE]]
          /\ Hold(c, l)
    BY <1>19 DEF Create
  <2>2. l \in Lock /\ lock[l].state # "HELD" /\ ~lock[l].full
    BY <1>0, FreshOpen, FreshEmpty
  <2>3. /\ c \in Thread /\ pc[c] = "create" /\ pc'[c] = "creating" /\ hand'[c] = l /\ Alone(c)
    BY <1>0, <1>19, <2>1 DEF Create, TypeOK, Alone, Others
  <2>4. lock'[l].full = FALSE /\ \A m \in Lock \ {l} : lock'[m] = lock[m]
    BY <1>0, <2>1, <2>2
  <2>5. lock[l].full = FALSE
    BY <1>0, <2>2 DEF ResourceLock
  <2>6. Same
    BY <2>4, <2>5 DEF Same
  <2>. QED
    BY <1>0, <2>2, <2>3, <2>6, TakesGuard DEF Guarded
<1>20. ASSUME NEW c \in Client, AbandonFuture(c) PROVE Promised
  <2>1. PICK w \in Worker : /\ pc[w] = "idle" /\ pc[c] \in {"creating", "verifying"}
                           /\ pc' = [pc EXCEPT ![w] = pc[c], ![c] = "idle"]
                           /\ hand' = [hand EXCEPT ![w] = hand[c], ![c] = NoLock]
    BY <1>20 DEF AbandonFuture
  <2>2. w # c /\ c \in Thread /\ w \in Thread /\ w \notin Client /\ UNCHANGED <<lock, letter>>
    BY <1>0, <1>20, <2>1 DEF AbandonFuture
  <2>3. /\ pc'[w] = pc[c] /\ pc'[c] = "idle" /\ hand'[w] = hand[c]
        /\ \A u \in Thread \ {w, c} : pc'[u] = pc[u] /\ hand'[u] = hand[u]
    BY <1>0, <2>1, <2>2 DEF TypeOK
  <2>4. PICK l \in Lock : l = hand[c]
    BY <1>4, <2>1, <2>2 DEF Guarded
  <2>5. ~GuardOf(w) /\ GuardOf(w)' /\ GuardOf(c) /\ ~GuardOf(c)'
    BY <1>0, <2>1, <2>2, <2>3 DEF GuardOf, Guarded
  <2>6. c \in Guards(l) /\ w \in Guards(l)'
    BY <2>2, <2>3, <2>4, <2>5 DEF Guards
  <2>7. ASSUME NEW m \in Lock \ {l} PROVE Guards(m)' = Guards(m)
    <3>1. \A u \in Thread : hand'[u] = m /\ GuardOf(u)' <=> hand[u] = m /\ GuardOf(u)
      BY <2>3, <2>4, <2>5 DEF GuardOf
    <3>. QED
      BY <2>2, <3>1 DEF Guards
  <2>8. <<c, l>> \notin InUse
    BY <2>1 DEF InUse
  <2>9. UNCHANGED InUse
    <3>1. \A d \in Client : /\ pc'[d] = "managed" <=> pc[d] = "managed"
                            /\ pc[d] = "managed" => hand'[d] = hand[d]
      BY <1>0, <2>1, <2>2, <2>3
    <3>. QED
      BY <3>1 DEF InUse
  <2>10. Same
    BY <2>2 DEF Same
  <2>. QED
    BY <1>0, <2>2, <2>6, <2>7, <2>8, <2>9, <2>10, HandsOver
<1>21. ASSUME NEW t \in Client \cup Drainer, Dropping(t) \/ DropHandle(t) PROVE Promised
  BY <1>1, <1>21 DEF Dropping, ShutDown, ShutDownNotify, Uncount, DropHandle
<1>22. ASSUME NEW d \in Drainer, Drain(d) \/ DrainNotify(d) PROVE Promised
  <2>1. d \notin Thread /\ UNCHANGED <<lock, hand, letter>>
    BY <1>0, <1>22 DEF Drain, DrainNotify
  <2>2. \A u \in Thread : pc'[u] = pc[u]
    BY <1>0, <1>22, <2>1 DEF Drain, DrainNotify, TypeOK
  <2>. QED
    BY <1>1, <2>1, <2>2
\* The manager.
<1>23. CASE VerifyTimer
  <2>1. /\ pc[Manager] = "timers" /\ UNCHANGED letter
        /\ \/ UNCHANGED <<lock, pc, hand>>
           \/ \E old \in Lock, new \in FreshLock : old # new /\ Moved(old, new)
    BY <1>0, <1>23, Fired
  <2>2. CASE UNCHANGED <<lock, pc, hand>>
    BY <1>1, <2>1, <2>2
  <2>3. ASSUME NEW old \in Lock, NEW new \in FreshLock, old # new, Moved(old, new)
        PROVE  Promised
    <3>1. new \in Lock /\ lock[new].state # "HELD" /\ ~lock[new].full /\ lock[old].state # "HELD"
      BY <1>0, <2>3, FreshOpen, FreshEmpty DEF Moved
    <3>2. /\ lock'[new].full = lock[old].full /\ ~lock'[old].full
          /\ \A m \in Lock \ {old, new} : lock'[m].full = lock[m].full
      <4>1. [lock[old] EXCEPT !.state = "HELD"].full = lock[old].full
        BY <1>0 DEF ResourceLock
      <4>2. /\ lock'[new] = [lock[old] EXCEPT !.state = "HELD"] /\ lock'[old] = Empty
            /\ \A m \in Lock \ {old, new} : lock'[m] = lock[m]
        BY <1>0, <2>3, <3>1 DEF Moved
      <4>. QED
        BY <4>1, <4>2 DEF Empty
    <3>3. ASSUME NEW t \in Thread, pc[t] \in {"idle", "timers"},
                 NEW next \in {"verifying", "dispose", "release"}, Goto(t, next), Hold(t, new)
          PROVE  Promised
      <4>1. pc'[t] = next /\ hand'[t] = new /\ Alone(t)
        BY <1>0, <2>1, <3>3 DEF TypeOK, Alone, Others
      <4>. QED
        BY <1>0, <2>3, <3>1, <3>2, <3>3, <4>1, Carries DEF Guarded
    <3>. QED
      BY <1>0, <2>1, <2>3, <3>3 DEF Moved
  <2>. QED
    BY <2>1, <2>2, <2>3
<1>24. CASE WaiterTimer
  <2>1. PICK k : letter' = [letter EXCEPT ![k] = IF @ = "pending" THEN "taken" ELSE @]
    BY <1>24 DEF WaiterTimer
  <2>2. \A m \in Ticket :
           letter'[m] = letter[m] \/ (letter'[m] \notin Lock /\ letter[m] \notin Lock)
    BY <1>0, <2>1 DEF TypeOK
  <2>. QED
    BY <1>1, <1>24, <2>2 DEF WaiterTimer
<1>25. CASE DrainTimer
  <2>1. PICK i \in DOMAIN timers :
          timers[i].kind = "drain" /\ Goto(timers[i].of, WhenUndrained(timers[i].of))
    BY <1>25 DEF DrainTimer
  <2>2. timers[i].of \in Drainer
    BY <1>0, <2>1, EntryOf DEF TypeOK
  <2>3. \A u \in Thread : pc'[u] = pc[u]
    BY <1>0, <2>1, <2>2 DEF TypeOK
  <2>. QED
    BY <1>1, <1>25, <2>3 DEF DrainTimer
<1>26. CASE Listen \/ TakeEvents \/ TakeRegisters \/ Park \/ CheckState
  <2>1. /\ pc[Manager] \in {"timers", "events", "registers", "park", "state"}
        /\ pc'[Manager] \in {"events", "registers", "waiters", "timers", "park", "drain"}
        /\ \A u \in Thread \ {Manager} : pc'[u] = pc[u]
    BY <1>0, <1>26 DEF Listen, TakeEvents, TakeRegisters, Park, CheckState, TypeOK
  <2>2. UNCHANGED <<lock, letter, hand>>
    BY <1>26 DEF Listen, TakeEvents, TakeRegisters, Park, CheckState
  <2>. QED
    BY <1>0, <1>2, <2>1, <2>2 DEF Guarded, Others
<1>27. CASE CheckWaiters
  <2>1. /\ pc[Manager] = "waiters" /\ UNCHANGED <<lock, letter, hand>>
        /\ pc'[Manager] \in {"state", "skip", "pop"}
        /\ \A u \in Thread \ {Manager} : pc'[u] = pc[u]
    BY <1>0, <1>27 DEF CheckWaiters, NextWaiter, TypeOK
  <2>2. hand[Manager] = NoLock
    BY <1>0, <2>1 DEF PlacedAt, Handling, Guarded
  <2>3. \A l \in Lock : ~Has(Manager, l) /\ ~Has(Manager, l)'
    BY <2>1, <2>2, NamesAssumption DEF Has
  <2>. QED
    BY <1>0, <2>1, <2>3, Unseen DEF Same, Others
<1>28. CASE SkipWaiter \/ CountServed
  <2>1. /\ pc[Manager] \in {"skip", "decrement"} /\ UNCHANGED <<lock, letter, hand>>
        /\ Goto(Manager, NextWaiter(waiters', hand[Manager]))
    BY <1>28 DEF SkipWaiter, CountServed, DecrementWaiters
  <2>2. /\ pc'[Manager] = NextWaiter(waiters', hand[Manager])
        /\ \A u \in Thread \ {Manager} : pc'[u] = pc[u]
    BY <1>0, <2>1 DEF TypeOK
  <2>3. /\ pc'[Manager] \in {"state", "release", "skip", "pop", "send"}
        /\ hand[Manager] # NoLock => pc'[Manager] \in {"release", "skip", "send"}
    BY <2>2 DEF NextWaiter
  <2>4. \A l \in Lock : Has(Manager, l)' <=> Has(Manager, l)
    BY <2>1, <2>3, NamesAssumption DEF Has, GuardOf, Guarded
  <2>. QED
    BY <1>0, <2>1, <2>2, <2>3, <2>4, Unseen DEF Same, Others
<1>29. CASE Send
  <2>. DEFINE m == Manager
  <2>1. /\ pc[m] = "send" /\ pc'[m] = "decrement" /\ UNCHANGED lock /\ Others(m)
    BY <1>0, <1>29 DEF Send, TypeOK, Others
  <2>2. hand[m] \in Lock /\ letter[Head(waiters)] = "pending" /\ Head(waiters) \in Ticket
    <3>1. waiters # <<>> /\ letter[Head(waiters)] = "pending"
      BY <1>0, <2>1 DEF Placed, Ready, Serving
    <3>2. Head(waiters) \in Ticket
      BY <1>0, <3>1, HeadTailProperties DEF TypeOK
    <3>. QED
      BY <1>0, <1>4, <2>1, <3>1, <3>2 DEF Guarded
  <2>3. PICK k \in Ticket, l \in Lock : k = Head(waiters) /\ l = hand[m]
    BY <2>2
  <2>4. CASE letter' = [letter EXCEPT ![k] = "taken"] /\ UNCHANGED hand
    <3>1. \A n \in Ticket :
             letter'[n] = letter[n] \/ (letter'[n] \notin Lock /\ letter[n] \notin Lock)
      BY <1>0, <2>2, <2>3, <2>4 DEF TypeOK
    <3>2. \A n \in Lock : Has(m, n)' <=> Has(m, n)
      BY <2>1, <2>4 DEF Has, GuardOf, Guarded
    <3>3. Same
      BY <2>1 DEF Same
    <3>. QED
      BY <1>0, <2>1, <3>1, <3>2, <3>3, Unseen
  <2>5. CASE letter' = [letter EXCEPT ![k] = l] /\ LetGo(m)
    <3>1. /\ letter'[k] = l /\ (\A n \in Ticket \ {k} : letter'[n] = letter[n])
          /\ hand'[m] = NoLock /\ NoLock \notin Lock
      BY <1>0, <2>3, <2>5, NamesAssumption DEF TypeOK
    <3>2. m \in Guards(l) /\ k \in Guards(l)' /\ k # m /\ k \in Thread \cup Ticket
      BY <1>0, <2>1, <2>3, <3>1 DEF Guards, GuardOf, Guarded
    <3>3. ASSUME NEW n \in Lock \ {l} PROVE Guards(n)' = Guards(n)
      <4>1. \A u \in Thread : hand'[u] = n /\ GuardOf(u)' <=> hand[u] = n /\ GuardOf(u)
        BY <2>1, <2>3, <3>1 DEF Others, GuardOf
      <4>2. \A x \in Ticket : letter'[x] = n <=> letter[x] = n
        BY <1>0, <2>2, <2>3, <3>1
      <4>. QED
        BY <4>1, <4>2 DEF Guards
    <3>4. <<m, l>> \notin InUse /\ UNCHANGED InUse
      BY <1>0, <2>1, <2>3, InUseBut DEF Guarded
    <3>5. Same
      BY <2>1 DEF Same
    <3>. QED
      BY <1>0, <3>2, <3>3, <3>4, <3>5, HandsOver
  <2>6. \/ letter' = [letter EXCEPT ![Head(waiters)] = hand[m]] /\ LetGo(m)
        \/ letter' = [letter EXCEPT ![Head(waiters)] = "taken"] /\ UNCHANGED hand
    BY <1>29 DEF Send
  <2>. QED
    BY <2>3, <2>4, <2>5, <2>6
<1>30. CASE DrainLock
  <2>1. PICK l \in todo :
          /\ lock' = [lock EXCEPT ![l].state = "HELD"]
          /\ IF lock[l].state = "HELD"
               THEN UNCHANGED <<pc, hand>>
               ELSE Hold(Manager, l) /\ Goto(Manager, "dispose")
    BY <1>30 DEF DrainLock
  <2>2. l \in Lock /\ pc[Manager] = "drain" /\ UNCHANGED letter
    BY <1>0, <1>30 DEF DrainLock, TypeOK
  <2>3. Same
    BY <1>3, <2>1, <2>2
  <2>4. CASE lock[l].state = "HELD"
    BY <1>0, <2>1, <2>2, <2>3, <2>4, Unseen DEF Others
  <2>5. CASE lock[l].state # "HELD"
    <3>1. pc'[Manager] = "dispose" /\ hand'[Manager] = l /\ Alone(Manager)
      BY <1>0, <2>1, <2>2, <2>5 DEF TypeOK, Alone, Others
    <3>. QED
      BY <1>0, <2>2, <2>3, <2>5, <3>1, TakesGuard DEF Guarded
  <2>. QED
    BY <2>4, <2>5
<1>31. CASE DrainRetain
  <2>1. /\ pc[Manager] = "drain" /\ UNCHANGED <<lock, hand>>
        /\ \/ Goto(Manager, "park") /\ UNCHANGED letter
           \/ /\ pc' = [t \in DOMAIN pc |->
                            IF t = Manager THEN "stopped"
                            ELSE IF t \in Named(timers) THEN WhenDrained(t) ELSE pc[t]]
              /\ letter' = [k \in Ticket |->
                              IF letter[k] = "pending"
                                   /\ k \in Named(timers) \cup Range(waiters)
                                THEN "taken" ELSE letter[k]]
    BY <1>31 DEF DrainRetain
  <2>2. \A u \in Thread : u \notin Named(timers)
    BY NamedType, NamesAssumption, <1>0 DEF Thread, TypeOK
  <2>3. /\ pc'[Manager] \in {"park", "stopped"} /\ Others(Manager)
    BY <1>0, <2>1, <2>2 DEF TypeOK, Others
  <2>4. \A k \in Ticket :
           letter'[k] = letter[k] \/ (letter'[k] \notin Lock /\ letter[k] \notin Lock)
    BY <1>0, <2>1
  <2>. QED
    BY <1>0, <1>2, <2>1, <2>3, <2>4 DEF Guarded
<1>32. CASE UNCHANGED vars
  BY <1>1, <1>32 DEF vars
<1>. QED
  BY <1>0, <1>5, <1>6, <1>7, <1>8, <1>9, <1>10, <1>11, <1>12, <1>13, <1>14, <1>15, <1>16, <1>17,
     <1>18, <1>19, <1>20, <1>21, <1>22, <1>23, <1>24, <1>25, <1>26, <1>27, <1>28, <1>29, <1>30,
     <1>31, <1>32
  DEF Next, ClientStep, ClientChoice, WorkerStep, DrainerStep, ManagerStep, Releasing

\* The pool lends its resources as it promises: each step is one of the promise's or
\* changes nothing of it.  So nothing happens to a resource that a client uses
\* (managed.rs:7-12), nobody takes, moves or drops one that somebody else has
\* (lock.rs:54-61, mod.rs:56-74, pool.rs:150-175, 268-273), and a client that is sent a
\* guard finds a resource behind it (managed.rs:49-63), whatever the others do at the
\* same time.
THEOREM Implements == Spec => KeepsPromise
<1>1. Init => Promise!Init
  BY PromiseInit
<1>2. Sound /\ Sound' /\ [Next]_vars => [Promise!Next]_(Promise!lvars)
  <2>1. Promise!lvars = <<Resources, Guarding, InUse>>
    BY DEF Promise!lvars, Guarding
  <2>2. ASSUME Promised PROVE [Promise!Next]_(Promise!lvars)
    <3>1. CASE Promise!Next
      BY <3>1
    <3>2. CASE UNCHANGED <<Resources, Guarding, InUse>>
      BY <3>2 DEF Promise!lvars, Guarding
    <3>. QED
      BY <2>2, <3>1, <3>2 DEF Promised
  <2>. QED
    BY <2>2, PromiseStep
<1>. QED
  BY <1>1, <1>2, Soundness, PTL DEF Spec, KeepsPromise, Promise!Spec
=============================================================================
