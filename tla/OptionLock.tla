----------------------------- MODULE OptionLock -----------------------------
(***************************************************************************)
(* option_lock::OptionLock (src/option-lock/src/lock.rs): a lock around an *)
(* Option value made of one state byte and an uninitialised cell.  Every   *)
(* atomic operation on the byte, and every read or write of the cell, is   *)
(* a step of its own, so the threads' steps interleave as they do in the   *)
(* program.                                                                *)
(*                                                                         *)
(* Memory ordering is modelled as far as the lock depends on it.  sees is  *)
(* the set of threads that the latest access to the cell happens before;   *)
(* published says whether the value in the state byte was stored by a      *)
(* Release that carries that access.  An Acquire (or AcqRel) operation     *)
(* that reads a published byte adds its thread to sees.  A thread that     *)
(* reads the cell without being in sees races: it may find anything.       *)
(***************************************************************************)
EXTENDS Integers, FiniteSets, Functions

CONSTANTS
    Thread,     \* the threads that share the lock
    Value,      \* the values that move through it
    NoValue,    \* None; also the content of the cell before its first write
    Programs    \* the programs that share it, and where they run

Methods == {"try_lock", "spin_lock", "try_lock_none", "spin_lock_none",
            "try_take", "spin_take", "replace", "take", "owned"}

\* calls[t] are the methods that thread t calls.  fences says that the target
\* orders every read-modify-write as a fence (x86-64); where it does not, only
\* the orderings that the source names hold.
Program == [calls : [Thread -> SUBSET Methods], fences : BOOLEAN]

ASSUME OptionLockAssumption ==
    /\ NoValue \notin Value
    /\ Programs \subseteq Program

\* The bits of the state byte.  Zero: locked by a guard that found no value.
SOME == 1
FREE == 2
AVAILABLE == 3

VARIABLES
    state,      \* the state byte
    data,       \* the bits in the cell; taking a value does not clear them
    pc,         \* pc[t]: where thread t is inside the methods
    filled,     \* filled[t]: the `filled` field of the guard t holds
    arg,        \* arg[t]: the value t's replace() is about to write
    ret,        \* ret[t]: the value t's replace() has read out
    held,       \* held[t]: the values t owns
    dropped,    \* the values dropped with a lock
    sees,       \* the threads ordered after the latest access to the cell
    published,  \* whether an acquiring read of the byte gives that order
    program     \* the one of Programs that this is about; it does not change

cellvars == <<data, sees>>
guardvars == <<filled, arg, ret>>
vars == <<state, data, pc, filled, arg, ret, held, dropped, sees, published,
          program>>

\* Op[t]: the methods of thread t.
Op == program.calls
Tso == program.fences

Spinning == {"spin_lock", "spin_lock_none", "spin_take"}
Waiting  == {"wait_lock", "wait_lock_none", "wait_take"}
Guarded  == {"guard", "replacing", "taking", "taken"}

TypeOK ==
    /\ state \in 0..AVAILABLE
    /\ data \in Value \cup {NoValue}
    /\ pc \in [Thread -> {"idle"} \cup Spinning \cup Waiting \cup Guarded]
    /\ filled \in [Thread -> BOOLEAN]
    /\ arg \in [Thread -> Value \cup {NoValue}]
    /\ ret \in [Thread -> Value \cup {NoValue}]
    /\ held \in [Thread -> SUBSET Value]
    /\ dropped \subseteq Value
    /\ sees \subseteq Thread
    /\ published \in BOOLEAN
    /\ program \in Programs

HasGuard(t) == pc[t] \in Guarded
HasSome(s) == s \in {SOME, AVAILABLE}
IsFree(s) == s \in {FREE, AVAILABLE}

\* The value that a read of these bits moves out of the cell.
Moved(bits) == {bits} \cap Value

-----------------------------------------------------------------------------
(* The lock is built, empty or full, before it is shared, so every thread  *)
(* is ordered after its construction.                                      *)

Init ==
    /\ data \in Value \cup {NoValue}
    /\ state = IF data = NoValue THEN FREE ELSE AVAILABLE
    /\ pc = [t \in Thread |-> "idle"]
    /\ filled = [t \in Thread |-> FALSE]
    /\ arg = [t \in Thread |-> NoValue]
    /\ ret = [t \in Thread |-> NoValue]
    /\ held \in [Thread -> SUBSET Value]
    /\ \A v \in Value :
          IF data = v THEN \A t \in Thread : v \notin held[t]
                      ELSE \E t \in Thread : {u \in Thread : v \in held[u]} = {t}
    /\ dropped = {}
    /\ sees = Thread
    /\ published = TRUE
    /\ program \in Programs

\* A method that locks starts from its caller, or as the retry of its spin
\* loop; when it fails it returns None, or the loop goes on to wait.
Calls(t, method, spin) ==
    \/ pc[t] = "idle" /\ method \in Op[t]
    \/ pc[t] = spin

Failed(t, spin, wait) ==
    /\ pc[t] = spin
    /\ pc' = [pc EXCEPT ![t] = wait]
    /\ UNCHANGED <<state, data, guardvars, held, dropped, sees, published, program>>

\* The atomic operation hands out a guard.
Acquired(t, next, some, acquire) ==
    /\ pc' = [pc EXCEPT ![t] = next]
    /\ filled' = [filled EXCEPT ![t] = some]
    /\ sees' = IF published /\ (acquire \/ Tso) THEN sees \cup {t} ELSE sees
    /\ UNCHANGED <<data, arg, ret, held, dropped, published, program>>

-----------------------------------------------------------------------------
(* The spin methods: each enters its loop, retries, and between two tries  *)
(* watches the byte with relaxed loads, which order nothing.               *)

SpinStart(t) ==
    /\ pc[t] = "idle"
    /\ \E method \in Spinning \cap Op[t] :
          /\ method = "spin_lock_none" => held[t] # {}
          /\ pc' = [pc EXCEPT ![t] = method]
    /\ UNCHANGED <<state, data, guardvars, held, dropped, sees, published, program>>

SpinWatch(t) ==
    /\ \/ /\ pc[t] = "wait_lock" /\ IsFree(state)
          /\ pc' = [pc EXCEPT ![t] = "spin_lock"]
       \/ /\ pc[t] = "wait_lock_none" /\ state = FREE
          /\ pc' = [pc EXCEPT ![t] = "spin_lock_none"]
       \/ /\ pc[t] = "wait_take" /\ state = AVAILABLE
          /\ pc' = [pc EXCEPT ![t] = "spin_take"]
    /\ UNCHANGED <<state, data, guardvars, held, dropped, sees, published, program>>

\* Broken variant: subtract the bit without a test that it is set.
TryLockBlind(t) ==
    /\ Calls(t, "try_lock", "spin_lock")
    /\ state' = state - FREE
    /\ Acquired(t, "guard", HasSome(state), FALSE)

\* fetch_and(!FREE, Release): takes the lock if it was free, and is not an
\* acquiring operation.
TryLock(t) ==
    /\ Calls(t, "try_lock", "spin_lock")
    /\ IF IsFree(state)
         THEN /\ state' = state - FREE
              /\ Acquired(t, "guard", HasSome(state), FALSE)
         ELSE Failed(t, "spin_lock", "wait_lock")

\* Broken variant: any lock that is free will do.
TryLockNoneAny(t) ==
    /\ Calls(t, "try_lock_none", "spin_lock_none")
    /\ IF IsFree(state)
         THEN /\ state' = 0
              /\ Acquired(t, "guard", FALSE, TRUE)
         ELSE Failed(t, "spin_lock_none", "wait_lock_none")

\* compare_exchange_weak(FREE, 0, AcqRel, Relaxed).  A spurious failure is
\* retried at once and changes nothing.
TryLockNone(t) ==
    /\ Calls(t, "try_lock_none", "spin_lock_none")
    /\ IF state = FREE
         THEN /\ state' = 0
              /\ Acquired(t, "guard", FALSE, TRUE)
         ELSE Failed(t, "spin_lock_none", "wait_lock_none")

\* Broken variant: expect the SOME bit, whether the lock is free or not.
TryTakeLocked(t) ==
    /\ Calls(t, "try_take", "spin_take")
    /\ IF HasSome(state)
         THEN /\ state' = SOME
              /\ Acquired(t, "taking", TRUE, TRUE)
         ELSE Failed(t, "spin_take", "wait_take")

\* compare_exchange_weak(AVAILABLE, SOME, AcqRel, Relaxed), then take() on a
\* guard that is dropped at the end of the same expression.
TryTake(t) ==
    /\ Calls(t, "try_take", "spin_take")
    /\ IF state = AVAILABLE
         THEN /\ state' = SOME
              /\ Acquired(t, "taking", TRUE, TRUE)
         ELSE Failed(t, "spin_take", "wait_take")

-----------------------------------------------------------------------------
(* The guard.  Replacing a stored value reads the old one before it writes *)
(* the new one: two accesses to the cell.                                  *)

\* What a read of the cell may return: its content, or anything at all when
\* nothing orders the reader after the latest access.
Readable(t) == IF t \in sees THEN {data} ELSE Value \cup {NoValue}

ReplaceBegin(t) ==
    /\ pc[t] = "guard" /\ "replace" \in Op[t]
    /\ \E v \in held[t] :
          /\ arg' = [arg EXCEPT ![t] = v]
          /\ held' = [held EXCEPT ![t] = @ \ {v}]
    /\ IF filled[t]
         THEN /\ \E bits \in Readable(t) : ret' = [ret EXCEPT ![t] = bits]
              /\ sees' = {t}
         ELSE UNCHANGED <<ret, sees>>
    /\ filled' = [filled EXCEPT ![t] = TRUE]
    /\ pc' = [pc EXCEPT ![t] = "replacing"]
    /\ UNCHANGED <<state, data, dropped, published, program>>

ReplaceEnd(t) ==
    /\ pc[t] = "replacing"
    /\ data' = arg[t]
    /\ sees' = {t}
    /\ held' = [held EXCEPT ![t] = @ \cup Moved(ret[t])]
    /\ arg' = [arg EXCEPT ![t] = NoValue]
    /\ ret' = [ret EXCEPT ![t] = NoValue]
    /\ pc' = [pc EXCEPT ![t] = "guard"]
    /\ UNCHANGED <<state, filled, dropped, published, program>>

\* Broken variant: the guard still counts as filled after take().
GuardTakeStaysFilled(t) ==
    /\ \/ pc[t] = "guard" /\ "take" \in Op[t]
       \/ pc[t] = "taking"
    /\ filled[t]
    /\ \E bits \in Readable(t) :
          held' = [held EXCEPT ![t] = @ \cup Moved(bits)]
    /\ sees' = {t}
    /\ pc' = [pc EXCEPT ![t] = IF @ = "taking" THEN "taken" ELSE "guard"]
    /\ UNCHANGED <<state, data, filled, arg, ret, dropped, published, program>>

\* take() of a guard that is_some(); on an empty guard it returns None and
\* changes nothing.
GuardTake(t) ==
    /\ \/ pc[t] = "guard" /\ "take" \in Op[t]
       \/ pc[t] = "taking"
    /\ filled[t]
    /\ filled' = [filled EXCEPT ![t] = FALSE]
    /\ \E bits \in Readable(t) :
          held' = [held EXCEPT ![t] = @ \cup Moved(bits)]
    /\ sees' = {t}
    /\ pc' = [pc EXCEPT ![t] = IF @ = "taking" THEN "taken" ELSE "guard"]
    /\ UNCHANGED <<state, data, arg, ret, dropped, published, program>>

\* Broken variants: a relaxed store; and one that forgets the value.
GuardDropRelaxed(t) ==
    /\ pc[t] \in {"guard", "taken"}
    /\ state' = IF filled[t] THEN AVAILABLE ELSE FREE
    /\ published' = FALSE
    /\ pc' = [pc EXCEPT ![t] = "idle"]
    /\ filled' = [filled EXCEPT ![t] = FALSE]
    /\ UNCHANGED <<data, arg, ret, held, dropped, sees, program>>

GuardDropFree(t) ==
    /\ pc[t] \in {"guard", "taken"}
    /\ state' = FREE
    /\ published' = (t \in sees)
    /\ pc' = [pc EXCEPT ![t] = "idle"]
    /\ filled' = [filled EXCEPT ![t] = FALSE]
    /\ UNCHANGED <<data, arg, ret, held, dropped, sees, program>>

\* Drop of the guard: store(AVAILABLE or FREE, Release).
GuardDrop(t) ==
    /\ pc[t] \in {"guard", "taken"}
    /\ state' = IF filled[t] THEN AVAILABLE ELSE FREE
    /\ published' = (t \in sees)
    /\ pc' = [pc EXCEPT ![t] = "idle"]
    /\ filled' = [filled EXCEPT ![t] = FALSE]
    /\ UNCHANGED <<data, arg, ret, held, dropped, sees, program>>

-----------------------------------------------------------------------------
(* Methods that own the lock (&mut self or self): the borrow checker lets  *)
(* no guard and no other caller overlap, and whatever hands the lock over  *)
(* orders the threads.                                                     *)

Owned(t) ==
    /\ "owned" \in Op[t]
    /\ \A u \in Thread : pc[u] = "idle"
    /\ sees' = Thread
    /\ UNCHANGED <<pc, guardvars, published, program>>

OwnedValue == IF HasSome(state) THEN Moved(data) ELSE {}

OwnedReplace(t) ==
    /\ Owned(t)
    /\ \E v \in held[t] :
          /\ data' = v
          /\ held' = [held EXCEPT ![t] =
                         (@ \ {v}) \cup OwnedValue]
    /\ state' = IF HasSome(state) THEN state ELSE state + SOME
    /\ UNCHANGED dropped

OwnedTake(t) ==
    /\ Owned(t)
    /\ HasSome(state)
    /\ state' = state - SOME
    /\ held' = [held EXCEPT ![t] = @ \cup Moved(data)]
    /\ UNCHANGED <<data, dropped>>

\* into_inner() consumes the lock; a fresh OptionLock::empty() replaces it.
IntoInner(t) ==
    /\ Owned(t)
    /\ state' = FREE
    /\ data' = NoValue
    /\ held' = [held EXCEPT ![t] = @ \cup OwnedValue]
    /\ UNCHANGED dropped

\* Drop of the lock drops its value; a fresh OptionLock::empty() replaces it.
LockDrop(t) ==
    /\ Owned(t)
    /\ dropped' = dropped \cup OwnedValue
    /\ state' = FREE
    /\ data' = NoValue
    /\ UNCHANGED held

-----------------------------------------------------------------------------

\* The steps a thread takes once it is inside a method or holds a guard.
Step(t) ==
    \/ SpinStart(t)
    \/ SpinWatch(t)
    \/ TryLock(t)
    \/ TryLockNone(t)
    \/ TryTake(t)
    \/ ReplaceBegin(t)
    \/ ReplaceEnd(t)
    \/ GuardTake(t)
    \/ GuardDrop(t)

OwnerStep(t) ==
    \/ OwnedReplace(t)
    \/ OwnedTake(t)
    \/ IntoInner(t)
    \/ LockDrop(t)

Next == \E t \in Thread : Step(t) \/ OwnerStep(t)

Spec == Init /\ [][Next]_vars

\* Every thread keeps running; one that locks an empty cell to fill it does
\* so before it drops the guard, and drops the guard in the end: what the
\* loops of benches/contention.rs do.
FairSpec ==
    /\ Spec
    /\ \A t \in Thread :
          WF_vars(Step(t)) /\ SF_vars(ReplaceBegin(t)) /\ SF_vars(GuardDrop(t))

-----------------------------------------------------------------------------
(* Properties *)

\* The value is in the cell and belongs to it: the lock's SOME bit says so,
\* or, while a guard is out, the guard's filled flag does and it is not
\* between the two halves of a replace.
StoredBy(t) == IF pc[t] = "replacing" THEN ret[t] # NoValue ELSE filled[t]

Stored ==
    IF \E t \in Thread : HasGuard(t)
      THEN \E t \in Thread : HasGuard(t) /\ StoredBy(t)
      ELSE HasSome(state)

\* A guard is exclusive ("an exclusive read/write lock", lock.rs:132), and
\* is_locked() is true exactly while one is out: two compare-exchanges and a
\* fetch_and, each with its own expected value, must agree on what locked is.
GuardExclusive ==
    /\ \A t, u \in Thread : HasGuard(t) /\ HasGuard(u) => t = u
    /\ ~IsFree(state) <=> \E t \in Thread : HasGuard(t)

\* Where a value is.  taking() a value leaves its bits in the cell, so a
\* wrong flag would hand the same value out twice, or lose it.
Owners(v) ==
    Cardinality({t \in Thread : v \in held[t]})
      + Cardinality({t \in Thread : arg[t] = v})
      + (IF Stored /\ data = v THEN 1 ELSE 0)
      + (IF v \in dropped THEN 1 ELSE 0)

\* No value is ever duplicated, lost or dropped twice by the unsafe reads
\* and writes of the cell, and an uninitialised cell is never taken for a
\* value (lock.rs:308-330, 81-88, 202-232).
ValuesConserved ==
    /\ \A v \in Value : Owners(v) = 1
    /\ Stored => data \in Value

\* Whoever holds a guard is ordered after the latest access to the cell, so
\* that no read or write of the cell is a data race (unsafe impl Sync,
\* lock.rs:23): the byte's orderings must carry every hand-over.
NoDataRace == \A t \in Thread : HasGuard(t) => t \in sees

\* The lock behaves as the atomic, guarded Option it promises to be.  A
\* replace takes effect when it writes.
Promise == INSTANCE LockedOption WITH
    cell   <- IF Stored THEN data ELSE NoValue,
    holder <- {t \in Thread : HasGuard(t)},
    held   <- [t \in Thread |-> held[t] \cup Moved(arg[t])]

ImplementsPromise == Promise!Spec

\* The hand-over of benches/contention.rs: with fair threads every value a
\* producer puts in is, in the end, out of the lock and with a consumer.
Consumers == {t \in Thread : Op[t] = {"spin_take"}}
Producers == {t \in Thread : Op[t] = {"spin_lock_none", "replace"}}
Delivered ==
    Thread = Producers \cup Consumers
      => <>[](\A v \in Value : \E t \in Consumers : v \in held[t])
=============================================================================
