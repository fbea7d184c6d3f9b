-------------------------- MODULE OptionLockProofs --------------------------
(***************************************************************************)
(* What holds of OptionLock for any threads, any values and any programs   *)
(* of the threads: its guards are exclusive, and its hand-overs order the  *)
(* accesses to the cell when no thread locks by try_lock, or when the      *)
(* target fences every read-modify-write.  And of OnceCell: its value is   *)
(* never reassigned.                                                       *)
(***************************************************************************)
EXTENDS OnceCell, TLAPS, FiniteSetTheorems

\* The state byte and every local of every method stay in their domains.
LEMMA TypeInit == Init => TypeOK
  BY OptionLockAssumption DEF Init, TypeOK, FREE, AVAILABLE

\* What every locking method hands out is a well-typed guard.
LEMMA AcquiredType ==
  ASSUME TypeOK, NEW t \in Thread, NEW next \in Guarded, NEW some \in BOOLEAN,
         NEW acquire \in BOOLEAN, Acquired(t, next, some, acquire),
         state' \in 0..AVAILABLE
  PROVE  TypeOK'
  BY OptionLockAssumption DEF TypeOK, Acquired

\* Every step keeps the types.
LEMMA TypeStep == TypeOK /\ [Next]_vars => TypeOK'
<1>. SUFFICES ASSUME TypeOK, [Next]_vars PROVE TypeOK'
  OBVIOUS
<1>. USE OptionLockAssumption DEF TypeOK, SOME, FREE, AVAILABLE,
       Spinning, Waiting, Guarded, guardvars
<1>1. ASSUME NEW t \in Thread, SpinStart(t) PROVE TypeOK'
  BY <1>1 DEF SpinStart
<1>2. ASSUME NEW t \in Thread, SpinWatch(t) PROVE TypeOK'
  BY <1>2 DEF SpinWatch
<1>3. ASSUME NEW t \in Thread, TryLock(t) PROVE TypeOK'
  <2>1. CASE IsFree(state)
    <3>1. state' \in 0..AVAILABLE /\ HasSome(state) \in BOOLEAN
      BY <1>3, <2>1 DEF TryLock, IsFree, HasSome
    <3>. QED
      BY <1>3, <2>1, <3>1, AcquiredType DEF TryLock
  <2>2. CASE ~IsFree(state)
    BY <1>3, <2>2 DEF TryLock, Failed
  <2>. QED
    BY <2>1, <2>2
<1>4. ASSUME NEW t \in Thread, TryLockNone(t) PROVE TypeOK'
  <2>1. CASE state = FREE
    <3>1. state' \in 0..AVAILABLE
      BY <1>4, <2>1 DEF TryLockNone
    <3>2. PICK some \in BOOLEAN : Acquired(t, "guard", some, TRUE)
      BY <1>4, <2>1 DEF TryLockNone
    <3>. QED
      BY <3>1, <3>2, AcquiredType
  <2>2. CASE state # FREE
    BY <1>4, <2>2 DEF TryLockNone, Failed
  <2>. QED
    BY <2>1, <2>2
<1>5. ASSUME NEW t \in Thread, TryTake(t) PROVE TypeOK'
  <2>1. CASE state = AVAILABLE
    <3>1. state' \in 0..AVAILABLE
      BY <1>5, <2>1 DEF TryTake
    <3>2. PICK some \in BOOLEAN : Acquired(t, "taking", some, TRUE)
      BY <1>5, <2>1 DEF TryTake
    <3>. QED
      BY <3>1, <3>2, AcquiredType
  <2>2. CASE state # AVAILABLE
    BY <1>5, <2>2 DEF TryTake, Failed
  <2>. QED
    BY <2>1, <2>2
<1>6. ASSUME NEW t \in Thread, ReplaceBegin(t) PROVE TypeOK'
  BY <1>6 DEF ReplaceBegin, Readable
<1>7. ASSUME NEW t \in Thread, ReplaceEnd(t) PROVE TypeOK'
  BY <1>7 DEF ReplaceEnd, Moved
<1>8. ASSUME NEW t \in Thread, GuardTake(t) PROVE TypeOK'
  BY <1>8 DEF GuardTake, Moved, Readable
<1>9. ASSUME NEW t \in Thread, GuardDrop(t) PROVE TypeOK'
  BY <1>9 DEF GuardDrop
<1>10. ASSUME NEW t \in Thread, OwnedReplace(t) PROVE TypeOK'
  BY <1>10 DEF OwnedReplace, OwnedValue, Moved, Owned, HasSome
<1>11. ASSUME NEW t \in Thread, OwnedTake(t) PROVE TypeOK'
  BY <1>11 DEF OwnedTake, OwnedValue, Moved, Owned, HasSome
<1>12. ASSUME NEW t \in Thread, IntoInner(t) PROVE TypeOK'
  BY <1>12 DEF IntoInner, OwnedValue, Moved, Owned, HasSome
<1>13. ASSUME NEW t \in Thread, LockDrop(t) PROVE TypeOK'
  BY <1>13 DEF LockDrop, OwnedValue, Moved, Owned, HasSome
<1>14. CASE UNCHANGED vars
  BY <1>14 DEF vars
<1>. QED
  BY <1>1, <1>2, <1>3, <1>4, <1>5, <1>6, <1>7, <1>8, <1>9, <1>10, <1>11,
     <1>12, <1>13, <1>14 DEF Next, Step, OwnerStep

\* Type correctness of the lock and of every method in progress.
THEOREM TypeCorrect == Spec => []TypeOK
  BY TypeInit, TypeStep, PTL DEF Spec

-----------------------------------------------------------------------------
(* Exclusion.  GuardExclusive is inductive once the byte is known to be    *)
(* one of its four values: only an operation that finds FREE set hands out *)
(* a guard, and it clears FREE in the same step.                           *)

\* A new lock has no guard, and its byte is free (lock.rs:26-41).
LEMMA ExclusiveInit == Init => GuardExclusive
  BY DEF Init, GuardExclusive, HasGuard, Guarded, IsFree, FREE, AVAILABLE

\* Handing out a guard keeps guards exclusive when none is out before it.
LEMMA AcquiredExclusive ==
  ASSUME TypeOK, GuardExclusive, NEW t \in Thread, NEW next \in Guarded,
         NEW some, NEW acquire, Acquired(t, next, some, acquire),
         IsFree(state), ~IsFree(state')
  PROVE  GuardExclusive'
  BY DEF TypeOK, GuardExclusive, HasGuard, Acquired

\* A step that moves no thread in or out of a guard, and no byte in or out of
\* the free values, keeps guards exclusive.
LEMMA SameGuards ==
  ASSUME GuardExclusive, \A u \in Thread : HasGuard(u)' <=> HasGuard(u),
         IsFree(state)' <=> IsFree(state)
  PROVE  GuardExclusive'
  BY DEF GuardExclusive

\* No step of any method hands out a second guard, or leaves the byte free while
\* one is out (lock.rs:91-199, 338-345).
LEMMA ExclusiveStep == TypeOK /\ GuardExclusive /\ [Next]_vars => GuardExclusive'
<1>. SUFFICES ASSUME TypeOK, GuardExclusive, [Next]_vars PROVE GuardExclusive'
  OBVIOUS
<1>. USE DEF SOME, FREE, AVAILABLE, Spinning, Waiting, Guarded, guardvars
<1>1. ASSUME NEW t \in Thread, SpinStart(t) PROVE GuardExclusive'
  BY <1>1, SameGuards DEF SpinStart, TypeOK, HasGuard
<1>2. ASSUME NEW t \in Thread, SpinWatch(t) PROVE GuardExclusive'
  BY <1>2, SameGuards DEF SpinWatch, TypeOK, HasGuard
<1>3. ASSUME NEW t \in Thread, TryLock(t) PROVE GuardExclusive'
  <2>1. CASE IsFree(state)
    <3>1. ~IsFree(state')
      BY <1>3, <2>1 DEF TryLock, IsFree
    <3>. QED
      BY <1>3, <2>1, <3>1, AcquiredExclusive DEF TryLock
  <2>2. CASE ~IsFree(state)
    BY <1>3, <2>2, SameGuards DEF TryLock, Failed, TypeOK, HasGuard
  <2>. QED
    BY <2>1, <2>2
<1>4. ASSUME NEW t \in Thread, TryLockNone(t) PROVE GuardExclusive'
  <2>1. CASE state = FREE
    <3>1. IsFree(state) /\ ~IsFree(state')
      BY <1>4, <2>1 DEF TryLockNone, IsFree
    <3>2. Acquired(t, "guard", FALSE, TRUE)
      BY <1>4, <2>1 DEF TryLockNone
    <3>. QED
      BY <3>1, <3>2, AcquiredExclusive
  <2>2. CASE state # FREE
    BY <1>4, <2>2, SameGuards DEF TryLockNone, Failed, TypeOK, HasGuard
  <2>. QED
    BY <2>1, <2>2
<1>5. ASSUME NEW t \in Thread, TryTake(t) PROVE GuardExclusive'
  <2>1. CASE state = AVAILABLE
    <3>1. IsFree(state) /\ ~IsFree(state')
      BY <1>5, <2>1 DEF TryTake, IsFree
    <3>2. Acquired(t, "taking", TRUE, TRUE)
      BY <1>5, <2>1 DEF TryTake
    <3>. QED
      BY <3>1, <3>2, AcquiredExclusive
  <2>2. CASE state # AVAILABLE
    BY <1>5, <2>2, SameGuards DEF TryTake, Failed, TypeOK, HasGuard
  <2>. QED
    BY <2>1, <2>2
<1>6. ASSUME NEW t \in Thread, ReplaceBegin(t) PROVE GuardExclusive'
  BY <1>6, SameGuards DEF ReplaceBegin, TypeOK, HasGuard
<1>7. ASSUME NEW t \in Thread, ReplaceEnd(t) PROVE GuardExclusive'
  BY <1>7, SameGuards DEF ReplaceEnd, TypeOK, HasGuard
<1>8. ASSUME NEW t \in Thread, GuardTake(t) PROVE GuardExclusive'
  BY <1>8, SameGuards DEF GuardTake, TypeOK, HasGuard
<1>9. ASSUME NEW t \in Thread, GuardDrop(t) PROVE GuardExclusive'
  BY <1>9 DEF GuardDrop, TypeOK, GuardExclusive, HasGuard, IsFree
<1>10. ASSUME NEW t \in Thread, OwnerStep(t) PROVE GuardExclusive'
  <2>1. Owned(t) /\ UNCHANGED pc
    BY <1>10 DEF OwnerStep, OwnedReplace, OwnedTake, IntoInner, LockDrop, Owned
  <2>2. \A u \in Thread : ~HasGuard(u)
    BY <2>1 DEF Owned, HasGuard
  <2>3. IsFree(state)
    BY <2>2 DEF GuardExclusive
  <2>4. IsFree(state')
    BY <1>10, <2>3
    DEF OwnerStep, OwnedReplace, OwnedTake, IntoInner, LockDrop, IsFree, HasSome
  <2>. QED
    BY <2>1, <2>3, <2>4, SameGuards DEF HasGuard, IsFree
<1>11. CASE UNCHANGED vars
  BY <1>11, SameGuards DEF vars, HasGuard, IsFree
<1>. QED
  BY <1>1, <1>2, <1>3, <1>4, <1>5, <1>6, <1>7, <1>8, <1>9, <1>10, <1>11
  DEF Next, Step

\* At most one guard is out, and the byte says so: for any number of threads
\* calling any of the methods (lock.rs:91-199, 338-345).
THEOREM Exclusion == Spec => []GuardExclusive
<1>1. TypeOK /\ GuardExclusive /\ [Next]_vars => (TypeOK /\ GuardExclusive)'
  BY TypeStep, ExclusiveStep
<1>. QED
  BY <1>1, TypeInit, ExclusiveInit, PTL DEF Spec

-----------------------------------------------------------------------------
(* Data races.  try_lock's fetch_and is the one locking operation that     *)
(* does not acquire; without it (or on a target where every               *)
(* read-modify-write fences) each hand-over of the cell is ordered.        *)

\* Every locking operation of every program acquires.
Acquiring ==
    \A p \in Programs :
        p.fences \/ \A t \in Thread : p.calls[t] \cap {"try_lock", "spin_lock"} = {}

\* The invariant: while no guard is out the byte publishes the latest access,
\* so that whoever locks next is ordered after it, and stays so; no thread is
\* inside a method its program does not call.
Ordered ==
    /\ NoDataRace
    /\ (\A t \in Thread : ~HasGuard(t)) => published
    /\ \A t \in Thread : pc[t] \in {"spin_lock", "wait_lock"} => "spin_lock" \in Op[t]

\* Nobody has accessed a new lock's value yet (lock.rs:26-41).
LEMMA OrderedInit == Init => Ordered
  BY DEF Init, Ordered, NoDataRace, HasGuard, Guarded

\* An acquiring operation that hands out a guard keeps the order.
LEMMA AcquiredOrdered ==
  ASSUME TypeOK, GuardExclusive, Ordered, NEW t \in Thread, NEW next \in Guarded,
         NEW some, NEW acquire, Acquired(t, next, some, acquire),
         acquire \/ Tso, IsFree(state)
  PROVE  Ordered'
<1>1. published
  BY DEF GuardExclusive, Ordered
<1>2. sees' = sees \cup {t} /\ pc' = [pc EXCEPT ![t] = next]
  BY <1>1 DEF Acquired
<1>3. \A u \in Thread : ~HasGuard(u)
  BY DEF GuardExclusive
<1>. QED
  BY <1>1, <1>2, <1>3 DEF Acquired, Ordered, NoDataRace, HasGuard, Guarded, TypeOK, Op

\* A step that moves no thread in or out of a guard or of a try_lock, and
\* leaves the order alone, keeps it.
LEMMA SameOrder ==
  ASSUME Ordered, \A u \in Thread : HasGuard(u)' <=> HasGuard(u),
         UNCHANGED <<sees, published, program>>,
         \A u \in Thread : pc'[u] \in {"spin_lock", "wait_lock"} =>
             pc[u] \in {"spin_lock", "wait_lock"} \/ "spin_lock" \in Op[u]
  PROVE  Ordered'
  BY DEF Ordered, NoDataRace, Op

\* When the locking methods acquire, each step passes the order of accesses on,
\* from the byte's last writer to whoever gets the next guard (lock.rs:133-199).
LEMMA OrderedStep ==
  ASSUME Acquiring, TypeOK, GuardExclusive, Ordered, [Next]_vars
  PROVE  Ordered'
<1>. USE DEF Spinning, Waiting, Guarded, guardvars
<1>1. ASSUME NEW t \in Thread, SpinStart(t) PROVE Ordered'
  BY <1>1, SameOrder DEF SpinStart, TypeOK, HasGuard
<1>2. ASSUME NEW t \in Thread, SpinWatch(t) PROVE Ordered'
  BY <1>2, SameOrder DEF SpinWatch, TypeOK, HasGuard
<1>3. ASSUME NEW t \in Thread, TryLock(t) PROVE Ordered'
  <2>1. CASE IsFree(state)
    <3>1. Tso
      BY <1>3 DEF TryLock, Calls, Ordered, Acquiring, TypeOK, Op, Tso
    <3>. QED
      BY <1>3, <2>1, <3>1, AcquiredOrdered DEF TryLock
  <2>2. CASE ~IsFree(state)
    BY <1>3, <2>2, SameOrder DEF TryLock, Failed, TypeOK, HasGuard
  <2>. QED
    BY <2>1, <2>2
<1>4. ASSUME NEW t \in Thread, TryLockNone(t) PROVE Ordered'
  <2>1. CASE state = FREE
    <3>1. IsFree(state)
      BY <2>1 DEF IsFree
    <3>2. Acquired(t, "guard", FALSE, TRUE)
      BY <1>4, <2>1 DEF TryLockNone
    <3>. QED
      BY <3>1, <3>2, AcquiredOrdered
  <2>2. CASE state # FREE
    BY <1>4, <2>2, SameOrder DEF TryLockNone, Failed, TypeOK, HasGuard
  <2>. QED
    BY <2>1, <2>2
<1>5. ASSUME NEW t \in Thread, TryTake(t) PROVE Ordered'
  <2>1. CASE state = AVAILABLE
    <3>1. IsFree(state)
      BY <2>1 DEF IsFree
    <3>2. Acquired(t, "taking", TRUE, TRUE)
      BY <1>5, <2>1 DEF TryTake
    <3>. QED
      BY <3>1, <3>2, AcquiredOrdered
  <2>2. CASE state # AVAILABLE
    BY <1>5, <2>2, SameOrder DEF TryTake, Failed, TypeOK, HasGuard
  <2>. QED
    BY <2>1, <2>2
<1>6. ASSUME NEW t \in Thread, ReplaceBegin(t) PROVE Ordered'
  BY <1>6 DEF ReplaceBegin, TypeOK, HasGuard, GuardExclusive, Ordered, NoDataRace, Op
<1>7. ASSUME NEW t \in Thread, ReplaceEnd(t) PROVE Ordered'
  BY <1>7 DEF ReplaceEnd, TypeOK, HasGuard, GuardExclusive, Ordered, NoDataRace, Op
<1>8. ASSUME NEW t \in Thread, GuardTake(t) PROVE Ordered'
  BY <1>8 DEF GuardTake, TypeOK, HasGuard, GuardExclusive, Ordered, NoDataRace, Op
<1>9. ASSUME NEW t \in Thread, GuardDrop(t) PROVE Ordered'
  <2>1. published'
    BY <1>9 DEF GuardDrop, Ordered, NoDataRace, HasGuard
  <2>. QED
    BY <1>9, <2>1 DEF GuardDrop, TypeOK, HasGuard, Ordered, NoDataRace, Op
<1>10. ASSUME NEW t \in Thread, OwnerStep(t) PROVE Ordered'
  <2>1. Owned(t)
    BY <1>10 DEF OwnerStep, OwnedReplace, OwnedTake, IntoInner, LockDrop
  <2>. QED
    BY <2>1 DEF Owned, HasGuard, Ordered, NoDataRace, Op
<1>11. CASE UNCHANGED vars
  BY <1>11, SameOrder DEF vars, HasGuard
<1>. QED
  BY <1>1, <1>2, <1>3, <1>4, <1>5, <1>6, <1>7, <1>8, <1>9, <1>10, <1>11
  DEF Next, Step

\* No access to the cell is a data race, for any program that does not lock by
\* try_lock or spin_lock, and for every program on a target that fences
\* (lock.rs:133-199, 338-345).
THEOREM RaceFreedom == ASSUME Acquiring PROVE Spec => []NoDataRace
<1>1. Init => TypeOK /\ GuardExclusive /\ Ordered
  BY TypeInit, ExclusiveInit, OrderedInit
<1>2. TypeOK /\ GuardExclusive /\ Ordered /\ [Next]_vars
        => (TypeOK /\ GuardExclusive /\ Ordered)'
  BY Acquiring, TypeStep, ExclusiveStep, OrderedStep
<1>3. Ordered => NoDataRace
  BY DEF Ordered
<1>. QED
  BY <1>1, <1>2, <1>3, PTL DEF Spec

-----------------------------------------------------------------------------
(* Ownership.  Each value has one place: with a thread, in the cell, or    *)
(* dropped.  The bits that a guard has read but not yet moved are still    *)
(* the cell's.                                                             *)

Owns(t, v) == v \in held[t] \/ arg[t] = v
InCell(v) == Stored /\ data = v

OnePlace(v) ==
    /\ \A t \in Thread : ~(v \in held[t] /\ arg[t] = v)
    /\ \A t, u \in Thread : Owns(t, v) /\ Owns(u, v) => t = u
    /\ (\E t \in Thread : Owns(t, v)) => ~InCell(v) /\ v \notin dropped
    /\ InCell(v) => v \notin dropped
    /\ InCell(v) \/ v \in dropped \/ \E t \in Thread : Owns(t, v)

\* What a replace has in its hands, and that the cell is never taken for full
\* when it is not.
Replacing ==
    /\ \A t \in Thread :
          IF pc[t] = "replacing"
            THEN filled[t] /\ arg[t] \in Value /\ ret[t] \in {NoValue, data}
            ELSE arg[t] = NoValue /\ ret[t] = NoValue
    /\ Stored => data \in Value

Conserved == Replacing /\ \A v \in Value : OnePlace(v)

\* A value in one place counts once in Owners.
LEMMA CountedOnce ==
  ASSUME NEW v \in Value, OnePlace(v)
  PROVE  Owners(v) = 1
<1>. DEFINE H == {t \in Thread : v \in held[t]}
            A == {t \in Thread : arg[t] = v}
            C == IF InCell(v) THEN 1 ELSE 0
            D == IF v \in dropped THEN 1 ELSE 0
<1>1. Owners(v) = Cardinality(H) + Cardinality(A) + C + D
  BY DEF Owners, InCell
<1>2. \A x : Cardinality({x}) = 1
  BY FS_Singleton
<1>3. Cardinality({}) = 0
  BY FS_EmptySet
<1>4. \/ C = 1 /\ D = 0 /\ H = {} /\ A = {}
      \/ C = 0 /\ D = 1 /\ H = {} /\ A = {}
      \/ \E t \in Thread : C = 0 /\ D = 0 /\ H = {t} /\ A = {}
      \/ \E t \in Thread : C = 0 /\ D = 0 /\ H = {} /\ A = {t}
  <2>1. CASE \E t \in Thread : Owns(t, v)
    <3>1. PICK t \in Thread : Owns(t, v)
      BY <2>1
    <3>2. C = 0 /\ D = 0
      BY <2>1 DEF OnePlace
    <3>3. \/ H = {t} /\ A = {}
          \/ H = {} /\ A = {t}
      BY <3>1 DEF OnePlace, Owns
    <3>. QED
      BY <3>2, <3>3
  <2>2. CASE ~ \E t \in Thread : Owns(t, v)
    <3>1. H = {} /\ A = {}
      BY <2>2 DEF Owns
    <3>2. (C = 1 /\ D = 0) \/ (C = 0 /\ D = 1)
      BY <2>2 DEF OnePlace
    <3>. HIDE DEF H, A, C, D
    <3>. QED
      BY <3>1, <3>2
  <2>. QED
    BY <2>1, <2>2
<1>. HIDE DEF H, A, C, D
<1>5. \A t \in Thread : Cardinality({t}) = 1
  BY <1>2
<1>6. CASE H = {} /\ A = {}
  BY <1>1, <1>3, <1>4, <1>5, <1>6
<1>7. ASSUME NEW t \in Thread, H = {t}, A = {}, C = 0, D = 0 PROVE Owners(v) = 1
  <2>1. Cardinality(H) = 1 /\ Cardinality(A) = 0
    BY <1>3, <1>5, <1>7
  <2>. QED
    BY <2>1, <1>1, <1>7
<1>8. ASSUME NEW t \in Thread, H = {}, A = {t}, C = 0, D = 0 PROVE Owners(v) = 1
  <2>1. Cardinality(H) = 0 /\ Cardinality(A) = 1
    BY <1>3, <1>5, <1>8
  <2>. QED
    BY <2>1, <1>1, <1>8
<1>. QED
  BY <1>4, <1>6, <1>7, <1>8

\* Each value is with one thread, or in the cell, when the lock is built.
LEMMA ConservedInit == Init => Conserved
<1>. SUFFICES ASSUME Init PROVE Conserved
  OBVIOUS
<1>1. Stored <=> data \in Value
  BY OptionLockAssumption
  DEF Init, Stored, HasGuard, Guarded, HasSome, SOME, FREE, AVAILABLE
<1>2. Replacing
  BY <1>1 DEF Init, Replacing
<1>3. ASSUME NEW v \in Value PROVE OnePlace(v)
  <2>1. \A t \in Thread : Owns(t, v) <=> v \in held[t]
    BY OptionLockAssumption DEF Init, Owns
  <2>2. InCell(v) <=> data = v
    BY <1>1 DEF InCell
  <2>3. (\A t \in Thread : arg[t] # v) /\ dropped = {}
    BY OptionLockAssumption DEF Init
  <2>4. IF data = v THEN \A t \in Thread : v \notin held[t]
                    ELSE \E t \in Thread : {u \in Thread : v \in held[u]} = {t}
    BY DEF Init
  <2>. QED
    BY <2>1, <2>2, <2>3, <2>4 DEF OnePlace
<1>. QED
  BY <1>2, <1>3 DEF Conserved

\* A step that leaves what is owned, what is dropped and what the cell has.
LEMMA SameValues ==
  ASSUME Conserved, UNCHANGED <<held, arg, ret, data, dropped>>, Stored' <=> Stored,
         \A t \in Thread : /\ pc'[t] = "replacing" <=> pc[t] = "replacing"
                           /\ pc[t] = "replacing" => filled'[t] = filled[t]
  PROVE  Conserved'
  BY DEF Conserved, Replacing, OnePlace, Owns, InCell

\* While a guard is out, it says whether the cell is full; else the byte does.
LEMMA StoredByGuard ==
  ASSUME GuardExclusive, NEW t \in Thread, HasGuard(t)
  PROVE  Stored <=> StoredBy(t)
  BY DEF Stored, GuardExclusive

\* With no guard out the byte alone says whether the cell is full (lock.rs:91-107).
LEMMA StoredByByte ==
  ASSUME \A t \in Thread : ~HasGuard(t)
  PROVE  Stored <=> HasSome(state)
  BY DEF Stored

\* A guard that was handed out says of the cell what the byte said.
LEMMA AcquiredSame ==
  ASSUME TypeOK, GuardExclusive, GuardExclusive', Conserved, NEW t \in Thread,
         NEW next \in {"guard", "taking"}, NEW acquire,
         Acquired(t, next, HasSome(state), acquire), IsFree(state)
  PROVE  Conserved'
<1>. USE DEF Guarded
<1>1. \A u \in Thread : ~HasGuard(u)
  BY DEF GuardExclusive
<1>2. Stored <=> HasSome(state)
  BY <1>1, StoredByByte
<1>3. pc' = [pc EXCEPT ![t] = next] /\ filled' = [filled EXCEPT ![t] = HasSome(state)]
  BY DEF Acquired
<1>4. HasGuard(t)' /\ (StoredBy(t)' <=> HasSome(state))
  BY <1>3 DEF TypeOK, HasGuard, StoredBy
<1>5. Stored' <=> StoredBy(t)'
  BY <1>4 DEF Stored, GuardExclusive
<1>6. \A u \in Thread : pc'[u] # "replacing" /\ pc[u] # "replacing"
  BY <1>1, <1>3 DEF TypeOK, HasGuard
<1>. QED
  BY <1>2, <1>4, <1>5, <1>6, SameValues DEF Acquired

\* What the guard's methods do to the cell, when nobody races.  A replace reads the
\* old value out, and leaves it the cell's until it has written the new one.
LEMMA ReplaceReads ==
  ASSUME TypeOK, TypeOK', GuardExclusive, GuardExclusive', NoDataRace, Conserved,
         NEW t \in Thread, ReplaceBegin(t)
  PROVE  /\ pc[t] = "guard" /\ pc' = [pc EXCEPT ![t] = "replacing"]
         /\ filled' = [filled EXCEPT ![t] = TRUE]
         /\ \E v \in held[t] \cap Value :
               /\ arg' = [arg EXCEPT ![t] = v]
               /\ held' = [held EXCEPT ![t] = @ \ {v}]
         /\ arg[t] = NoValue /\ ret[t] = NoValue
         /\ IF filled[t] THEN ret' = [ret EXCEPT ![t] = data] ELSE ret' = ret
         /\ Stored' <=> Stored
         /\ UNCHANGED <<data, dropped>>
<1>. USE DEF Guarded
<1>1. HasGuard(t) /\ HasGuard(t)' /\ pc[t] = "guard" /\ pc' = [pc EXCEPT ![t] = "replacing"]
  BY DEF ReplaceBegin, HasGuard, TypeOK
<1>2. (Stored <=> filled[t]) /\ (Stored' <=> ret'[t] # NoValue)
  BY <1>1, StoredByGuard DEF StoredBy, TypeOK, Stored, GuardExclusive
<1>3. \E v \in held[t] \cap Value : /\ arg' = [arg EXCEPT ![t] = v]
                                  /\ held' = [held EXCEPT ![t] = @ \ {v}]
  BY DEF ReplaceBegin, TypeOK
<1>4. arg[t] = NoValue /\ ret[t] = NoValue
  BY <1>1 DEF Conserved, Replacing
<1>5. IF filled[t] THEN ret' = [ret EXCEPT ![t] = data] ELSE ret' = ret
  BY <1>1 DEF ReplaceBegin, Readable, NoDataRace
<1>6. Stored' <=> Stored
  BY <1>2, <1>4, <1>5, OptionLockAssumption DEF Conserved, Replacing, TypeOK
<1>. QED
  BY <1>1, <1>3, <1>4, <1>5, <1>6 DEF ReplaceBegin

\* The second half of a replace writes the new value in, and hands the old one, if any,
\* to the caller (lock.rs:308-322).
LEMMA ReplaceWrites ==
  ASSUME TypeOK, TypeOK', GuardExclusive, GuardExclusive', Conserved,
         NEW t \in Thread, ReplaceEnd(t)
  PROVE  /\ pc[t] = "replacing" /\ pc' = [pc EXCEPT ![t] = "guard"]
         /\ data' = arg[t] /\ arg[t] \in Value /\ Stored'
         /\ held' = [held EXCEPT ![t] = @ \cup IF Stored THEN {data} ELSE {}]
         /\ arg' = [arg EXCEPT ![t] = NoValue] /\ ret' = [ret EXCEPT ![t] = NoValue]
         /\ UNCHANGED <<filled, dropped>>
<1>. USE DEF Guarded
<1>1. HasGuard(t) /\ HasGuard(t)' /\ pc[t] = "replacing" /\ pc' = [pc EXCEPT ![t] = "guard"]
  BY DEF ReplaceEnd, HasGuard, TypeOK
<1>2. (Stored <=> ret[t] # NoValue) /\ (Stored' <=> filled'[t])
  BY <1>1, StoredByGuard DEF StoredBy, TypeOK, Stored, GuardExclusive
<1>3. filled[t] /\ arg[t] \in Value /\ ret[t] \in {NoValue, data}
  BY <1>1 DEF Conserved, Replacing
<1>4. Moved(ret[t]) = IF Stored THEN {data} ELSE {}
  BY <1>2, <1>3, OptionLockAssumption DEF Moved, Conserved, Replacing
<1>. QED
  BY <1>1, <1>2, <1>3, <1>4 DEF ReplaceEnd

\* take() of a guard moves the value out of the cell, to the caller (lock.rs:324-330).
LEMMA TakeMoves ==
  ASSUME TypeOK, TypeOK', GuardExclusive, GuardExclusive', NoDataRace, Conserved,
         NEW t \in Thread, GuardTake(t)
  PROVE  /\ HasGuard(t) /\ \A u \in Thread : HasGuard(u)' <=> HasGuard(u)
         /\ \A u \in Thread : pc'[u] # "replacing" /\ pc[u] # "replacing"
         /\ Stored /\ ~Stored' /\ data \in Value
         /\ held' = [held EXCEPT ![t] = @ \cup {data}]
         /\ UNCHANGED <<arg, ret, data, dropped>>
<1>. USE DEF Guarded
<1>1. HasGuard(t) /\ HasGuard(t)' /\ pc[t] # "replacing"
  BY DEF GuardTake, HasGuard, TypeOK
<1>2. Stored /\ ~Stored'
  BY <1>1, StoredByGuard DEF GuardTake, StoredBy, TypeOK, Stored, GuardExclusive
<1>3. \A u \in Thread : /\ pc'[u] # "replacing" /\ pc[u] # "replacing"
                        /\ HasGuard(u)' <=> HasGuard(u)
  BY <1>1 DEF GuardTake, TypeOK, GuardExclusive, HasGuard
<1>4. held' = [held EXCEPT ![t] = @ \cup {data}] /\ data \in Value
  BY <1>1, <1>2 DEF GuardTake, Readable, NoDataRace, Moved, Conserved, Replacing
<1>. QED
  BY <1>1, <1>2, <1>3, <1>4 DEF GuardTake

\* Dropping a guard frees the byte, and publishes what the guard said of the cell
\* (lock.rs:338-345).
LEMMA DropFrees ==
  ASSUME TypeOK, GuardExclusive, NEW t \in Thread, GuardDrop(t)
  PROVE  /\ HasGuard(t) /\ \A u \in Thread : ~HasGuard(u)'
         /\ \A u \in Thread : pc'[u] # "replacing" /\ pc[u] # "replacing"
         /\ Stored' <=> Stored
<1>. USE DEF Guarded
<1>1. HasGuard(t) /\ pc[t] # "replacing" /\ pc' = [pc EXCEPT ![t] = "idle"]
  BY DEF GuardDrop, HasGuard
<1>2. Stored <=> filled[t]
  BY <1>1, StoredByGuard DEF StoredBy
<1>3. \A u \in Thread : /\ pc'[u] # "replacing" /\ pc[u] # "replacing"
                        /\ ~HasGuard(u)'
  BY <1>1 DEF TypeOK, GuardExclusive, HasGuard
<1>4. Stored' <=> HasSome(state')
  BY <1>3 DEF Stored
<1>5. HasSome(state') <=> filled[t]
  BY DEF GuardDrop, HasSome, SOME, FREE, AVAILABLE
<1>. QED
  BY <1>1, <1>2, <1>3, <1>4, <1>5

\* While the lock is owned, nobody has a guard or is about to replace a value.
LEMMA OwnedAlone ==
  ASSUME Conserved, NEW t \in Thread, OwnerStep(t)
  PROVE  /\ \A u \in Thread : ~HasGuard(u) /\ ~HasGuard(u)'
         /\ \A u \in Thread : /\ arg[u] = NoValue /\ ret[u] = NoValue /\ pc'[u] = "idle"
                               /\ arg'[u] = NoValue /\ ret'[u] = NoValue
         /\ Stored <=> HasSome(state)
         /\ Stored' <=> HasSome(state')
         /\ OwnedValue = IF Stored THEN {data} ELSE {}
<1>1. Owned(t) /\ UNCHANGED <<pc, guardvars>>
  BY DEF OwnerStep, OwnedReplace, OwnedTake, IntoInner, LockDrop, Owned
<1>2. \A u \in Thread : ~HasGuard(u) /\ ~HasGuard(u)' /\ pc[u] = "idle"
  BY <1>1 DEF Owned, HasGuard, Guarded
<1>3. (Stored <=> HasSome(state)) /\ (Stored' <=> HasSome(state'))
  BY <1>2 DEF Stored
<1>4. /\ Replacing
      /\ \A u \in Thread : /\ arg[u] = NoValue /\ ret[u] = NoValue /\ pc'[u] = "idle"
                            /\ arg'[u] = NoValue /\ ret'[u] = NoValue
  BY <1>1, <1>2 DEF Conserved, Replacing, guardvars
<1>. QED
  BY <1>2, <1>3, <1>4 DEF OwnedValue, Moved, Replacing

\* Every step moves a value from one place to another, or leaves it.
LEMMA ConservedStep ==
  ASSUME TypeOK, TypeOK', GuardExclusive, GuardExclusive', NoDataRace, Conserved,
         [Next]_vars
  PROVE  Conserved'
<1>. USE DEF Guarded
<1>1. ASSUME NEW t \in Thread, SpinStart(t) PROVE Conserved'
  BY <1>1, SameValues DEF SpinStart, TypeOK, HasGuard, Spinning, guardvars, Stored, StoredBy
<1>2. ASSUME NEW t \in Thread, SpinWatch(t) PROVE Conserved'
  BY <1>2, SameValues DEF SpinWatch, TypeOK, HasGuard, guardvars, Stored, StoredBy
<1>3. ASSUME NEW t \in Thread, NEW spin \in Spinning, NEW wait \in Waiting,
             Failed(t, spin, wait)
      PROVE  Conserved'
  BY <1>3, SameValues
  DEF Failed, TypeOK, HasGuard, Spinning, Waiting, guardvars, Stored, StoredBy
<1>4. ASSUME NEW t \in Thread, TryLock(t) PROVE Conserved'
  BY <1>3, <1>4, AcquiredSame DEF TryLock, Spinning, Waiting
<1>5. ASSUME NEW t \in Thread, TryLockNone(t) PROVE Conserved'
  <2>1. state = FREE => IsFree(state) /\ HasSome(state) = FALSE
    BY DEF IsFree, HasSome, FREE, SOME, AVAILABLE
  <2>. QED
    BY <1>3, <1>5, <2>1, AcquiredSame DEF TryLockNone, Spinning, Waiting
<1>6. ASSUME NEW t \in Thread, TryTake(t) PROVE Conserved'
  <2>1. state = AVAILABLE => IsFree(state) /\ HasSome(state) = TRUE
    BY DEF IsFree, HasSome, FREE, SOME, AVAILABLE
  <2>. QED
    BY <1>3, <1>6, <2>1, AcquiredSame DEF TryTake, Spinning, Waiting

<1>7. ASSUME NEW t \in Thread, ReplaceBegin(t) PROVE Conserved'
  <2>1. PICK v \in held[t] \cap Value : /\ arg' = [arg EXCEPT ![t] = v]
                                      /\ held' = [held EXCEPT ![t] = @ \ {v}]
    BY <1>7, ReplaceReads
  <2>2. /\ pc' = [pc EXCEPT ![t] = "replacing"] /\ filled' = [filled EXCEPT ![t] = TRUE]
        /\ arg[t] = NoValue /\ ret[t] = NoValue
        /\ IF filled[t] THEN ret' = [ret EXCEPT ![t] = data] ELSE ret' = ret
        /\ (Stored' <=> Stored) /\ UNCHANGED <<data, dropped>>
    BY <1>7, ReplaceReads
  <2>3. Replacing'
    <3>1. \A u \in Thread \ {t} : /\ pc'[u] = pc[u] /\ filled'[u] = filled[u]
                                  /\ arg'[u] = arg[u] /\ ret'[u] = ret[u]
      BY <2>1, <2>2 DEF TypeOK
    <3>2. /\ pc'[t] = "replacing" /\ filled'[t] /\ arg'[t] = v
          /\ ret'[t] \in {NoValue, data}
      BY <2>1, <2>2 DEF TypeOK
    <3>. QED
      BY <2>1, <2>2, <3>1, <3>2 DEF Conserved, Replacing
  <2>4. ASSUME NEW w \in Value, NEW u \in Thread PROVE Owns(u, w)' <=> Owns(u, w)
    BY <2>1, <2>2, OptionLockAssumption DEF Owns, TypeOK
  <2>5. ASSUME NEW w \in Value PROVE OnePlace(w)'
    <3>1. \A u \in Thread : ~(w \in held'[u] /\ arg'[u] = w)
      BY <2>1, <2>5 DEF Conserved, OnePlace, TypeOK
    <3>. QED
      BY <2>2, <2>4, <3>1 DEF Conserved, OnePlace, InCell
  <2>. QED
    BY <2>3, <2>5 DEF Conserved
<1>8. ASSUME NEW t \in Thread, ReplaceEnd(t) PROVE Conserved'
  <2>1. /\ pc[t] = "replacing" /\ pc' = [pc EXCEPT ![t] = "guard"]
        /\ data' = arg[t] /\ arg[t] \in Value /\ Stored'
        /\ held' = [held EXCEPT ![t] = @ \cup IF Stored THEN {data} ELSE {}]
        /\ arg' = [arg EXCEPT ![t] = NoValue] /\ ret' = [ret EXCEPT ![t] = NoValue]
        /\ UNCHANGED <<filled, dropped>>
    BY <1>8, ReplaceWrites
  <2>2. Replacing'
    <3>1. \A u \in Thread \ {t} : pc'[u] = pc[u] /\ arg'[u] = arg[u] /\ ret'[u] = ret[u]
      BY <2>1 DEF TypeOK
    <3>2. \A u \in Thread \ {t} : pc[u] # "replacing"
      BY <2>1 DEF HasGuard, GuardExclusive
    <3>3. pc'[t] = "guard" /\ arg'[t] = NoValue /\ ret'[t] = NoValue
      BY <2>1 DEF TypeOK
    <3>. QED
      BY <2>1, <3>1, <3>2, <3>3 DEF Conserved, Replacing
  <2>3. ASSUME NEW w \in Value PROVE OnePlace(w)'
    <3>1. InCell(w)' <=> arg[t] = w
      BY <2>1 DEF InCell
    <3>2. \A u \in Thread : w \in held'[u] <=> w \in held[u] \/ (u = t /\ InCell(w))
      BY <2>1 DEF TypeOK, InCell
    <3>3. \A u \in Thread : arg'[u] = w <=> arg[u] = w /\ u # t
      BY <2>1, OptionLockAssumption DEF TypeOK
    <3>4. OnePlace(w) /\ dropped' = dropped
      BY <2>1 DEF Conserved
    <3>. QED
      BY <3>1, <3>2, <3>3, <3>4 DEF OnePlace, Owns
  <2>. QED
    BY <2>2, <2>3 DEF Conserved
<1>9. ASSUME NEW t \in Thread, GuardTake(t) PROVE Conserved'
  <2>1. /\ \A u \in Thread : pc'[u] # "replacing" /\ pc[u] # "replacing"
        /\ Stored /\ ~Stored'
        /\ held' = [held EXCEPT ![t] = @ \cup {data}]
        /\ UNCHANGED <<arg, ret, data, dropped>>
    BY <1>9, TakeMoves
  <2>2. Replacing'
    BY <2>1 DEF Conserved, Replacing
  <2>3. ASSUME NEW w \in Value PROVE OnePlace(w)'
    <3>1. ~InCell(w)' /\ (InCell(w) <=> data = w)
      BY <2>1 DEF InCell
    <3>2. \A u \in Thread : w \in held'[u] <=> w \in held[u] \/ (u = t /\ data = w)
      BY <2>1 DEF TypeOK
    <3>. QED
      BY <2>1, <3>1, <3>2 DEF Conserved, OnePlace, Owns
  <2>. QED
    BY <2>2, <2>3 DEF Conserved
<1>10. ASSUME NEW t \in Thread, GuardDrop(t) PROVE Conserved'
  BY <1>10, DropFrees, SameValues DEF GuardDrop
<1>11. ASSUME NEW t \in Thread, OwnerStep(t) PROVE Conserved'
  <2>3. (Stored <=> HasSome(state)) /\ (Stored' <=> HasSome(state'))
    BY <1>11, OwnedAlone
  <2>4. /\ Replacing
        /\ \A u \in Thread : /\ arg[u] = NoValue /\ ret[u] = NoValue /\ pc'[u] = "idle"
                              /\ arg'[u] = NoValue /\ ret'[u] = NoValue
    BY <1>11, OwnedAlone DEF Conserved
  <2>5. OwnedValue = IF Stored THEN {data} ELSE {}
    BY <1>11, OwnedAlone
  <2>6. ASSUME NEW w \in Value, NEW u \in Thread
        PROVE  /\ (Owns(u, w) <=> w \in held[u]) /\ (Owns(u, w)' <=> w \in held'[u])
               /\ arg[u] # w /\ arg'[u] # w
    BY <2>4, OptionLockAssumption DEF Owns
  <2>7. (\A w \in Value : OnePlace(w)') => Conserved'
    <3>1. Stored' => data' \in Value
      BY <1>11, <2>3, <2>4
      DEF OwnerStep, OwnedReplace, OwnedTake, IntoInner, LockDrop, HasSome, SOME, FREE,
          AVAILABLE, Replacing, TypeOK
    <3>. QED
      BY <2>4, <3>1 DEF Conserved, Replacing
  <2>. USE DEF SOME, FREE, AVAILABLE, HasSome
  <2>8. CASE OwnedReplace(t)
    <3>1. PICK v \in held[t] : /\ data' = v
                              /\ held' = [held EXCEPT ![t] = (@ \ {v}) \cup OwnedValue]
      BY <2>8 DEF OwnedReplace
    <3>2. v \in Value /\ Stored' /\ dropped' = dropped
      BY <2>3, <2>8, <3>1 DEF OwnedReplace, TypeOK
    <3>3. ASSUME NEW w \in Value PROVE OnePlace(w)'
      <4>1. InCell(w)' <=> w = v
        BY <3>1, <3>2 DEF InCell
      <4>2. \A u \in Thread : w \in held'[u] <=>
                 (w \in held[u] /\ ~(u = t /\ w = v)) \/ (u = t /\ InCell(w))
        BY <2>5, <3>1 DEF TypeOK, InCell
      <4>. QED
        BY <2>4, <2>6, <3>1, <3>2, <4>1, <4>2 DEF Conserved, OnePlace
    <3>. QED
      BY <2>7, <3>3
  <2>9. CASE OwnedTake(t)
    <3>1. /\ Stored /\ ~Stored'
          /\ held' = [held EXCEPT ![t] = @ \cup {data}] /\ UNCHANGED <<data, dropped>>
      <4>1. Stored /\ ~Stored'
        BY <2>3, <2>9 DEF OwnedTake, TypeOK
      <4>. QED
        BY <2>4, <2>9, <4>1 DEF OwnedTake, Moved, Replacing
    <3>2. ASSUME NEW w \in Value PROVE OnePlace(w)'
      <4>1. ~InCell(w)'
        BY <3>1 DEF InCell
      <4>2. \A u \in Thread : w \in held'[u] <=> w \in held[u] \/ (u = t /\ InCell(w))
        BY <3>1 DEF TypeOK, InCell
      <4>. QED
        BY <2>6, <3>1, <4>1, <4>2 DEF Conserved, OnePlace
    <3>. QED
      BY <2>7, <3>2
  <2>10. CASE IntoInner(t)
    <3>1. /\ ~Stored' /\ held' = [held EXCEPT ![t] = @ \cup OwnedValue] /\ dropped' = dropped
      BY <2>3, <2>10 DEF IntoInner
    <3>2. ASSUME NEW w \in Value PROVE OnePlace(w)'
      <4>1. ~InCell(w)'
        BY <3>1 DEF InCell
      <4>2. \A u \in Thread : w \in held'[u] <=> w \in held[u] \/ (u = t /\ InCell(w))
        BY <2>5, <3>1 DEF TypeOK, InCell
      <4>. QED
        BY <2>6, <3>1, <4>1, <4>2 DEF Conserved, OnePlace
    <3>. QED
      BY <2>7, <3>2
  <2>11. CASE LockDrop(t)
    <3>1. ~Stored' /\ held' = held /\ dropped' = dropped \cup OwnedValue
      BY <2>3, <2>11 DEF LockDrop
    <3>2. ASSUME NEW w \in Value PROVE OnePlace(w)'
      <4>1. ~InCell(w)' /\ (w \in dropped' <=> w \in dropped \/ InCell(w))
        BY <2>5, <3>1 DEF InCell
      <4>. QED
        BY <2>6, <3>1, <4>1 DEF Conserved, OnePlace
    <3>. QED
      BY <2>7, <3>2
  <2>. QED
    BY <1>11, <2>8, <2>9, <2>10, <2>11 DEF OwnerStep
<1>12. CASE UNCHANGED vars
  BY <1>12, SameValues DEF vars, Stored, StoredBy, HasGuard
<1>. QED
  BY <1>1, <1>2, <1>4, <1>5, <1>6, <1>7, <1>8, <1>9, <1>10, <1>11, <1>12
  DEF Next, Step

\* No value is duplicated, lost or dropped twice by the raw reads and writes of
\* the cell (lock.rs:308-330, 81-88, 202-232).
THEOREM Conservation == ASSUME Acquiring PROVE Spec => []ValuesConserved
<1>. DEFINE IInv == TypeOK /\ GuardExclusive /\ Ordered /\ Conserved
<1>1. Init => IInv
  BY TypeInit, ExclusiveInit, OrderedInit, ConservedInit
<1>2. IInv /\ [Next]_vars => IInv'
  BY Acquiring, TypeStep, ExclusiveStep, OrderedStep, ConservedStep DEF Ordered
<1>3. IInv => ValuesConserved
  BY CountedOnce DEF Conserved, Replacing, ValuesConserved
<1>. QED
  BY <1>1, <1>2, <1>3, PTL DEF Spec

-----------------------------------------------------------------------------
(* Refinement.  The cell of the promise holds what the byte or the guard    *)
(* says is stored; a thread has what it owns.                               *)

PCell == IF Stored THEN data ELSE NoValue
PHolder == {t \in Thread : HasGuard(t)}
PHeld == [t \in Thread |-> held[t] \cup Moved(arg[t])]

\* The facts that each step of the refinement uses.
Refined == TypeOK /\ GuardExclusive /\ Ordered /\ Conserved

\* A new lock is a new promise: the same values in the same places (lock.rs:26-41).
LEMMA PromiseInit == Init => Promise!Init
<1>. SUFFICES ASSUME Init PROVE Promise!Init
  OBVIOUS
<1>1. TypeOK /\ Conserved
  BY TypeInit, ConservedInit
<1>2. \A t \in Thread : ~HasGuard(t) /\ Moved(arg[t]) = {}
  BY OptionLockAssumption DEF Init, HasGuard, Guarded, Moved
<1>3. PHeld = held
  BY <1>1, <1>2 DEF PHeld, TypeOK
<1>4. PCell = data
  BY <1>2, OptionLockAssumption DEF Init, PCell, Stored, HasSome, SOME, FREE, AVAILABLE
<1>5. PCell \in Value \cup {NoValue} /\ PHolder = {} /\ PHeld \in [Thread -> SUBSET Value]
  BY <1>1, <1>2, <1>3, <1>4 DEF TypeOK, PHolder
<1>6. ASSUME NEW v \in Value
      PROVE  IF PCell = v THEN \A t \in Thread : v \notin PHeld[t]
                          ELSE \E t \in Thread : {u \in Thread : v \in PHeld[u]} = {t}
  BY <1>3, <1>4 DEF Init
<1>. QED
  BY <1>5, <1>6, Zenon DEF Promise!Init, PCell, PHolder, PHeld

\* A step that changes neither what is owned nor the guards is a stutter.
LEMMA Stutter ==
  ASSUME TypeOK, TypeOK', UNCHANGED <<held, arg, data>>, Stored' <=> Stored,
         \A t \in Thread : HasGuard(t)' <=> HasGuard(t)
  PROVE  UNCHANGED <<PCell, PHolder, PHeld>>
  BY DEF PCell, PHolder, PHeld

\* The abstract steps, in terms of what they read and change.
LEMMA PromiseSteps ==
  ASSUME TypeOK, TypeOK'
  PROVE  /\ (\E t \in Thread : PHolder = {} /\ PHolder' = {t} /\ UNCHANGED <<PCell, PHeld>>)
            => Promise!Next
         /\ (\E t \in Thread : PHolder = {t} /\ PHolder' = {} /\ UNCHANGED <<PCell, PHeld>>)
            => Promise!Next
         /\ (\E t \in Thread :
                /\ PHolder \subseteq {t} /\ PCell # NoValue /\ PCell' = NoValue
                /\ PHeld' = [PHeld EXCEPT ![t] = @ \cup {PCell}]
                /\ UNCHANGED PHolder) => Promise!Next
         /\ (\E t \in Thread, v \in Value :
                /\ PHolder \subseteq {t} /\ v \in PHeld[t] /\ PCell' = v
                /\ PHeld' = [PHeld EXCEPT ![t] = (@ \ {v}) \cup ({PCell} \cap Value)]
                /\ UNCHANGED PHolder) => Promise!Next
         /\ PHolder = {} /\ PCell' = NoValue /\ UNCHANGED <<PHolder, PHeld>>
            => Promise!Next
  BY Zenon DEF Promise!Next, Promise!Lock, Promise!Unlock, Promise!Take, Promise!Replace,
     Promise!Drop, Promise!MayAccess, PCell, PHolder, PHeld

\* Handing out a guard is Lock.
LEMMA AcquiredLocks ==
  ASSUME Refined, Refined', NEW t \in Thread, NEW next \in {"guard", "taking"},
         NEW acquire, Acquired(t, next, HasSome(state), acquire), IsFree(state)
  PROVE  Promise!Next
<1>. USE DEF Guarded
<1>1. \A u \in Thread : ~HasGuard(u)
  BY DEF GuardExclusive, Refined
<1>2. pc' = [pc EXCEPT ![t] = next] /\ filled' = [filled EXCEPT ![t] = HasSome(state)]
  BY DEF Acquired
<1>3. HasGuard(t)' /\ (StoredBy(t)' <=> HasSome(state))
  BY <1>2 DEF TypeOK, HasGuard, StoredBy, Refined
<1>4. PHolder = {} /\ PHolder' = {t}
  BY <1>1, <1>3 DEF PHolder, Refined, GuardExclusive
<1>5. Stored' <=> Stored
  BY <1>1, <1>3 DEF Stored, GuardExclusive, Refined
<1>6. UNCHANGED <<PCell, PHeld>>
  BY <1>5 DEF Acquired, PCell, PHeld
<1>. QED
  BY <1>4, <1>6, PromiseSteps DEF Refined

\* Every step of every method is one of the promise's, or changes nothing it can see:
\* the new value of a replace counts as the thread's until it is written
\* (lock.rs:91-345).
LEMMA PromiseStep ==
  ASSUME Refined, Refined', [Next]_vars
  PROVE  UNCHANGED <<PCell, PHolder, PHeld>> \/ Promise!Next
<1>. USE DEF Guarded, Refined
<1>1. ASSUME NEW t \in Thread, SpinStart(t) PROVE UNCHANGED <<PCell, PHolder, PHeld>>
  BY <1>1, Stutter DEF SpinStart, TypeOK, HasGuard, Spinning, guardvars, Stored, StoredBy
<1>2. ASSUME NEW t \in Thread, SpinWatch(t) PROVE UNCHANGED <<PCell, PHolder, PHeld>>
  BY <1>2, Stutter DEF SpinWatch, TypeOK, HasGuard, guardvars, Stored, StoredBy
<1>3. ASSUME NEW t \in Thread, NEW spin \in Spinning, NEW wait \in Waiting,
             Failed(t, spin, wait)
      PROVE  UNCHANGED <<PCell, PHolder, PHeld>>
  BY <1>3, Stutter
  DEF Failed, TypeOK, HasGuard, Spinning, Waiting, guardvars, Stored, StoredBy
<1>4. ASSUME NEW t \in Thread, TryLock(t)
      PROVE  UNCHANGED <<PCell, PHolder, PHeld>> \/ Promise!Next
  BY <1>3, <1>4, AcquiredLocks DEF TryLock, Spinning, Waiting
<1>5. ASSUME NEW t \in Thread, TryLockNone(t)
      PROVE  UNCHANGED <<PCell, PHolder, PHeld>> \/ Promise!Next
  <2>1. state = FREE => IsFree(state) /\ HasSome(state) = FALSE
    BY DEF IsFree, HasSome, FREE, SOME, AVAILABLE
  <2>. QED
    BY <1>3, <1>5, <2>1, AcquiredLocks DEF TryLockNone, Spinning, Waiting
<1>6. ASSUME NEW t \in Thread, TryTake(t)
      PROVE  UNCHANGED <<PCell, PHolder, PHeld>> \/ Promise!Next
  <2>1. state = AVAILABLE => IsFree(state) /\ HasSome(state) = TRUE
    BY DEF IsFree, HasSome, FREE, SOME, AVAILABLE
  <2>. QED
    BY <1>3, <1>6, <2>1, AcquiredLocks DEF TryTake, Spinning, Waiting
<1>7. ASSUME NEW t \in Thread, ReplaceBegin(t) PROVE UNCHANGED <<PCell, PHolder, PHeld>>
  <2>1. PICK v \in held[t] \cap Value : /\ arg' = [arg EXCEPT ![t] = v]
                                      /\ held' = [held EXCEPT ![t] = @ \ {v}]
    BY <1>7, ReplaceReads DEF Ordered
  <2>2. /\ pc[t] = "guard" /\ pc' = [pc EXCEPT ![t] = "replacing"]
        /\ arg[t] = NoValue /\ (Stored' <=> Stored) /\ data' = data
    BY <1>7, ReplaceReads DEF Ordered
  <2>3. UNCHANGED <<PCell, PHolder>>
    BY <2>2 DEF PCell, PHolder, HasGuard, TypeOK
  <2>4. \A u \in Thread : held'[u] \cup Moved(arg'[u]) = held[u] \cup Moved(arg[u])
    BY <2>1, <2>2, OptionLockAssumption DEF Moved, TypeOK
  <2>. QED
    BY <2>3, <2>4 DEF PHeld
<1>8. ASSUME NEW t \in Thread, ReplaceEnd(t) PROVE Promise!Next
  <2>. DEFINE v == arg[t]
  <2>1. /\ pc[t] = "replacing" /\ pc' = [pc EXCEPT ![t] = "guard"]
        /\ data' = v /\ v \in Value /\ Stored'
        /\ held' = [held EXCEPT ![t] = @ \cup IF Stored THEN {data} ELSE {}]
        /\ arg' = [arg EXCEPT ![t] = NoValue]
    BY <1>8, ReplaceWrites
  <2>2. PHolder = {t} /\ PHolder' = PHolder
    BY <2>1 DEF PHolder, HasGuard, GuardExclusive, TypeOK
  <2>3. PCell' = v
    BY <2>1 DEF PCell
  <2>4. v \in PHeld[t] /\ v \notin held[t]
    BY <2>1 DEF PHeld, Moved, Conserved, OnePlace
  <2>5. {PCell} \cap Value = IF Stored THEN {data} ELSE {}
    BY OptionLockAssumption DEF PCell, Conserved, Replacing
  <2>6. ASSUME NEW u \in Thread
        PROVE  held'[u] \cup Moved(arg'[u]) =
                 IF u = t THEN (PHeld[t] \ {v}) \cup ({PCell} \cap Value) ELSE PHeld[u]
    BY <2>1, <2>4, <2>5, OptionLockAssumption DEF PHeld, Moved, TypeOK
  <2>7. PHeld' = [PHeld EXCEPT ![t] = (@ \ {v}) \cup ({PCell} \cap Value)]
    BY <2>6 DEF PHeld
  <2>. QED
    BY <2>1, <2>2, <2>3, <2>4, <2>7, PromiseSteps
<1>9. ASSUME NEW t \in Thread, GuardTake(t) PROVE Promise!Next
  <2>1. /\ HasGuard(t) /\ (\A u \in Thread : HasGuard(u)' <=> HasGuard(u))
        /\ Stored /\ ~Stored' /\ data \in Value
        /\ held' = [held EXCEPT ![t] = @ \cup {data}]
        /\ UNCHANGED <<arg, data>>
    BY <1>9, TakeMoves DEF Ordered
  <2>2. PHolder = {t} /\ PHolder' = PHolder
    BY <2>1 DEF PHolder, GuardExclusive
  <2>3. PCell = data /\ PCell # NoValue /\ PCell' = NoValue
    BY <2>1, OptionLockAssumption DEF PCell
  <2>4. ASSUME NEW u \in Thread
        PROVE  held'[u] \cup Moved(arg'[u]) =
                 IF u = t THEN PHeld[t] \cup {PCell} ELSE PHeld[u]
    BY <2>1, <2>3 DEF PHeld, TypeOK
  <2>5. PHeld' = [PHeld EXCEPT ![t] = @ \cup {PCell}]
    BY <2>4 DEF PHeld
  <2>. QED
    BY <2>2, <2>3, <2>5, PromiseSteps
<1>10. ASSUME NEW t \in Thread, GuardDrop(t) PROVE Promise!Next
  <2>1. PHolder = {t} /\ PHolder' = {}
    BY <1>10, DropFrees DEF PHolder, GuardExclusive
  <2>2. UNCHANGED <<PCell, PHeld>>
    BY <1>10, DropFrees DEF PCell, PHeld, GuardDrop
  <2>. QED
    BY <2>1, <2>2, PromiseSteps
<1>11. ASSUME NEW t \in Thread, OwnerStep(t)
       PROVE  UNCHANGED <<PCell, PHolder, PHeld>> \/ Promise!Next
  <2>1. /\ \A u \in Thread : ~HasGuard(u) /\ ~HasGuard(u)'
        /\ \A u \in Thread : Moved(arg[u]) = {} /\ Moved(arg'[u]) = {}
        /\ (Stored <=> HasSome(state)) /\ (Stored' <=> HasSome(state'))
        /\ OwnedValue = IF Stored THEN {data} ELSE {}
    BY <1>11, OwnedAlone, OptionLockAssumption DEF Moved
  <2>2. PHolder = {} /\ PHolder' = {} /\ PHeld = held /\ PHeld' = held'
    BY <2>1 DEF PHolder, PHeld, TypeOK
  <2>3. {PCell} \cap Value = OwnedValue /\ (Stored => PCell = data /\ PCell # NoValue)
    BY <2>1, OptionLockAssumption DEF PCell, Conserved, Replacing
  <2>. USE DEF SOME, FREE, AVAILABLE, HasSome
  <2>4. CASE OwnedReplace(t)
    <3>1. PICK v \in held[t] : /\ data' = v
                              /\ held' = [held EXCEPT ![t] = (@ \ {v}) \cup OwnedValue]
      BY <2>4 DEF OwnedReplace
    <3>2. v \in Value /\ Stored'
      BY <2>1, <2>4, <3>1 DEF OwnedReplace, TypeOK
    <3>3. PCell' = v
      BY <3>1, <3>2 DEF PCell
    <3>. QED
      BY <2>2, <2>3, <3>1, <3>2, <3>3, PromiseSteps
  <2>5. ASSUME Stored, ~Stored', held' = [held EXCEPT ![t] = @ \cup {data}]
        PROVE  Promise!Next
    <3>1. PCell' = NoValue
      BY <2>5 DEF PCell
    <3>. QED
      BY <2>2, <2>3, <2>5, <3>1, PromiseSteps
  <2>6. CASE OwnedTake(t)
    <3>1. Stored /\ ~Stored' /\ data \in Value
      BY <2>1, <2>6 DEF OwnedTake, TypeOK, Conserved, Replacing
    <3>. QED
      BY <2>5, <2>6, <3>1 DEF OwnedTake, Moved
  <2>7. CASE IntoInner(t)
    <3>1. ~Stored' /\ held' = [held EXCEPT ![t] = @ \cup OwnedValue]
      BY <2>1, <2>7 DEF IntoInner
    <3>2. CASE Stored
      BY <2>1, <2>5, <3>1, <3>2
    <3>3. CASE ~Stored
      BY <2>1, <2>2, <3>1, <3>3 DEF PCell, TypeOK
    <3>. QED
      BY <3>2, <3>3
  <2>8. CASE LockDrop(t)
    <3>1. PCell' = NoValue
      BY <2>1, <2>8 DEF LockDrop, PCell
    <3>. QED
      BY <2>2, <2>8, <3>1, PromiseSteps DEF LockDrop
  <2>. QED
    BY <1>11, <2>4, <2>6, <2>7, <2>8 DEF OwnerStep
<1>12. CASE UNCHANGED vars
  BY <1>12, Stutter DEF vars, Stored, StoredBy, HasGuard
<1>. QED
  BY <1>1, <1>2, <1>4, <1>5, <1>6, <1>7, <1>8, <1>9, <1>10, <1>11, <1>12
  DEF Next, Step

\* The lock is the atomic, guarded Option it promises to be: each step is one of the
\* promise's or changes nothing of it, for any program that does not lock by
\* try_lock or spin_lock, and for every program on a target that fences
\* (lock.rs:91-345).
THEOREM Implements == ASSUME Acquiring PROVE Spec => ImplementsPromise
<1>1. Init => Refined
  BY TypeInit, ExclusiveInit, OrderedInit, ConservedInit DEF Refined
<1>2. Refined /\ [Next]_vars => Refined'
  BY Acquiring, TypeStep, ExclusiveStep, OrderedStep, ConservedStep DEF Ordered, Refined
<1>3. Refined /\ Refined' /\ [Next]_vars => [Promise!Next]_(Promise!lovars)
  <2>1. Promise!lovars = <<PCell, PHolder, PHeld>>
    BY DEF Promise!lovars, PCell, PHolder, PHeld
  <2>. QED
    BY <2>1, PromiseStep, Zenon DEF Promise!lovars, PCell, PHolder, PHeld
<1>. QED
  BY <1>1, <1>2, <1>3, PromiseInit, PTL DEF Spec, ImplementsPromise, Promise!Spec

-----------------------------------------------------------------------------
(* OnceCell: the threads of NullWaker::get call set() and get() of one     *)
(* cell.  get() takes no lock: what makes its reference good is that the   *)
(* value is never reassigned, and that the reader comes after its writer.  *)

Setting(t) == caller[t] = "locked"
Written == data # NoValue

OnceTypeOK ==
    /\ TypeOK
    /\ caller \in [Thread -> {"idle", "set", "locked", "again", "some", "panic"}]

\* Where the guard of a set() is: it finds the cell empty, and fills it in one
\* write (once.rs:36-42).
SetterAt(t) ==
    \/ pc[t] = "guard" /\ ~filled[t] /\ ~Written
    \/ pc[t] = "replacing" /\ filled[t] /\ ~Written /\ arg[t] \in Value
    \/ pc[t] = "guard" /\ filled[t] /\ Written /\ t \in sees

\* The invariant: the only guards are those of set(); one is out exactly while
\* the byte is zero; and the other two bytes say whether the value is written
\* and, if it is, publish it.
SetAtMostOnce ==
    /\ \A t \in Thread : IF Setting(t) THEN SetterAt(t) ELSE pc[t] = "idle"
    /\ \A t, u \in Thread : Setting(t) /\ Setting(u) => t = u
    /\ state = 0 <=> \E t \in Thread : Setting(t)
    /\ state = FREE => ~Written
    /\ state = AVAILABLE => Written /\ published
    /\ state # SOME

\* A thread that has a reference from get() finds a value behind it, and is
\* ordered after its write where the relaxed load is (once.rs:18-25).
ReadersOrdered ==
    \A t \in Thread : caller[t] = "some" =>
        /\ state = AVAILABLE /\ data \in Value
        /\ Tso => t \in sees

\* The value of a cell, once it is there, is never reassigned, and get() never
\* again finds the cell empty ("safe because the value is never reassigned",
\* once.rs:20).
NeverReassigned ==
    /\ Written => data' = data
    /\ state = AVAILABLE => state' = AVAILABLE

OnceInv == OnceTypeOK /\ SetAtMostOnce /\ ReadersOrdered

\* The cell is built empty (OnceCell::empty, once.rs:9-11).
LEMMA OnceInitially == OnceInit => OnceInv
  BY TypeInit DEF OnceInit, OnceInv, OnceTypeOK, SetAtMostOnce, ReadersOrdered,
     Setting, Written, Init, FREE, SOME, AVAILABLE

\* get() changes nothing but the order it may give its reader.
LEMMA GetKeeps ==
  ASSUME OnceInv, NEW t \in Thread, NEW none \in {"set", "panic"},
         caller[t] \in {"idle", "again"}, Get(t, "some", none)
  PROVE  OnceInv' /\ NeverReassigned
<1>. USE DEF OnceInv, Get, Continue, guardvars
<1>1. OnceTypeOK'
  BY DEF OnceTypeOK, TypeOK
<1>2. \A u \in Thread : Setting(u)' <=> Setting(u)
  BY DEF OnceTypeOK, Setting
<1>3. sees \subseteq sees'
  OBVIOUS
<1>4. SetAtMostOnce'
  BY <1>2, <1>3 DEF SetAtMostOnce, SetterAt, Written
<1>5. ReadersOrdered'
  BY <1>3, OptionLockAssumption
  DEF ReadersOrdered, SetAtMostOnce, OnceTypeOK, TypeOK, Written, Tso
<1>. QED
  BY <1>1, <1>4, <1>5 DEF NeverReassigned

\* Each step of a thread in NullWaker::get keeps the invariant, and none
\* reassigns the value: set() gets its guard from the empty cell alone, and the
\* guard's drop says filled (null.rs:18-25, lock.rs:149-167, 338-345).
LEMMA OnceStep == OnceInv /\ [OnceNext]_oncevars => OnceInv' /\ NeverReassigned
<1>. SUFFICES ASSUME OnceInv, [OnceNext]_oncevars PROVE OnceInv' /\ NeverReassigned
  OBVIOUS
<1>. USE OptionLockAssumption DEF SOME, FREE, AVAILABLE
<1>0. ASSUME NEW t \in Thread, Step(t),
             caller' \in [Thread -> {"idle", "set", "locked", "again", "some", "panic"}]
      PROVE  OnceTypeOK'
  BY <1>0, TypeStep DEF OnceInv, OnceTypeOK, Next
<1>1. ASSUME NEW t \in Thread, GetFirst(t) PROVE OnceInv' /\ NeverReassigned
  BY <1>1, GetKeeps DEF GetFirst
<1>2. ASSUME NEW t \in Thread, GetAgain(t) PROVE OnceInv' /\ NeverReassigned
  BY <1>2, GetKeeps DEF GetAgain
<1>3. ASSUME NEW t \in Thread, SetLocks(t) PROVE OnceInv' /\ NeverReassigned
  <2>1. /\ state = FREE /\ state' = 0 /\ data' = data
        /\ pc' = [pc EXCEPT ![t] = "guard"] /\ filled' = [filled EXCEPT ![t] = FALSE]
        /\ caller[t] = "set" /\ caller' = [caller EXCEPT ![t] = "locked"]
        /\ arg' = arg
    BY <1>3 DEF SetLocks, TryLockNone, Acquired, Continue
  <2>2. OnceTypeOK'
    BY <1>0, <1>3, <2>1 DEF SetLocks, Step, OnceInv, OnceTypeOK
  <2>3. \A u \in Thread : ~Setting(u)
    BY <2>1 DEF OnceInv, SetAtMostOnce
  <2>4. \A u \in Thread : Setting(u)' <=> u = t
    BY <2>1, <2>3 DEF Setting, OnceInv, OnceTypeOK
  <2>5. SetAtMostOnce'
    BY <2>1, <2>3, <2>4 DEF OnceInv, OnceTypeOK, TypeOK, SetAtMostOnce, SetterAt, Written
  <2>6. ReadersOrdered'
    BY <2>1 DEF OnceInv, OnceTypeOK, ReadersOrdered
  <2>. QED
    BY <2>1, <2>2, <2>5, <2>6 DEF OnceInv, NeverReassigned
<1>4. ASSUME NEW t \in Thread, SetStores(t) PROVE OnceInv' /\ NeverReassigned
  <2>1. Setting(t) /\ state = 0 /\ UNCHANGED <<caller, state, published>>
    BY <1>4 DEF SetStores, Setting, ReplaceBegin, ReplaceEnd, OnceInv, SetAtMostOnce
  <2>2. OnceTypeOK'
    BY <1>0, <1>4, <2>1 DEF SetStores, Step, OnceInv, OnceTypeOK
  <2>3. \A u \in Thread : (Setting(u)' <=> Setting(u)) /\ (Setting(u) <=> u = t)
    BY <2>1 DEF Setting, OnceInv, SetAtMostOnce
  <2>4. SetterAt(t) /\ ~Written
    BY <1>4, <2>1 DEF OnceInv, SetAtMostOnce, SetStores, SetterAt, ReplaceBegin, ReplaceEnd
  <2>5. SetterAt(t)'
    <3>1. CASE ReplaceBegin(t)
      BY <2>4, <3>1 DEF ReplaceBegin, SetterAt, OnceInv, OnceTypeOK, TypeOK, Written
    <3>2. CASE ReplaceEnd(t)
      BY <2>4, <3>2 DEF ReplaceEnd, SetterAt, OnceInv, OnceTypeOK, TypeOK, Written
    <3>. QED
      BY <1>4, <3>1, <3>2 DEF SetStores
  <2>6. \A u \in Thread : u # t => pc'[u] = "idle"
    BY <1>4, <2>3 DEF SetStores, ReplaceBegin, ReplaceEnd, OnceInv, OnceTypeOK, TypeOK, SetAtMostOnce
  <2>7. SetAtMostOnce'
    BY <2>1, <2>3, <2>5, <2>6 DEF SetAtMostOnce
  <2>8. ReadersOrdered'
    BY <2>1 DEF OnceInv, ReadersOrdered
  <2>. QED
    BY <2>1, <2>2, <2>4, <2>7, <2>8 DEF OnceInv, NeverReassigned
<1>5. ASSUME NEW t \in Thread, SetUnlocks(t) PROVE OnceInv' /\ NeverReassigned
  <2>1. /\ Setting(t) /\ filled[t] /\ pc[t] \in {"guard", "taken"}
        /\ caller' = [caller EXCEPT ![t] = "again"]
        /\ state = 0 /\ state' = AVAILABLE /\ published' = (t \in sees)
        /\ pc' = [pc EXCEPT ![t] = "idle"]
        /\ data' = data
    BY <1>5 DEF SetUnlocks, Setting, GuardDrop, Continue, OnceInv, SetAtMostOnce
  <2>2. OnceTypeOK'
    BY <1>0, <1>5, <2>1 DEF SetUnlocks, Step, OnceInv, OnceTypeOK
  <2>3. Written /\ t \in sees
    BY <2>1 DEF OnceInv, SetAtMostOnce, SetterAt
  <2>4. \A u \in Thread : Setting(u) <=> u = t
    BY <2>1 DEF OnceInv, SetAtMostOnce
  <2>5. \A u \in Thread : ~Setting(u)' /\ pc'[u] = "idle"
    BY <2>1, <2>4 DEF Setting, OnceInv, OnceTypeOK, TypeOK, SetAtMostOnce
  <2>6. SetAtMostOnce'
    <3>1. Written' /\ published'
      BY <2>1, <2>3, Zenon DEF Written
    <3>. QED
      BY <2>1, <2>5, <3>1 DEF SetAtMostOnce
  <2>7. ReadersOrdered'
    BY <2>1 DEF OnceInv, OnceTypeOK, ReadersOrdered
  <2>. QED
    BY <2>1, <2>2, <2>6, <2>7 DEF OnceInv, NeverReassigned
<1>6. ASSUME NEW t \in Thread, SetFails(t) PROVE OnceInv' /\ NeverReassigned
  <2>1. /\ caller[t] = "set" /\ caller' = [caller EXCEPT ![t] = "again"]
        /\ UNCHANGED <<state, data, pc, guardvars, sees, published, program>>
    BY <1>6 DEF SetFails, Continue
  <2>2. OnceTypeOK'
    BY <1>6, <2>1 DEF SetFails, OnceInv, OnceTypeOK, TypeOK, guardvars
  <2>3. \A u \in Thread : /\ Setting(u)' <=> Setting(u)
                          /\ caller'[u] = "some" => caller[u] = "some"
    BY <2>1 DEF Setting, OnceInv, OnceTypeOK
  <2>4. SetAtMostOnce'
    BY <2>1, <2>3 DEF OnceInv, SetAtMostOnce, SetterAt, Written, guardvars
  <2>5. ReadersOrdered'
    BY <2>1, <2>3 DEF OnceInv, ReadersOrdered, Tso
  <2>. QED
    BY <2>1, <2>2, <2>4, <2>5 DEF OnceInv, NeverReassigned
<1>7. CASE UNCHANGED oncevars
  BY <1>7 DEF oncevars, vars, guardvars, OnceInv, OnceTypeOK, TypeOK, SetAtMostOnce,
     SetterAt, Setting, Written, ReadersOrdered, NeverReassigned, Tso
<1>. QED
  BY <1>1, <1>2, <1>3, <1>4, <1>5, <1>6, <1>7 DEF OnceNext

\* A reference that get() returns leads to a value, and on a target that fences
\* its reader is ordered after the write of the value: there the relaxed load
\* of is_some_unlocked() is enough (once.rs:18-25, lock.rs:55-57).
THEOREM OrderedReads == OnceSpec => []ReadersOrdered
<1>1. OnceInv => ReadersOrdered
  BY DEF OnceInv
<1>. QED
  BY <1>1, OnceInitially, OnceStep, PTL DEF OnceSpec

\* The value of a cell is written once and stays: references from get() may
\* outlive the call (once.rs:17-25).
THEOREM SetOnce == OnceSpec => [][NeverReassigned]_oncevars
<1>1. OnceInv /\ [OnceNext]_oncevars => [NeverReassigned]_oncevars
  BY OnceStep
<1>. QED
  BY <1>1, OnceInitially, OnceStep, PTL DEF OnceSpec
=============================================================================
