---------------------------- MODULE ThreadSuspend ----------------------------
(***************************************************************************)
(* thread_suspend and thread_suspend_deadline (src/suspend/src/thread.rs): *)
(* a thread polls a closure, parks until the closure's waker is used, and  *)
(* polls again.  The closure may itself suspend the thread, so the calls   *)
(* nest: frames is the stack of them.  All share one thread-local          *)
(* ThreadWake; a frame that needs a waker while another frame has the      *)
(* thread-local one allocates its own.  Wakers are reference-counted       *)
(* clones that other threads wake, clone and drop at any time, long after  *)
(* the frame they belong to has returned; a sequence number tells a stale  *)
(* one from a current one.  Each atomic operation is a step, and so is the *)
(* unpark that follows a successful one.                                   *)
(***************************************************************************)
EXTENDS Integers, FiniteSets

CONSTANTS
    Clone,      \* the wakers that may exist at once: places for a ThreadWakeClone
    Depth,      \* a bound on the nesting of suspensions
    UsizeLimit  \* the sequence numbers wrap to zero here: 2^64 in the code

ASSUME ThreadSuspendAssumption ==
    /\ IsFiniteSet(Clone)
    /\ Depth \in Nat \ {0}
    /\ UsizeLimit \in Nat /\ UsizeLimit > 3

WAKE_STATE_IDLE == 0
WAKE_STATE_WOKEN == 1
MIN_SEQNO == WAKE_STATE_WOKEN + 1

Seqno == MIN_SEQNO .. UsizeLimit - 1

\* The thread's own ThreadWake, and those that frames may have to allocate.
\* An allocated one can outlive its frame as long as a clone of it does.
ThreadLocal == 0
Wake == ThreadLocal .. Depth + Cardinality(Clone)

VARIABLES
    frames,     \* the calls of thread_suspend_deadline, innermost last
    top,        \* how many of them there are
    counter,    \* the last sequence number that wake_ref() gave out
    seqno,      \* seqno[w]: the atomic of ThreadWake w
    count,      \* count[w]: its reference count, 0 when w is not allocated
    clones,     \* clones[c]: the ThreadWakeClone at c
    token,      \* the thread has been unparked and has not parked since
    exited      \* the thread has ended and dropped its ThreadWakeHandle

vars == <<frames, top, counter, seqno, count, clones, token, exited>>

\* A ThreadWakeRef with its place in the loops of thread_suspend_deadline.
\* rung is not in the code: which wakers of this frame, its own or a clone of
\* it, have been used and are still to be answered by a poll.
Frame == [ seqno : Seqno, ptr : Wake, woken : BOOLEAN,
           acquired : BOOLEAN, created : BOOLEAN,
           pc : {"none", "poll", "restart", "park"}, rung : SUBSET {"own", "clone"} ]

\* Where a clone is: nowhere, held, or in the middle of a call.  wake() ends
\* by dropping the clone, wake_by_ref() does not.
ClonePlace == {"none", "held", "unpark", "unpark, drop", "drop"}

Live == 1 .. top
NoFrame == [ seqno |-> MIN_SEQNO, ptr |-> ThreadLocal, woken |-> FALSE,
             acquired |-> FALSE, created |-> FALSE, pc |-> "none", rung |-> {} ]
NoClone == [seqno |-> MIN_SEQNO, ptr |-> ThreadLocal, pc |-> "none"]

\* A sequence number that a live frame or a live waker has.
InUse(s) ==
    \/ \E d \in Live : frames[d].seqno = s
    \/ \E c \in Clone : clones[c].pc # "none" /\ clones[c].seqno = s

TypeOK ==
    /\ frames \in [1 .. Depth -> Frame]
    /\ top \in 0 .. Depth
    /\ counter \in MIN_SEQNO - 1 .. UsizeLimit - 1
    /\ seqno \in [Wake -> 0 .. UsizeLimit - 1]
    /\ count \in [Wake -> Nat]
    /\ clones \in [Clone -> [seqno : Seqno, ptr : Wake, pc : ClonePlace]]
    /\ token \in BOOLEAN
    /\ exited \in BOOLEAN

\* ThreadWakeHandle::new: the handle holds the one reference.
Init ==
    /\ frames = [d \in 1 .. Depth |-> NoFrame]
    /\ top = 0
    /\ counter = MIN_SEQNO - 1
    /\ seqno = [w \in Wake |-> WAKE_STATE_IDLE]
    /\ count = [w \in Wake |-> IF w = ThreadLocal THEN 1 ELSE 0]
    /\ clones = [c \in Clone |-> NoClone]
    /\ token = FALSE
    /\ exited = FALSE

-----------------------------------------------------------------------------
(* The thread *)

\* The user's code runs: the thread is in no suspension, or polls the closure
\* of the innermost one.
Running == ~exited /\ (top > 0 => frames[top].pc = "poll")

At(place) == top > 0 /\ frames[top].pc = place

\* Broken variant: the overflow is not handled.
NextSeqnoWraps == (counter + 1) % UsizeLimit

\* wrapping_add, then past the two values that have a meaning.
NextSeqno ==
    LET next == (counter + 1) % UsizeLimit
    IN  IF next < MIN_SEQNO THEN MIN_SEQNO ELSE next

\* thread_suspend(_deadline): wake_ref().  That fewer suspensions than there
\* are sequence numbers begin in the lifetime of one waker is a bound.
Enter ==
    /\ Running
    /\ top < Depth
    /\ ~InUse(NextSeqno)
    /\ counter' = NextSeqno
    /\ top' = top + 1
    /\ frames' = [frames EXCEPT ![top + 1] =
                    [NoFrame EXCEPT !.seqno = NextSeqno, !.pc = "poll"]]
    /\ UNCHANGED <<seqno, count, clones, token, exited>>

\* ThreadWake::dec_count: the last reference frees the ThreadWake, and nothing
\* is left of its number.
DecCount(w) ==
    /\ count' = [count EXCEPT ![w] = @ - 1]
    /\ seqno' = IF count[w] = 1 THEN [seqno EXCEPT ![w] = WAKE_STATE_IDLE] ELSE seqno

\* Broken variant: the thread's own ThreadWake is not released.
LeaveUnreleased ==
    LET f == frames[top]
    IN  /\ top' = top - 1
        /\ frames' = [frames EXCEPT ![top] = NoFrame]
        /\ IF f.created THEN DecCount(f.ptr) ELSE UNCHANGED <<seqno, count>>
        /\ UNCHANGED <<counter, clones, token, exited>>

\* Drop for ThreadWakeRef, at every return of thread_suspend_deadline: give up
\* the ThreadWake that this frame created, or release the thread's own.
Leave ==
    LET f == frames[top]
    IN  /\ top' = top - 1
        /\ frames' = [frames EXCEPT ![top] = NoFrame]
        /\ IF f.created
             THEN DecCount(f.ptr)
             ELSE /\ seqno' = IF f.acquired
                                THEN [seqno EXCEPT ![f.ptr] = WAKE_STATE_IDLE]
                                ELSE seqno
                  /\ UNCHANGED count
        /\ UNCHANGED <<counter, clones, token, exited>>

\* The closure returns Ready.
PollReady == At("poll") /\ Leave

\* The closure returns Pending.
PollPending ==
    /\ At("poll")
    /\ frames' = [frames EXCEPT ![top].pc = "restart"]
    /\ UNCHANGED <<top, counter, seqno, count, clones, token, exited>>

\* A deadline is found to have passed, before restart() is asked.  A call
\* without a deadline does not take this step.
Expired == At("restart") /\ Leave

\* ThreadWakeRef::restart.  A swap puts the frame's sequence number back.
Woken(f) == f.woken \/ (f.acquired /\ seqno[f.ptr] = WAKE_STATE_WOKEN)

Restart ==
    /\ At("restart")
    /\ LET f == frames[top]
       IN  /\ frames' = [frames EXCEPT ![top] =
                           CASE f.woken -> [f EXCEPT !.woken = FALSE, !.pc = "poll",
                                                     !.rung = @ \ {"own"}]
                             [] ~f.woken /\ Woken(f) -> [f EXCEPT !.pc = "poll",
                                                               !.rung = @ \ {"clone"}]
                             [] OTHER -> [f EXCEPT !.pc = "park"]]
           /\ seqno' = IF ~f.woken /\ f.acquired
                         THEN [seqno EXCEPT ![f.ptr] = f.seqno]
                         ELSE seqno
    /\ UNCHANGED <<top, counter, count, clones, token, exited>>

\* park() returns for a token.
Park ==
    /\ At("park")
    /\ token
    /\ token' = FALSE
    /\ frames' = [frames EXCEPT ![top].pc = "restart"]
    /\ UNCHANGED <<top, counter, seqno, count, clones, exited>>

\* park() may return without a cause, and park_timeout() when its time is over.
ParkReturns ==
    /\ At("park")
    /\ frames' = [frames EXCEPT ![top].pc = "restart"]
    /\ UNCHANGED <<top, counter, seqno, count, clones, token, exited>>

\* ThreadWakeRef::wake_by_ref_waker, on the waker of any frame in scope.
WakeOwn(d) ==
    /\ Running
    /\ frames' = [frames EXCEPT ![d] = [frames[d] EXCEPT !.woken = TRUE,
                                                        !.rung = @ \cup {"own"}]]
    /\ UNCHANGED <<top, counter, seqno, count, clones, token, exited>>

\* The thread ends: Drop for ThreadWakeHandle.
Exit ==
    /\ Running
    /\ top = 0
    /\ exited' = TRUE
    /\ DecCount(ThreadLocal)
    /\ UNCHANGED <<frames, top, counter, clones, token>>

-----------------------------------------------------------------------------
(* Wakers *)

NewClone(c, w, s) ==
    clones' = [clones EXCEPT ![c] = [seqno |-> s, ptr |-> w, pc |-> "held"]]

\* A new ThreadWake takes the first free place.
Unallocated(w) == count[w] = 0 /\ w # ThreadLocal
Allocates(w) == Unallocated(w) /\ \A v \in Wake : v < w => ~Unallocated(v)

\* Broken variant: a store in place of the compare-and-swap.
CanAcquireAnyway(f) == TRUE

\* ThreadWake::acquire
CanAcquire(f) == seqno[f.ptr] \in {WAKE_STATE_IDLE, f.seqno}

\* ThreadWakeRef::clone_waker by a frame that has no ThreadWake yet: it
\* acquires the thread's own, by one compare-and-swap.
CloneAcquire(d, c) ==
    LET f == frames[d]
    IN  /\ ~f.acquired
        /\ CanAcquire(f)
        /\ seqno' = [seqno EXCEPT ![f.ptr] = f.seqno]
        /\ frames' = [frames EXCEPT ![d].acquired = TRUE]
        /\ count' = [count EXCEPT ![f.ptr] = @ + 1]
        /\ NewClone(c, f.ptr, f.seqno)

\* ... or another frame has it, and this frame creates one, with a count of 2
\* for itself and the clone.
CloneCreate(d, c) ==
    LET f == frames[d]
    IN  /\ ~f.acquired
        /\ ~CanAcquire(f)
        /\ \E w \in Wake :
             /\ Allocates(w)
             /\ frames' = [frames EXCEPT ![d] = [@ EXCEPT !.acquired = TRUE,
                                                          !.created = TRUE, !.ptr = w]]
             /\ seqno' = [seqno EXCEPT ![w] = f.seqno]
             /\ count' = [count EXCEPT ![w] = 2]
             /\ NewClone(c, w, f.seqno)

\* ThreadWakeRef::clone_waker by a frame that has its ThreadWake.
CloneAgain(d, c) ==
    LET f == frames[d]
    IN  /\ f.acquired
        /\ count' = [count EXCEPT ![f.ptr] = @ + 1]
        /\ NewClone(c, f.ptr, f.seqno)
        /\ UNCHANGED <<frames, seqno>>

CloneOwn(d, c) ==
    /\ Running
    /\ clones[c].pc = "none"
    /\ CloneAcquire(d, c) \/ CloneCreate(d, c) \/ CloneAgain(d, c)
    /\ UNCHANGED <<top, counter, token, exited>>

\* Broken variant: the clone is not counted.
CloneCloneUncounted(c, copy) ==
    /\ clones[c].pc = "held"
    /\ clones[copy].pc = "none"
    /\ NewClone(copy, clones[c].ptr, clones[c].seqno)
    /\ UNCHANGED <<frames, seqno, count, top, counter, token, exited>>

\* ThreadWakeClone::clone_waker
CloneClone(c, copy) ==
    /\ clones[c].pc = "held"
    /\ clones[copy].pc = "none"
    /\ count' = [count EXCEPT ![clones[c].ptr] = @ + 1]
    /\ NewClone(copy, clones[c].ptr, clones[c].seqno)
    /\ UNCHANGED <<frames, seqno, top, counter, token, exited>>

MoveClone(c, place) == clones' = [clones EXCEPT ![c].pc = place]

\* A waker of these frames is used.
Ring(s) ==
    frames' = [d \in 1 .. Depth |->
                 IF d \in Live /\ frames[d].seqno = s THEN [frames[d] EXCEPT !.rung = @ \cup {"clone"}]
                   ELSE frames[d]]

\* Broken variant: whatever is there is replaced.
WakeCloneAnyway(c) ==
    /\ clones[c].pc = "held"
    /\ Ring(clones[c].seqno)
    /\ seqno' = [seqno EXCEPT ![clones[c].ptr] = WAKE_STATE_WOKEN]
    /\ \E place \in {"unpark", "unpark, drop"} : MoveClone(c, place)
    /\ UNCHANGED <<top, counter, count, token, exited>>

\* ThreadWake::unpark, the compare-and-swap, for ThreadWakeClone::wake_waker
\* and wake_by_ref_waker.  Only the frame's own number is replaced.
WakeClone(c) ==
    /\ clones[c].pc = "held"
    /\ Ring(clones[c].seqno)
    /\ IF seqno[clones[c].ptr] = clones[c].seqno
         THEN /\ seqno' = [seqno EXCEPT ![clones[c].ptr] = WAKE_STATE_WOKEN]
              /\ \E place \in {"unpark", "unpark, drop"} : MoveClone(c, place)
         ELSE /\ \E place \in {"held", "drop"} : MoveClone(c, place)
              /\ UNCHANGED seqno
    /\ UNCHANGED <<top, counter, count, token, exited>>

\* ThreadWake::unpark, thread.unpark().
Unpark(c) ==
    /\ clones[c].pc \in {"unpark", "unpark, drop"}
    /\ token' = TRUE
    /\ MoveClone(c, IF clones[c].pc = "unpark" THEN "held" ELSE "drop")
    /\ UNCHANGED <<frames, top, counter, seqno, count, exited>>

\* drop_waker, or the end of wake_waker.
DropClone(c) ==
    /\ clones[c].pc \in {"held", "drop"}
    /\ DecCount(clones[c].ptr)
    /\ clones' = [clones EXCEPT ![c] = NoClone]
    /\ UNCHANGED <<frames, top, counter, token, exited>>

-----------------------------------------------------------------------------
Next ==
    \/ Enter \/ PollReady \/ PollPending \/ Expired \/ Restart
    \/ Park \/ ParkReturns \/ Exit
    \/ \E d \in Live : WakeOwn(d)
    \/ \E d \in Live, c \in Clone : CloneOwn(d, c)
    \/ \E c, copy \in Clone : CloneClone(c, copy)
    \/ \E c \in Clone : WakeClone(c) \/ Unpark(c) \/ DropClone(c)

Spec == Init /\ [][Next]_vars

\* The thread runs on when it can, except that nothing is said of what the
\* closures do and that park() need not return without a cause; a thread that
\* is in wake() goes on to unpark.
FairSpec ==
    /\ Spec
    /\ WF_vars(Restart \/ Expired)
    /\ WF_vars(Park)
    /\ \A c \in Clone : WF_vars(Unpark(c))

-----------------------------------------------------------------------------
(* Properties *)

ClonesOf(w) == {c \in Clone : clones[c].pc # "none" /\ clones[c].ptr = w}
CreatorOf(w) == {d \in Live : frames[d].created /\ frames[d].ptr = w}
OfHandle(w) == IF w = ThreadLocal /\ ~exited THEN 1 ELSE 0

References(w) == Cardinality(ClonesOf(w)) + Cardinality(CreatorOf(w)) + OfHandle(w)

\* A ThreadWake's count is the number of what refers to it, the handle, the
\* frames that created one and the clones, in whatever order frames return
\* and clones are made and dropped: it is freed by the last and by no other
\* (inc_count, dec_count; thread.rs:169-181, 225-244, 265-275).
CountsReferences == \A w \in Wake : count[w] = References(w)

\* The frames that acquired the ThreadWake w, and did not create it.
Holders(w) == {d \in Live : frames[d].acquired /\ frames[d].ptr = w}

\* Each ThreadWake serves one frame: its number there is that frame's own or
\* WOKEN, and the thread's own is IDLE when no frame has it, so that the next
\* one can acquire it and the wakers left over from earlier ones cannot match
\* (acquire, release, restart; thread.rs:136-152).
OneFrameEach ==
    \A w \in Wake :
      /\ Cardinality(Holders(w)) <= 1
      /\ \A d \in Holders(w) : seqno[w] \in {WAKE_STATE_WOKEN, frames[d].seqno}
      /\ w = ThreadLocal /\ Holders(w) = {} => seqno[w] = WAKE_STATE_IDLE

\* A closure is polled again only for a waker of its own suspension: a
\* stale waker, that of an outer or inner frame, and a return of park()
\* without a cause make the thread park again (thread.rs:63-81).
OnlyOwnWake ==
    [][ \A d \in Live :
          frames[d].pc \in {"restart", "park"} /\ frames'[d].pc = "poll"
            => frames'[d].rung # frames[d].rung ]_vars

\* A suspended frame whose waker has been used is polled again or returns,
\* as soon as no inner suspension has the thread: the unpark is not lost to
\* an inner frame's park, nor the flag to an inner frame's acquire or release
\* (thread.rs:42-84).
Heard ==
    \A d \in 1 .. Depth :
      (top = d /\ frames[d].rung # {} /\ frames[d].pc # "poll")
        ~> (top # d \/ frames[d].pc = "poll")
=============================================================================
