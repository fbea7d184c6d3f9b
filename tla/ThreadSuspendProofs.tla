------------------------- MODULE ThreadSuspendProofs -------------------------
(***************************************************************************)
(* What holds of thread_suspend for any number of nested suspensions and   *)
(* of wakers: a ThreadWake is freed by the last of those who refer to it   *)
(* and serves one suspension at a time, and a closure is polled again only *)
(* for a waker of its own suspension.                                      *)
(***************************************************************************)
EXTENDS ThreadSuspend, TLAPS, FiniteSetTheorems

\* A frame refers to a ThreadWake only when it has acquired one, and counts
\* for one that it created, which is not the thread's own.
FrameOK(d) ==
    /\ d \notin Live => frames[d] = NoFrame
    /\ frames[d].created <=> frames[d].acquired /\ frames[d].ptr # ThreadLocal
    /\ ~frames[d].acquired => frames[d].ptr = ThreadLocal

FramesOK ==
    /\ \A d \in 1 .. Depth : FrameOK(d)
    /\ \A d, e \in Live : frames[d].seqno = frames[e].seqno => d = e
    /\ exited => top = 0

\* One frame to a ThreadWake, whose number is there unless it was woken.
HoldersOK ==
    /\ \A d, e \in Live :
         frames[d].acquired /\ frames[e].acquired /\ frames[d].ptr = frames[e].ptr => d = e
    /\ \A d \in Live :
         frames[d].acquired => seqno[frames[d].ptr] \in {WAKE_STATE_WOKEN, frames[d].seqno}
    /\ (\A d \in Live : frames[d].acquired => frames[d].ptr # ThreadLocal)
         => seqno[ThreadLocal] = WAKE_STATE_IDLE

\* The inductive invariant.
Inv == TypeOK /\ FramesOK /\ HoldersOK /\ CountsReferences

-----------------------------------------------------------------------------
(* Lemmas *)

\* What the assumptions come to: the constants are numbers, 2 is the first
\* sequence number.
LEMMA Constants ==
  /\ Depth \in Nat /\ Depth >= 1 /\ UsizeLimit \in Nat /\ UsizeLimit > 3
  /\ Cardinality(Clone) \in Nat
  /\ ThreadLocal \in Wake
  /\ \A w \in Wake : w \in Int
  /\ MIN_SEQNO = 2 /\ ThreadLocal = 0
  /\ Seqno \subseteq 0 .. UsizeLimit - 1
  /\ MIN_SEQNO \in Seqno
<1>1. Cardinality(Clone) \in Nat
  BY ThreadSuspendAssumption, FS_CardinalityType
<1>. QED
  BY <1>1, ThreadSuspendAssumption
  DEF Wake, ThreadLocal, MIN_SEQNO, WAKE_STATE_WOKEN, Seqno

\* A sequence number is never one of the two values that have a meaning
\* (thread.rs:101-112).
LEMMA NextSeqnoType ==
  ASSUME counter \in MIN_SEQNO - 1 .. UsizeLimit - 1
  PROVE  NextSeqno \in Seqno
<1>1. UsizeLimit \in Nat /\ UsizeLimit > 3 /\ MIN_SEQNO = 2
  BY Constants
<1>2. CASE counter + 1 = UsizeLimit
  <2>1. (counter + 1) % UsizeLimit = 0
    BY <1>1, <1>2
  <2>. QED
    BY <1>1, <2>1 DEF NextSeqno, Seqno
<1>3. CASE counter + 1 < UsizeLimit
  <2>1. counter + 1 \in 0 .. UsizeLimit - 1
    BY <1>1, <1>3
  <2>2. (counter + 1) % UsizeLimit = counter + 1
    BY <1>1, <2>1
  <2>. QED
    BY <1>1, <1>3, <2>2 DEF NextSeqno, Seqno
<1>. QED
  BY <1>1, <1>2, <1>3

\* A frame that is not in use has the type of one.
LEMMA NoFrameType == NoFrame \in Frame
  BY Constants DEF NoFrame, Frame

\* What is written to a frame keeps its type.
LEMMA FrameType ==
  ASSUME NEW f \in Frame, NEW w \in Wake
  PROVE  /\ f.seqno \in Seqno /\ f.ptr \in Wake
         /\ [f EXCEPT !.pc = "restart"] \in Frame
         /\ [f EXCEPT !.pc = "park"] \in Frame
         /\ [f EXCEPT !.woken = FALSE, !.pc = "poll", !.rung = @ \ {"own"}] \in Frame
         /\ [f EXCEPT !.pc = "poll", !.rung = @ \ {"clone"}] \in Frame
         /\ [f EXCEPT !.woken = TRUE, !.rung = @ \cup {"own"}] \in Frame
         /\ [f EXCEPT !.rung = @ \cup {"clone"}] \in Frame
         /\ [f EXCEPT !.acquired = TRUE] \in Frame
         /\ [f EXCEPT !.acquired = TRUE, !.created = TRUE, !.ptr = w] \in Frame
  BY DEF Frame

\* The two sets whose sizes make up the references are finite.
LEMMA ReferencesFinite ==
  ASSUME TypeOK, NEW w \in Wake
  PROVE  /\ IsFiniteSet(ClonesOf(w)) /\ IsFiniteSet(CreatorOf(w))
         /\ Cardinality(ClonesOf(w)) \in Nat /\ Cardinality(CreatorOf(w)) \in Nat
         /\ OfHandle(w) \in {0, 1}
         /\ References(w) \in Nat
         /\ References(w) >= Cardinality(ClonesOf(w))
         /\ References(w) >= Cardinality(CreatorOf(w))
         /\ References(w) >= OfHandle(w)
<1>1. IsFiniteSet(ClonesOf(w))
  BY ThreadSuspendAssumption, FS_Subset DEF ClonesOf
<1>2. IsFiniteSet(CreatorOf(w))
  <2>1. IsFiniteSet(1 .. top)
    BY Constants, FS_Interval DEF TypeOK
  <2>. QED
    BY <2>1, FS_Subset DEF CreatorOf, Live
<1>3. Cardinality(ClonesOf(w)) \in Nat /\ Cardinality(CreatorOf(w)) \in Nat
  BY <1>1, <1>2, FS_CardinalityType
<1>4. OfHandle(w) \in {0, 1}
  BY DEF OfHandle
<1>. QED
  BY <1>1, <1>2, <1>3, <1>4 DEF References

\* Whoever refers to a ThreadWake makes its count positive.
LEMMA Counted ==
  ASSUME TypeOK, CountsReferences, NEW w \in Wake
  PROVE  /\ ClonesOf(w) # {} => count[w] > 0
         /\ CreatorOf(w) # {} => count[w] > 0
         /\ ClonesOf(w) # {} /\ CreatorOf(w) # {} => count[w] > 1
         /\ ClonesOf(w) # {} /\ OfHandle(w) = 1 => count[w] > 1
         /\ OfHandle(w) = 1 => count[w] > 0
<1>1. count[w] = Cardinality(ClonesOf(w)) + Cardinality(CreatorOf(w)) + OfHandle(w)
  BY DEF CountsReferences, References
<1>2. ClonesOf(w) # {} => Cardinality(ClonesOf(w)) # 0
  BY ReferencesFinite, FS_EmptySet
<1>3. CreatorOf(w) # {} => Cardinality(CreatorOf(w)) # 0
  BY ReferencesFinite, FS_EmptySet
<1>4. /\ Cardinality(ClonesOf(w)) \in Nat /\ Cardinality(CreatorOf(w)) \in Nat
      /\ OfHandle(w) \in {0, 1}
  BY ReferencesFinite
<1>. QED
  BY <1>1, <1>2, <1>3, <1>4

-----------------------------------------------------------------------------
(* Types *)

\* dec_count leaves a count, where there was a reference.
LEMMA DecCountType ==
  ASSUME TypeOK, NEW w \in Wake, count[w] > 0, DecCount(w)
  PROVE  count' \in [Wake -> Nat] /\ seqno' \in [Wake -> 0 .. UsizeLimit - 1]
<1>1. count[w] - 1 \in Nat
  BY DEF TypeOK
<1>2. WAKE_STATE_IDLE \in 0 .. UsizeLimit - 1
  BY Constants DEF WAKE_STATE_IDLE
<1>. QED
  BY <1>1, <1>2 DEF DecCount, TypeOK

\* A clone that is made keeps the type of the clones (thread.rs:290-294).
LEMMA NewCloneType ==
  ASSUME TypeOK, NEW c \in Clone, NEW w \in Wake, NEW s \in Seqno, NewClone(c, w, s)
  PROVE  clones' \in [Clone -> [seqno : Seqno, ptr : Wake, pc : ClonePlace]]
  BY DEF TypeOK, NewClone, ClonePlace

\* So does one whose call goes on.
LEMMA MoveCloneType ==
  ASSUME TypeOK, NEW c \in Clone, NEW place \in ClonePlace, MoveClone(c, place)
  PROVE  clones' \in [Clone -> [seqno : Seqno, ptr : Wake, pc : ClonePlace]]
  BY DEF TypeOK, MoveClone

\* What the thread's steps and a waker's keep of the types.
LEMMA TypeStep == ASSUME Inv, Next PROVE TypeOK'
<1>0. TypeOK /\ CountsReferences /\ FramesOK /\ Live \subseteq 1 .. Depth
  BY Constants DEF Inv, TypeOK, Live
<1>1. ASSUME Enter PROVE TypeOK'
  <2>1. NextSeqno \in Seqno /\ top + 1 \in 1 .. Depth
    BY <1>0, <1>1, NextSeqnoType, Constants DEF TypeOK, Enter
  <2>2. [NoFrame EXCEPT !.seqno = NextSeqno, !.pc = "poll"] \in Frame
    BY <2>1, NoFrameType DEF Frame, NoFrame
  <2>3. frames' \in [1 .. Depth -> Frame]
    BY <1>0, <1>1, <2>1, <2>2 DEF TypeOK, Enter
  <2>4. counter' \in MIN_SEQNO - 1 .. UsizeLimit - 1
    BY <1>1, <2>1, Constants DEF Enter, Seqno
  <2>. QED
    BY <1>0, <1>1, <2>1, <2>3, <2>4, Constants DEF TypeOK, Enter
<1>2. ASSUME top > 0, Leave PROVE TypeOK'
  <2>0. top \in 1 .. Depth /\ top \in Live
    BY <1>0, <1>2, Constants DEF TypeOK, Live
  <2>1. frames' \in [1 .. Depth -> Frame] /\ top' \in 0 .. Depth
    BY <1>0, <1>2, <2>0, NoFrameType, Constants DEF TypeOK, Leave
  <2>2. frames[top] \in Frame /\ frames[top].ptr \in Wake
    BY <1>0, <2>0 DEF TypeOK, Frame
  <2>3. count' \in [Wake -> Nat] /\ seqno' \in [Wake -> 0 .. UsizeLimit - 1]
    <3>1. CASE frames[top].created
      <4>1. CreatorOf(frames[top].ptr) # {}
        BY <2>0, <3>1 DEF CreatorOf
      <4>2. count[frames[top].ptr] > 0
        BY <1>0, <2>2, <4>1, Counted
      <4>. QED
        BY <1>0, <1>2, <2>2, <3>1, <4>2, DecCountType DEF Leave
    <3>2. CASE ~frames[top].created
      BY <1>0, <1>2, <2>2, <3>2, Constants DEF Leave, TypeOK, WAKE_STATE_IDLE
    <3>. QED
      BY <3>1, <3>2
  <2>. QED
    BY <1>0, <1>2, <2>1, <2>3 DEF TypeOK, Leave
<1>3. ASSUME PollPending \/ Park \/ ParkReturns PROVE TypeOK'
  <2>1. top \in 1 .. Depth
    BY <1>0, <1>3, Constants DEF TypeOK, At, PollPending, Park, ParkReturns
  <2>2. frames' \in [1 .. Depth -> Frame]
    <3>1. frames' = [frames EXCEPT ![top] = [frames[top] EXCEPT !.pc = "restart"]]
      BY <1>3 DEF PollPending, Park, ParkReturns
    <3>. QED
      BY <1>0, <2>1, <3>1, FrameType, Constants DEF TypeOK
  <2>. QED
    BY <1>0, <1>3, <2>2 DEF TypeOK, PollPending, Park, ParkReturns
<1>4. ASSUME Restart PROVE TypeOK'
  <2>1. top \in 1 .. Depth /\ frames[top] \in Frame
    BY <1>0, <1>4, Constants DEF TypeOK, At, Restart
  <2>3. frames' \in [1 .. Depth -> Frame]
    BY <1>0, <1>4, <2>1, FrameType, Constants DEF TypeOK, Restart
  <2>4. seqno' \in [Wake -> 0 .. UsizeLimit - 1]
    <3>1. frames[top].seqno \in 0 .. UsizeLimit - 1
      BY <2>1, Constants DEF Frame
    <3>. QED
      BY <1>0, <1>4, <3>1 DEF TypeOK, Restart
  <2>. QED
    BY <1>0, <1>4, <2>3, <2>4 DEF TypeOK, Restart
<1>5. ASSUME NEW d \in Live, WakeOwn(d) PROVE TypeOK'
  <2>1. frames' \in [1 .. Depth -> Frame]
    <3>1. frames[d] \in Frame /\ d \in 1 .. Depth
      BY <1>0 DEF TypeOK
    <3>2. [frames[d] EXCEPT !.woken = TRUE, !.rung = @ \cup {"own"}] \in Frame
      BY <3>1, FrameType, Constants
    <3>. QED
      BY <1>0, <1>5, <3>1, <3>2 DEF TypeOK, WakeOwn
  <2>. QED
    BY <1>0, <1>5, <2>1 DEF TypeOK, WakeOwn
<1>6. ASSUME Exit PROVE TypeOK'
  <2>1. OfHandle(ThreadLocal) = 1
    BY <1>6 DEF Exit, Running, OfHandle
  <2>2. count[ThreadLocal] > 0
    BY <1>0, <2>1, Counted, Constants
  <2>3. count' \in [Wake -> Nat] /\ seqno' \in [Wake -> 0 .. UsizeLimit - 1]
    BY <1>0, <1>6, <2>2, DecCountType, Constants DEF Exit
  <2>. QED
    BY <1>0, <1>6, <2>3 DEF TypeOK, Exit
<1>7. ASSUME NEW d \in Live, NEW c \in Clone, CloneOwn(d, c) PROVE TypeOK'
  <2>1. frames[d] \in Frame /\ frames[d].ptr \in Wake /\ frames[d].seqno \in Seqno
        /\ frames[d].seqno \in 0 .. UsizeLimit - 1
    BY <1>0, Constants DEF TypeOK, Frame
  <2>2. ASSUME CloneAcquire(d, c) \/ CloneCreate(d, c) \/ CloneAgain(d, c)
        PROVE  /\ frames' \in [1 .. Depth -> Frame]
               /\ seqno' \in [Wake -> 0 .. UsizeLimit - 1]
               /\ count' \in [Wake -> Nat]
    <3>1. CASE CloneAcquire(d, c)
      <4>1. frames' = [frames EXCEPT ![d] = [frames[d] EXCEPT !.acquired = TRUE]]
        BY <3>1 DEF CloneAcquire
      <4>2. frames' \in [1 .. Depth -> Frame]
        BY <1>0, <2>1, <4>1, FrameType, Constants DEF TypeOK
      <4>. QED
        BY <1>0, <2>1, <3>1, <4>2 DEF CloneAcquire, TypeOK
    <3>2. CASE CloneCreate(d, c)
      <4>1. PICK w \in Wake :
              /\ frames' = [frames EXCEPT ![d] = [frames[d] EXCEPT
                              !.acquired = TRUE, !.created = TRUE, !.ptr = w]]
              /\ seqno' = [seqno EXCEPT ![w] = frames[d].seqno]
              /\ count' = [count EXCEPT ![w] = 2]
        BY <3>2 DEF CloneCreate
      <4>. QED
        BY <1>0, <2>1, <4>1, FrameType DEF TypeOK
    <3>3. CASE CloneAgain(d, c)
      BY <1>0, <2>1, <3>3 DEF CloneAgain, TypeOK, Frame
    <3>. QED
      BY <2>2, <3>1, <3>2, <3>3
  <2>3. \E w \in Wake : NewClone(c, w, frames[d].seqno)
    BY <1>7, <2>1 DEF CloneOwn, CloneAcquire, CloneCreate, CloneAgain
  <2>4. clones' \in [Clone -> [seqno : Seqno, ptr : Wake, pc : ClonePlace]]
    BY <1>0, <2>1, <2>3, NewCloneType
  <2>. QED
    BY <1>0, <1>7, <2>2, <2>4 DEF TypeOK, CloneOwn
<1>8. ASSUME NEW c \in Clone, NEW copy \in Clone, CloneClone(c, copy) PROVE TypeOK'
  <2>1. clones[c].ptr \in Wake /\ clones[c].seqno \in Seqno
    BY <1>0 DEF TypeOK
  <2>2. clones' \in [Clone -> [seqno : Seqno, ptr : Wake, pc : ClonePlace]]
    BY <1>0, <1>8, <2>1, NewCloneType DEF CloneClone
  <2>. QED
    BY <1>0, <1>8, <2>1, <2>2 DEF TypeOK, CloneClone
<1>9. ASSUME NEW c \in Clone, WakeClone(c) PROVE TypeOK'
  <2>1. frames' \in [1 .. Depth -> Frame]
    BY <1>0, <1>9, FrameType, Constants DEF TypeOK, WakeClone, Ring
  <2>2. \E place \in ClonePlace : MoveClone(c, place)
    BY <1>9 DEF WakeClone, ClonePlace
  <2>3. clones' \in [Clone -> [seqno : Seqno, ptr : Wake, pc : ClonePlace]]
    BY <1>0, <2>2, MoveCloneType
  <2>4. seqno' \in [Wake -> 0 .. UsizeLimit - 1]
    <3>1. WAKE_STATE_WOKEN \in 0 .. UsizeLimit - 1
      BY Constants DEF WAKE_STATE_WOKEN
    <3>. QED
      BY <1>0, <1>9, <3>1 DEF TypeOK, WakeClone
  <2>. QED
    BY <1>0, <1>9, <2>1, <2>3, <2>4 DEF TypeOK, WakeClone
<1>10. ASSUME NEW c \in Clone, Unpark(c) PROVE TypeOK'
  <2>1. \E place \in ClonePlace : MoveClone(c, place)
    BY <1>10 DEF Unpark, ClonePlace
  <2>2. clones' \in [Clone -> [seqno : Seqno, ptr : Wake, pc : ClonePlace]]
    BY <1>0, <2>1, MoveCloneType
  <2>. QED
    BY <1>0, <1>10, <2>2 DEF TypeOK, Unpark
<1>11. ASSUME NEW c \in Clone, DropClone(c) PROVE TypeOK'
  <2>1. clones[c].ptr \in Wake
    BY <1>0 DEF TypeOK
  <2>2. ClonesOf(clones[c].ptr) # {}
    BY <1>11 DEF ClonesOf, DropClone
  <2>3. count[clones[c].ptr] > 0
    BY <1>0, <2>1, <2>2, Counted
  <2>4. count' \in [Wake -> Nat] /\ seqno' \in [Wake -> 0 .. UsizeLimit - 1]
    BY <1>0, <1>11, <2>1, <2>3, DecCountType DEF DropClone
  <2>5. NoClone \in [seqno : Seqno, ptr : Wake, pc : ClonePlace]
    BY Constants DEF NoClone, ClonePlace
  <2>6. clones' \in [Clone -> [seqno : Seqno, ptr : Wake, pc : ClonePlace]]
    BY <1>0, <1>11, <2>5 DEF TypeOK, DropClone
  <2>. QED
    BY <1>0, <1>11, <2>4, <2>6 DEF TypeOK, DropClone
<1>12. PollReady \/ Expired => top > 0 /\ Leave
  BY DEF PollReady, Expired, At
<1>. QED
  BY <1>1, <1>2, <1>3, <1>4, <1>5, <1>6, <1>7, <1>8, <1>9, <1>10, <1>11, <1>12 DEF Next

-----------------------------------------------------------------------------
(* Frames *)

\* Steps that leave alone what the frames hold.
Still ==
    /\ top' = top
    /\ \A d \in 1 .. Depth :
         /\ frames'[d].seqno = frames[d].seqno
         /\ frames'[d].ptr = frames[d].ptr
         /\ frames'[d].acquired = frames[d].acquired
         /\ frames'[d].created = frames[d].created
         /\ d \notin Live => frames'[d] = frames[d]

\* These steps of the thread keep what the frames refer to.
LEMMA StillThread ==
  ASSUME TypeOK,
         PollPending \/ Restart \/ Park \/ ParkReturns \/ \E d \in Live : WakeOwn(d)
  PROVE  Still
<1>0. Live \subseteq 1 .. Depth /\ frames \in [1 .. Depth -> Frame]
      /\ top \in Nat
      /\ \A d \in Live : d \in 1 .. Depth
  BY Constants DEF TypeOK, Live
<1>1. CASE PollPending \/ Park \/ ParkReturns
  <2>1. top \in Live /\ top' = top
        /\ frames' = [frames EXCEPT ![top] = [frames[top] EXCEPT !.pc = "restart"]]
    BY <1>0, <1>1 DEF PollPending, Park, ParkReturns, At, Live
  <2>. QED
    BY <1>0, <2>1 DEF Still, Frame
<1>2. CASE Restart
  <2>1. top \in Live /\ top' = top
    BY <1>0, <1>2 DEF Restart, At, Live
  <2>2. PICK f \in
           { [frames[top] EXCEPT !.woken = FALSE, !.pc = "poll", !.rung = @ \ {"own"}],
             [frames[top] EXCEPT !.pc = "poll", !.rung = @ \ {"clone"}],
             [frames[top] EXCEPT !.pc = "park"] } :
             frames' = [frames EXCEPT ![top] = f]
    BY <1>2 DEF Restart
  <2>3. f.seqno = frames[top].seqno /\ f.ptr = frames[top].ptr
        /\ f.acquired = frames[top].acquired /\ f.created = frames[top].created
    BY <1>0, <2>1, <2>2 DEF Frame
  <2>. QED
    BY <1>0, <2>1, <2>2, <2>3 DEF Still
<1>3. ASSUME NEW d \in Live, WakeOwn(d) PROVE Still
  <2>1. frames' = [frames EXCEPT ![d] = [frames[d] EXCEPT !.woken = TRUE,
                                                          !.rung = @ \cup {"own"}]]
        /\ top' = top
    BY <1>3 DEF WakeOwn
  <2>. QED
    BY <1>0, <1>3, <2>1 DEF Still, Frame
<1>. QED
  BY <1>1, <1>2, <1>3

\* So do the steps of the wakers.
LEMMA StillWaker ==
  ASSUME TypeOK, NEW c \in Clone,
         \/ \E copy \in Clone : CloneClone(c, copy)
         \/ WakeClone(c) \/ Unpark(c) \/ DropClone(c)
  PROVE  Still
<1>0. frames \in [1 .. Depth -> Frame]
  BY DEF TypeOK
<1>1. CASE WakeClone(c)
  <2>1. top' = top /\ Ring(clones[c].seqno)
    BY <1>1 DEF WakeClone
  <2>2. \A d \in 1 .. Depth :
          \/ frames'[d] = frames[d]
          \/ d \in Live /\ frames'[d] = [frames[d] EXCEPT !.rung = @ \cup {"clone"}]
    BY <2>1 DEF Ring
  <2>3. ASSUME NEW d \in 1 .. Depth
        PROVE  /\ frames'[d].seqno = frames[d].seqno
               /\ frames'[d].ptr = frames[d].ptr
               /\ frames'[d].acquired = frames[d].acquired
               /\ frames'[d].created = frames[d].created
    <3>1. frames[d] \in Frame
      BY <1>0
    <3>2. CASE frames'[d] = [frames[d] EXCEPT !.rung = @ \cup {"clone"}]
      BY <3>1, <3>2 DEF Frame
    <3>. QED
      BY <2>2, <3>2
  <2>. QED
    BY <2>1, <2>2, <2>3 DEF Still
<1>2. CASE (\E copy \in Clone : CloneClone(c, copy)) \/ Unpark(c) \/ DropClone(c)
  BY <1>2 DEF CloneClone, Unpark, DropClone, Still
<1>. QED
  BY <1>1, <1>2

\* What CloneOwn does to the frames, and to the rest.
LEMMA CloneOwnFrames ==
  ASSUME TypeOK, NEW d \in Live, NEW c \in Clone, CloneOwn(d, c)
  PROVE  /\ d \in 1 .. Depth /\ top' = top /\ ~exited /\ exited' = exited
         /\ \A e \in 1 .. Depth : e # d => frames'[e] = frames[e]
         /\ frames'[d].seqno = frames[d].seqno
         /\ frames'[d].acquired
         /\ \/ CloneAcquire(d, c) /\ frames'[d].ptr = frames[d].ptr
                                 /\ frames'[d].created = frames[d].created
            \/ CloneCreate(d, c) /\ frames'[d].created
                                /\ frames'[d].ptr \in Wake \ {ThreadLocal}
            \/ CloneAgain(d, c) /\ frames' = frames
<1>0. d \in 1 .. Depth /\ frames \in [1 .. Depth -> Frame]
  BY Constants DEF TypeOK, Live
<1>1. top' = top /\ ~exited /\ exited' = exited
  BY DEF CloneOwn, Running
<1>2. CASE CloneAcquire(d, c)
  <2>1. frames' = [frames EXCEPT ![d] = [frames[d] EXCEPT !.acquired = TRUE]]
    BY <1>2 DEF CloneAcquire
  <2>2. /\ frames'[d].seqno = frames[d].seqno /\ frames'[d].acquired
        /\ frames'[d].ptr = frames[d].ptr /\ frames'[d].created = frames[d].created
        /\ \A e \in 1 .. Depth : e # d => frames'[e] = frames[e]
    BY <1>0, <2>1 DEF Frame
  <2>. QED
    BY <1>0, <1>1, <1>2, <2>2
<1>3. CASE CloneCreate(d, c)
  <2>1. PICK w \in Wake : /\ Allocates(w)
                         /\ frames' = [frames EXCEPT ![d] = [frames[d] EXCEPT
                              !.acquired = TRUE, !.created = TRUE, !.ptr = w]]
    BY <1>3 DEF CloneCreate
  <2>2. /\ frames'[d].seqno = frames[d].seqno /\ frames'[d].acquired
        /\ frames'[d].ptr = w /\ frames'[d].created
        /\ \A e \in 1 .. Depth : e # d => frames'[e] = frames[e]
    BY <1>0, <2>1 DEF Frame
  <2>. QED
    BY <1>0, <1>1, <1>3, <2>1, <2>2 DEF Allocates, Unallocated
<1>4. CASE CloneAgain(d, c)
  BY <1>0, <1>1, <1>4 DEF CloneAgain
<1>. QED
  BY <1>2, <1>3, <1>4 DEF CloneOwn

\* A frame has a ThreadWake of its own, the thread's, or none (thread.rs:33-41,
\* 101-112).
LEMMA FramesStep == ASSUME Inv, Next PROVE FramesOK'
<1>0. TypeOK /\ FramesOK /\ top \in 0 .. Depth /\ Depth \in Nat
      /\ frames \in [1 .. Depth -> Frame] /\ Live = 1 .. top
  BY Constants DEF Inv, TypeOK, Live
<1>1. ASSUME Enter PROVE FramesOK'
  <2>1. /\ top' = top + 1 /\ top + 1 \in 1 .. Depth /\ exited' = exited /\ ~exited
        /\ frames' = [frames EXCEPT ![top + 1] =
                        [NoFrame EXCEPT !.seqno = NextSeqno, !.pc = "poll"]]
        /\ \A d \in Live : frames[d].seqno # NextSeqno
    BY <1>0, <1>1 DEF Enter, Running, InUse
  <2>2. /\ frames'[top + 1].seqno = NextSeqno
        /\ ~frames'[top + 1].created /\ ~frames'[top + 1].acquired
        /\ frames'[top + 1].ptr = ThreadLocal
    BY <1>0, <2>1 DEF NoFrame
  <2>3. \A d \in 1 .. Depth : d # top + 1 => frames'[d] = frames[d]
    BY <1>0, <2>1
  <2>4. Live' = Live \cup {top + 1}
    BY <1>0, <2>1 DEF Live
  <2>5. \A d \in 1 .. Depth : FrameOK(d)'
    BY <1>0, <2>2, <2>3, <2>4 DEF FramesOK, FrameOK
  <2>6. \A d, e \in Live' : frames'[d].seqno = frames'[e].seqno => d = e
    BY <1>0, <2>1, <2>2, <2>3, <2>4 DEF FramesOK
  <2>. QED
    BY <2>1, <2>5, <2>6 DEF FramesOK
<1>2. ASSUME top > 0, Leave PROVE FramesOK'
  <2>1. /\ top' = top - 1 /\ top \in 1 .. Depth /\ exited' = exited
        /\ frames' = [frames EXCEPT ![top] = NoFrame]
    BY <1>0, <1>2 DEF Leave
  <2>2. Live' = Live \ {top}
    BY <1>0, <2>1 DEF Live
  <2>3. \A d \in 1 .. Depth : IF d = top THEN frames'[d] = NoFrame ELSE frames'[d] = frames[d]
    BY <1>0, <2>1
  <2>4. ASSUME NEW d \in 1 .. Depth PROVE FrameOK(d)'
    <3>1. CASE d = top
      <4>1. frames'[d] = NoFrame /\ d \notin Live'
        BY <2>2, <2>3, <3>1
      <4>2. ~NoFrame.created /\ ~NoFrame.acquired /\ NoFrame.ptr = ThreadLocal
        BY DEF NoFrame
      <4>. QED
        BY <4>1, <4>2 DEF FrameOK
    <3>2. CASE d # top
      <4>1. frames'[d] = frames[d] /\ (d \in Live' <=> d \in Live)
        BY <2>2, <2>3, <3>2
      <4>. QED
        BY <1>0, <4>1 DEF FramesOK, FrameOK
    <3>. QED
      BY <3>1, <3>2
  <2>5. \A d, e \in Live' : frames'[d].seqno = frames'[e].seqno => d = e
    BY <1>0, <2>2, <2>3 DEF FramesOK
  <2>6. ~exited
    BY <1>0, <2>1 DEF FramesOK
  <2>. QED
    BY <2>1, <2>4, <2>5, <2>6 DEF FramesOK
<1>3. ASSUME Still, exited' => top' = 0 PROVE FramesOK'
  <2>1. Live' = Live
    BY <1>3 DEF Still, Live
  <2>2. \A d \in 1 .. Depth : FrameOK(d)'
    BY <1>0, <1>3, <2>1 DEF FramesOK, FrameOK, Still
  <2>3. \A d, e \in Live' : frames'[d].seqno = frames'[e].seqno => d = e
    BY <1>0, <1>3, <2>1 DEF FramesOK, Still
  <2>. QED
    BY <1>3, <2>2, <2>3 DEF FramesOK
<1>4. ASSUME PollPending \/ Restart \/ Park \/ ParkReturns \/ \E d \in Live : WakeOwn(d)
      PROVE  FramesOK'
  <2>1. Still
    BY <1>0, <1>4, StillThread
  <2>2. exited' = exited /\ top' = top
    BY <1>4 DEF PollPending, Restart, Park, ParkReturns, WakeOwn
  <2>. QED
    BY <1>0, <1>3, <2>1, <2>2 DEF FramesOK
<1>5. ASSUME Exit PROVE FramesOK'
  BY <1>0, <1>3, <1>5 DEF Exit, Still
<1>6. ASSUME NEW c \in Clone,
             \/ \E copy \in Clone : CloneClone(c, copy)
             \/ WakeClone(c) \/ Unpark(c) \/ DropClone(c)
      PROVE  FramesOK'
  <2>1. Still
    BY <1>0, <1>6, StillWaker
  <2>2. exited' = exited /\ top' = top
    BY <1>6 DEF CloneClone, WakeClone, Unpark, DropClone
  <2>. QED
    BY <1>0, <1>3, <2>1, <2>2 DEF FramesOK
<1>7. ASSUME NEW d \in Live, NEW c \in Clone, CloneOwn(d, c) PROVE FramesOK'
  <2>1. /\ d \in 1 .. Depth /\ top' = top /\ ~exited /\ exited' = exited
        /\ \A e \in 1 .. Depth : e # d => frames'[e] = frames[e]
        /\ frames'[d].seqno = frames[d].seqno
        /\ frames'[d].acquired
        /\ \/ CloneAcquire(d, c) /\ frames'[d].ptr = frames[d].ptr
                                /\ frames'[d].created = frames[d].created
           \/ CloneCreate(d, c) /\ frames'[d].created
                               /\ frames'[d].ptr \in Wake \ {ThreadLocal}
           \/ CloneAgain(d, c) /\ frames' = frames
    BY <1>0, <1>7, CloneOwnFrames
  <2>2. Live' = Live
    BY <2>1 DEF Live
  <2>3. FrameOK(d)'
    BY <1>0, <1>7, <2>1, <2>2 DEF FramesOK, FrameOK, CloneAcquire
  <2>4. \A e \in 1 .. Depth : FrameOK(e)'
    BY <1>0, <2>1, <2>2, <2>3 DEF FramesOK, FrameOK
  <2>5. \A e \in 1 .. Depth : frames'[e].seqno = frames[e].seqno
    BY <2>1
  <2>6. \A e, g \in Live' : frames'[e].seqno = frames'[g].seqno => e = g
    BY <1>0, <2>2, <2>5 DEF FramesOK
  <2>. QED
    BY <2>1, <2>4, <2>6 DEF FramesOK
<1>8. PollReady \/ Expired => top > 0 /\ Leave
  BY DEF PollReady, Expired, At
<1>. QED
  BY <1>1, <1>2, <1>4, <1>5, <1>6, <1>7, <1>8 DEF Next

-----------------------------------------------------------------------------
(* Holders *)

\* A step that leaves the frames alone and every ThreadWake with its holder's
\* number, or none, or woken.
LEMMA HoldersKept ==
  ASSUME TypeOK, HoldersOK, Still,
         \A d \in Live : frames[d].acquired
                         => seqno'[frames[d].ptr] \in {WAKE_STATE_WOKEN, frames[d].seqno},
         (\A d \in Live : frames[d].acquired => frames[d].ptr # ThreadLocal)
           => (seqno[ThreadLocal] = WAKE_STATE_IDLE => seqno'[ThreadLocal] = WAKE_STATE_IDLE)
  PROVE  HoldersOK'
<1>1. Live' = Live /\ \A d \in Live : d \in 1 .. Depth
  BY Constants DEF Still, Live, TypeOK
<1>2. \A d \in Live : /\ frames'[d].acquired = frames[d].acquired
                      /\ frames'[d].ptr = frames[d].ptr
                      /\ frames'[d].seqno = frames[d].seqno
  BY <1>1 DEF Still
<1>3. \A d, e \in Live' :
        frames'[d].acquired /\ frames'[e].acquired /\ frames'[d].ptr = frames'[e].ptr
          => d = e
  BY <1>1, <1>2 DEF HoldersOK
<1>4. \A d \in Live' : frames'[d].acquired
                       => seqno'[frames'[d].ptr] \in {WAKE_STATE_WOKEN, frames'[d].seqno}
  BY <1>1, <1>2
<1>5. (\A d \in Live' : frames'[d].acquired => frames'[d].ptr # ThreadLocal)
        => seqno'[ThreadLocal] = WAKE_STATE_IDLE
  BY <1>1, <1>2 DEF HoldersOK
<1>. QED
  BY <1>3, <1>4, <1>5 DEF HoldersOK

\* Where the number of a ThreadWake is left alone, so are its holders.
LEMMA HoldersSame ==
  ASSUME TypeOK, HoldersOK, Still, seqno' = seqno
  PROVE  HoldersOK'
BY HoldersKept DEF HoldersOK

\* A ThreadWake that nobody created and the thread has left has no holder.
LEMMA NoHolder ==
  ASSUME TypeOK, FramesOK, NEW w \in Wake, CreatorOf(w) = {}, OfHandle(w) = 0
  PROVE  \A d \in Live : frames[d].acquired => frames[d].ptr # w
<1>1. \A d \in Live : d \in 1 .. Depth
  BY Constants DEF Live, TypeOK
<1>2. CASE w = ThreadLocal
  <2>1. top = 0
    BY <1>2 DEF OfHandle, FramesOK
  <2>. QED
    BY <2>1 DEF Live
<1>3. CASE w # ThreadLocal
  BY <1>1, <1>3 DEF FramesOK, FrameOK, CreatorOf
<1>. QED
  BY <1>2, <1>3

\* The thread's own ThreadWake has no holder when a frame that has none can
\* acquire it (thread.rs:136-142).
LEMMA AcquiredByOne ==
  ASSUME TypeOK, FramesOK, HoldersOK, NEW d \in Live, ~frames[d].acquired,
         CanAcquire(frames[d])
  PROVE  /\ frames[d].ptr = ThreadLocal
         /\ \A e \in Live : frames[e].acquired => frames[e].ptr # ThreadLocal
<1>0. \A e \in Live : e \in 1 .. Depth /\ frames[e] \in Frame /\ frames[e].seqno \in Seqno
  BY Constants DEF Live, TypeOK, Frame
<1>1. frames[d].ptr = ThreadLocal
  BY <1>0 DEF FramesOK, FrameOK
<1>2. ASSUME NEW e \in Live, frames[e].acquired, frames[e].ptr = ThreadLocal PROVE FALSE
  <2>1. seqno[ThreadLocal] \in {WAKE_STATE_IDLE, frames[d].seqno}
    BY <1>1 DEF CanAcquire
  <2>2. seqno[ThreadLocal] \in {WAKE_STATE_WOKEN, frames[e].seqno}
    BY <1>2 DEF HoldersOK
  <2>3. frames[d].seqno >= 2 /\ frames[e].seqno >= 2
    BY <1>0, Constants DEF Seqno
  <2>4. frames[d].seqno = frames[e].seqno
    BY <1>0, <2>1, <2>2, <2>3, Constants DEF WAKE_STATE_IDLE, WAKE_STATE_WOKEN, Seqno
  <2>. QED
    BY <1>2, <2>4 DEF FramesOK
<1>. QED
  BY <1>1, <1>2

\* Every step keeps each ThreadWake with one frame (thread.rs:136-152).
LEMMA HoldersStep == ASSUME Inv, Next PROVE HoldersOK'
<1>0. /\ TypeOK /\ FramesOK /\ HoldersOK /\ CountsReferences
      /\ top \in 0 .. Depth /\ Depth \in Nat /\ Live = 1 .. top
      /\ frames \in [1 .. Depth -> Frame] /\ seqno \in [Wake -> 0 .. UsizeLimit - 1]
      /\ \A d \in Live : d \in 1 .. Depth
      /\ \A d \in 1 .. Depth : frames[d].ptr \in Wake /\ frames[d].seqno \in Seqno
  BY Constants DEF Inv, TypeOK, Live, Frame
<1>1. ASSUME Enter PROVE HoldersOK'
  <2>1. /\ top' = top + 1 /\ top + 1 \in 1 .. Depth /\ seqno' = seqno
        /\ frames' = [frames EXCEPT ![top + 1] =
                        [NoFrame EXCEPT !.seqno = NextSeqno, !.pc = "poll"]]
    BY <1>0, <1>1 DEF Enter
  <2>2. ~frames'[top + 1].acquired
    BY <1>0, <2>1 DEF NoFrame
  <2>3. Live' = Live \cup {top + 1} /\ \A d \in Live : frames'[d] = frames[d]
    BY <1>0, <2>1 DEF Live
  <2>. QED
    BY <1>0, <2>1, <2>2, <2>3 DEF HoldersOK
<1>2. ASSUME top > 0, Leave PROVE HoldersOK'
  <2>1. /\ top \in Live /\ top' = top - 1
        /\ frames' = [frames EXCEPT ![top] = NoFrame]
    BY <1>0, <1>2 DEF Leave
  <2>2. Live' = Live \ {top} /\ \A d \in Live' : d \in Live /\ d # top /\ frames'[d] = frames[d]
    BY <1>0, <2>1 DEF Live
  <2>3. \/ seqno' = seqno /\ (frames[top].acquired => frames[top].created)
        \/ frames[top].acquired /\ seqno' = [seqno EXCEPT ![frames[top].ptr] = WAKE_STATE_IDLE]
    BY <1>0, <1>2, <2>1 DEF Leave, DecCount, FramesOK, FrameOK
  <2>4. \A d \in Live' : frames[d].acquired => seqno'[frames[d].ptr] = seqno[frames[d].ptr]
    BY <1>0, <2>1, <2>2, <2>3 DEF HoldersOK
  <2>5. ASSUME \A d \in Live' : frames'[d].acquired => frames'[d].ptr # ThreadLocal
        PROVE  seqno'[ThreadLocal] = WAKE_STATE_IDLE
    <3>1. CASE frames[top].acquired /\ frames[top].ptr = ThreadLocal
      BY <1>0, <2>1, <2>3, <3>1, Constants DEF FramesOK, FrameOK
    <3>2. CASE ~(frames[top].acquired /\ frames[top].ptr = ThreadLocal)
      <4>1. seqno[ThreadLocal] = WAKE_STATE_IDLE
        BY <1>0, <2>2, <2>5, <3>2 DEF HoldersOK
      <4>. QED
        BY <1>0, <2>3, <4>1, Constants
    <3>. QED
      BY <3>1, <3>2
  <2>6. \A d \in Live' : frames'[d].acquired
                         => seqno'[frames'[d].ptr] \in {WAKE_STATE_WOKEN, frames'[d].seqno}
    BY <1>0, <2>2, <2>4 DEF HoldersOK
  <2>7. ASSUME NEW d \in Live', NEW e \in Live', frames'[d].acquired, frames'[e].acquired,
               frames'[d].ptr = frames'[e].ptr
        PROVE  d = e
    BY <1>0, <2>2, <2>7 DEF HoldersOK
  <2>. QED
    BY <2>5, <2>6, <2>7 DEF HoldersOK
<1>3. ASSUME PollPending \/ Park \/ ParkReturns \/ \E d \in Live : WakeOwn(d)
      PROVE  HoldersOK'
  <2>1. Still
    BY <1>0, <1>3, StillThread
  <2>2. seqno' = seqno
    BY <1>3 DEF PollPending, Park, ParkReturns, WakeOwn
  <2>. QED
    BY <1>0, <2>1, <2>2, HoldersSame
<1>4. ASSUME Restart PROVE HoldersOK'
  <2>1. Still /\ Live' = Live
    BY <1>0, <1>4, StillThread DEF Still, Live
  <2>2. top \in Live
    BY <1>0, <1>4 DEF Restart, At
  <2>3. \/ seqno' = seqno
        \/ frames[top].acquired /\ seqno' = [seqno EXCEPT ![frames[top].ptr] = frames[top].seqno]
    BY <1>4 DEF Restart
  <2>4. CASE seqno' = seqno
    BY <1>0, <2>1, <2>4, HoldersSame
  <2>5. CASE frames[top].acquired
             /\ seqno' = [seqno EXCEPT ![frames[top].ptr] = frames[top].seqno]
    <3>1. \A d \in Live : frames[d].acquired =>
             IF d = top THEN seqno'[frames[d].ptr] = frames[d].seqno
                        ELSE seqno'[frames[d].ptr] = seqno[frames[d].ptr]
      BY <1>0, <2>2, <2>5 DEF HoldersOK
    <3>2. (\A d \in Live : frames[d].acquired => frames[d].ptr # ThreadLocal)
            => seqno'[ThreadLocal] = seqno[ThreadLocal]
      BY <1>0, <2>2, <2>5, Constants
    <3>3. \A d \in Live : frames[d].acquired
                          => seqno'[frames[d].ptr] \in {WAKE_STATE_WOKEN, frames[d].seqno}
      BY <1>0, <3>1 DEF HoldersOK
    <3>. QED
      BY <1>0, <2>1, <3>2, <3>3, HoldersKept
  <2>. QED
    BY <2>3, <2>4, <2>5
<1>5. ASSUME Exit PROVE HoldersOK'
  <2>1. Live' = {} /\ Live = {}
    BY <1>0, <1>5 DEF Exit, Live
  <2>2. seqno'[ThreadLocal] = WAKE_STATE_IDLE
    BY <1>0, <1>5, <2>1, Constants DEF HoldersOK, Exit, DecCount
  <2>. QED
    BY <2>1, <2>2 DEF HoldersOK
<1>6. ASSUME NEW d \in Live, NEW c \in Clone, CloneOwn(d, c) PROVE HoldersOK'
  <2>1. /\ top' = top /\ \A e \in 1 .. Depth : e # d => frames'[e] = frames[e]
        /\ frames'[d].seqno = frames[d].seqno
        /\ frames'[d].acquired
        /\ \/ CloneAcquire(d, c) /\ frames'[d].ptr = frames[d].ptr
           \/ CloneCreate(d, c)
           \/ CloneAgain(d, c) /\ frames' = frames
    BY <1>0, <1>6, CloneOwnFrames
  <2>2. Live' = Live
    BY <2>1 DEF Live
  <2>3. ASSUME NEW w \in Wake, frames'[d].ptr = w,
               seqno' = [seqno EXCEPT ![w] = frames[d].seqno], ~frames[d].acquired,
               \A e \in Live : frames[e].acquired => frames[e].ptr # w
        PROVE  HoldersOK'
    <3>1. \A e \in Live : e # d /\ frames'[e].acquired
             => /\ frames[e].acquired /\ frames'[e] = frames[e] /\ frames'[e].ptr # w
                /\ seqno'[frames'[e].ptr] = seqno[frames[e].ptr]
      BY <1>0, <2>1, <2>3
    <3>2. seqno'[w] = frames'[d].seqno
      BY <1>0, <2>1, <2>3
    <3>3. ASSUME NEW e \in Live, NEW g \in Live, frames'[e].acquired, frames'[g].acquired,
                 frames'[e].ptr = frames'[g].ptr
          PROVE  e = g
      <4>1. CASE e = d \/ g = d
        BY <2>3, <3>1, <3>3, <4>1
      <4>2. CASE e # d /\ g # d
        BY <1>0, <3>1, <3>3, <4>2 DEF HoldersOK
      <4>. QED
        BY <4>1, <4>2
    <3>4. \A e \in Live : frames'[e].acquired
                          => seqno'[frames'[e].ptr] \in {WAKE_STATE_WOKEN, frames'[e].seqno}
      BY <1>0, <2>3, <3>1, <3>2 DEF HoldersOK
    <3>5. ASSUME \A e \in Live : frames'[e].acquired => frames'[e].ptr # ThreadLocal
          PROVE  seqno'[ThreadLocal] = WAKE_STATE_IDLE
      <4>1. w # ThreadLocal
        BY <2>1, <2>3, <3>5
      <4>2. \A e \in Live : frames[e].acquired => frames[e].ptr # ThreadLocal
        BY <1>0, <2>1, <2>3, <3>5
      <4>. QED
        BY <1>0, <2>3, <4>1, <4>2, Constants DEF HoldersOK
    <3>. QED
      BY <2>2, <3>3, <3>4, <3>5 DEF HoldersOK
  <2>4. CASE CloneAcquire(d, c) /\ frames'[d].ptr = frames[d].ptr
    <3>1. /\ ~frames[d].acquired /\ CanAcquire(frames[d])
          /\ seqno' = [seqno EXCEPT ![frames[d].ptr] = frames[d].seqno]
      BY <2>4 DEF CloneAcquire
    <3>2. /\ frames[d].ptr = ThreadLocal
          /\ \A e \in Live : frames[e].acquired => frames[e].ptr # ThreadLocal
      BY <1>0, <3>1, AcquiredByOne
    <3>. QED
      BY <1>0, <2>3, <2>4, <3>1, <3>2, Constants
  <2>5. CASE CloneCreate(d, c)
    <3>1. PICK w \in Wake : /\ Allocates(w)
                           /\ frames' = [frames EXCEPT ![d] = [frames[d] EXCEPT
                                !.acquired = TRUE, !.created = TRUE, !.ptr = w]]
                           /\ seqno' = [seqno EXCEPT ![w] = frames[d].seqno]
      BY <2>5 DEF CloneCreate
    <3>2. ~frames[d].acquired
      BY <2>5 DEF CloneCreate
    <3>3. count[w] = 0 /\ w # ThreadLocal
      BY <3>1 DEF Allocates, Unallocated
    <3>4. CreatorOf(w) = {} /\ OfHandle(w) = 0
      BY <1>0, <3>3, Counted DEF OfHandle
    <3>5. frames'[d].ptr = w
      BY <1>0, <3>1 DEF Frame
    <3>. QED
      BY <1>0, <2>3, <3>1, <3>2, <3>4, <3>5, NoHolder
  <2>6. CASE CloneAgain(d, c) /\ frames' = frames
    BY <1>0, <2>2, <2>6 DEF CloneAgain, HoldersOK
  <2>. QED
    BY <2>1, <2>4, <2>5, <2>6
<1>7. ASSUME NEW c \in Clone, (\E copy \in Clone : CloneClone(c, copy)) \/ Unpark(c)
      PROVE  HoldersOK'
  <2>1. Still
    BY <1>0, <1>7, StillWaker
  <2>2. seqno' = seqno
    BY <1>7 DEF CloneClone, Unpark
  <2>. QED
    BY <1>0, <2>1, <2>2, HoldersSame
<1>8. ASSUME NEW c \in Clone, WakeClone(c) PROVE HoldersOK'
  <2>1. Still /\ Live' = Live
    BY <1>0, <1>8, StillWaker DEF Still, Live
  <2>2. CASE seqno' = seqno
    BY <1>0, <2>1, <2>2, HoldersSame
  <2>3. CASE /\ seqno[clones[c].ptr] = clones[c].seqno
             /\ seqno' = [seqno EXCEPT ![clones[c].ptr] = WAKE_STATE_WOKEN]
    <3>1. clones[c].seqno \in Seqno /\ clones[c].seqno # WAKE_STATE_IDLE
      BY <1>0, Constants DEF TypeOK, Seqno, WAKE_STATE_IDLE
    <3>2. \A d \in Live : frames[d].acquired
                          => seqno'[frames[d].ptr] \in {WAKE_STATE_WOKEN, frames[d].seqno}
      BY <1>0, <2>3 DEF HoldersOK
    <3>3. seqno[ThreadLocal] = WAKE_STATE_IDLE => seqno'[ThreadLocal] = WAKE_STATE_IDLE
      BY <1>0, <2>3, <3>1, Constants
    <3>. QED
      BY <1>0, <2>1, <3>2, <3>3, HoldersKept
  <2>. QED
    BY <1>8, <2>2, <2>3 DEF WakeClone
<1>9. ASSUME NEW c \in Clone, DropClone(c) PROVE HoldersOK'
  <2>1. Still /\ Live' = Live
    BY <1>0, <1>9, StillWaker DEF Still, Live
  <2>2. clones[c].ptr \in Wake /\ ClonesOf(clones[c].ptr) # {}
    BY <1>0, <1>9 DEF DropClone, ClonesOf, TypeOK
  <2>3. CASE seqno' = seqno
    BY <1>0, <2>1, <2>3, HoldersSame
  <2>4. CASE /\ count[clones[c].ptr] = 1
             /\ seqno' = [seqno EXCEPT ![clones[c].ptr] = WAKE_STATE_IDLE]
    <3>1. CreatorOf(clones[c].ptr) = {} /\ OfHandle(clones[c].ptr) = 0
      <4>1. OfHandle(clones[c].ptr) \in {0, 1}
        BY DEF OfHandle
      <4>2. ~(count[clones[c].ptr] > 1)
        BY <2>4
      <4>. QED
        BY <1>0, <2>2, <4>1, <4>2, Counted
    <3>2. \A d \in Live : frames[d].acquired => frames[d].ptr # clones[c].ptr
      BY <1>0, <2>2, <3>1, NoHolder
    <3>3. \A d \in Live : frames[d].acquired
                          => seqno'[frames[d].ptr] \in {WAKE_STATE_WOKEN, frames[d].seqno}
      BY <1>0, <2>4, <3>2 DEF HoldersOK
    <3>4. seqno[ThreadLocal] = WAKE_STATE_IDLE => seqno'[ThreadLocal] = WAKE_STATE_IDLE
      BY <1>0, <2>4, Constants
    <3>. QED
      BY <1>0, <2>1, <3>3, <3>4, HoldersKept
  <2>. QED
    BY <1>9, <2>3, <2>4 DEF DropClone, DecCount
<1>10. PollReady \/ Expired => top > 0 /\ Leave
  BY DEF PollReady, Expired, At
<1>. QED
  BY <1>1, <1>2, <1>3, <1>4, <1>5, <1>6, <1>7, <1>8, <1>9, <1>10 DEF Next

-----------------------------------------------------------------------------
(* References *)

\* A new clone is one more reference to its ThreadWake.
LEMMA NewCloneCounts ==
  ASSUME TypeOK, NEW c \in Clone, NEW w \in Wake, NEW s \in Seqno,
         clones[c].pc = "none", NewClone(c, w, s), NEW v \in Wake
  PROVE  Cardinality(ClonesOf(v)') = Cardinality(ClonesOf(v)) + (IF v = w THEN 1 ELSE 0)
<1>1. ClonesOf(v)' = (IF v = w THEN ClonesOf(v) \cup {c} ELSE ClonesOf(v))
      /\ c \notin ClonesOf(v)
  BY DEF TypeOK, NewClone, ClonesOf
<1>2. IsFiniteSet(ClonesOf(v)) /\ Cardinality(ClonesOf(v)) \in Nat
  BY ReferencesFinite
<1>. QED
  BY <1>1, <1>2, FS_AddElement

\* A clone that is dropped is one less.
LEMMA DropCloneCounts ==
  ASSUME TypeOK, NEW c \in Clone, clones[c].pc # "none",
         clones' = [clones EXCEPT ![c] = NoClone], NEW v \in Wake
  PROVE  Cardinality(ClonesOf(v)')
           = Cardinality(ClonesOf(v)) - (IF v = clones[c].ptr THEN 1 ELSE 0)
<1>0. /\ clones'[c].pc = "none"
      /\ \A e \in Clone : e # c => clones'[e] = clones[e]
  BY DEF TypeOK, NoClone
<1>1. ClonesOf(v)' = (IF v = clones[c].ptr THEN ClonesOf(v) \ {c} ELSE ClonesOf(v))
      /\ (v = clones[c].ptr => c \in ClonesOf(v))
  BY <1>0 DEF ClonesOf
<1>2. IsFiniteSet(ClonesOf(v)) /\ Cardinality(ClonesOf(v)) \in Nat
  BY ReferencesFinite
<1>3. CASE v = clones[c].ptr
  BY <1>1, <1>2, <1>3, FS_RemoveElement
<1>4. CASE v # clones[c].ptr
  <2>1. Cardinality(ClonesOf(v)') = Cardinality(ClonesOf(v))
    BY <1>1, <1>4
  <2>. QED
    BY <1>2, <1>4, <2>1
<1>. QED
  BY <1>3, <1>4

\* One that is in the middle of a call remains one.
LEMMA MoveCloneCounts ==
  ASSUME TypeOK, NEW c \in Clone, NEW place \in ClonePlace, clones[c].pc # "none",
         place # "none", MoveClone(c, place), NEW v \in Wake
  PROVE  ClonesOf(v)' = ClonesOf(v)
  BY DEF TypeOK, MoveClone, ClonesOf

\* Frames that hold what they held created what they created.
LEMMA StillCounts ==
  ASSUME TypeOK, Still, NEW v \in Wake
  PROVE  CreatorOf(v)' = CreatorOf(v)
<1>1. Live' = Live /\ \A d \in Live : d \in 1 .. Depth
  BY Constants DEF Still, Live, TypeOK
<1>. QED
  BY <1>1 DEF Still, CreatorOf

\* Every step keeps the counts exact (thread.rs:169-181).
LEMMA CountsStep == ASSUME Inv, Next PROVE CountsReferences'
<1>0. /\ TypeOK /\ FramesOK /\ HoldersOK /\ CountsReferences
      /\ top \in 0 .. Depth /\ Depth \in Nat /\ Live = 1 .. top
      /\ frames \in [1 .. Depth -> Frame] /\ count \in [Wake -> Nat]
      /\ \A d \in Live : d \in 1 .. Depth
      /\ \A d \in 1 .. Depth : frames[d].ptr \in Wake /\ frames[d].seqno \in Seqno
      /\ \A c \in Clone : clones[c].ptr \in Wake /\ clones[c].seqno \in Seqno
  BY Constants DEF Inv, TypeOK, Live, Frame
<1>1. \A v \in Wake : /\ IsFiniteSet(CreatorOf(v))
                      /\ Cardinality(ClonesOf(v)) \in Nat /\ Cardinality(CreatorOf(v)) \in Nat
                      /\ OfHandle(v) \in {0, 1}
                      /\ count[v] = Cardinality(ClonesOf(v)) + Cardinality(CreatorOf(v)) + OfHandle(v)
  BY <1>0, ReferencesFinite DEF CountsReferences, References
<1>. USE DEF References
<1>2. ASSUME count' = count, exited' = exited,
             \A v \in Wake : ClonesOf(v)' = ClonesOf(v) /\ CreatorOf(v)' = CreatorOf(v)
      PROVE  CountsReferences'
  BY <1>1, <1>2 DEF CountsReferences, OfHandle
<1>3. ASSUME Enter PROVE CountsReferences'
  <2>1. /\ top' = top + 1 /\ top + 1 \in 1 .. Depth
        /\ frames' = [frames EXCEPT ![top + 1] =
                        [NoFrame EXCEPT !.seqno = NextSeqno, !.pc = "poll"]]
        /\ UNCHANGED <<count, clones, exited>>
    BY <1>0, <1>3 DEF Enter
  <2>2. ~frames'[top + 1].created
    BY <1>0, <2>1 DEF NoFrame
  <2>3. Live' = Live \cup {top + 1} /\ \A d \in Live : frames'[d] = frames[d]
    BY <1>0, <2>1 DEF Live
  <2>4. \A v \in Wake : ClonesOf(v)' = ClonesOf(v) /\ CreatorOf(v)' = CreatorOf(v)
    BY <2>1, <2>2, <2>3 DEF ClonesOf, CreatorOf
  <2>. QED
    BY <1>2, <2>1, <2>4
<1>4. ASSUME top > 0, Leave PROVE CountsReferences'
  <2>1. /\ top \in Live /\ top' = top - 1
        /\ frames' = [frames EXCEPT ![top] = NoFrame]
        /\ UNCHANGED <<clones, exited>>
    BY <1>0, <1>4 DEF Leave
  <2>2. Live' = Live \ {top} /\ \A d \in Live' : frames'[d] = frames[d]
    BY <1>0, <2>1 DEF Live
  <2>3. \A v \in Wake : /\ ClonesOf(v)' = ClonesOf(v)
                        /\ CreatorOf(v)' = CreatorOf(v) \ {top}
    BY <2>1, <2>2 DEF ClonesOf, CreatorOf
  <2>4. CASE ~frames[top].created
    <3>1. \A v \in Wake : CreatorOf(v)' = CreatorOf(v)
      BY <2>3, <2>4 DEF CreatorOf
    <3>2. count' = count
      BY <1>4, <2>4 DEF Leave
    <3>. QED
      BY <1>2, <2>1, <2>3, <3>1, <3>2
  <2>5. CASE frames[top].created
    <3>1. count' = [count EXCEPT ![frames[top].ptr] = @ - 1]
      BY <1>4, <2>5 DEF Leave, DecCount
    <3>2. ASSUME NEW v \in Wake PROVE count'[v] = References(v)'
      <4>1. CASE v = frames[top].ptr
        <5>1. top \in CreatorOf(v)
          BY <2>1, <2>5, <4>1 DEF CreatorOf
        <5>2. Cardinality(CreatorOf(v)') = Cardinality(CreatorOf(v)) - 1
          BY <1>1, <2>3, <5>1, FS_RemoveElement
        <5>. QED
          BY <1>0, <1>1, <2>1, <2>3, <3>1, <4>1, <5>2 DEF OfHandle
      <4>2. CASE v # frames[top].ptr
        <5>1. CreatorOf(v)' = CreatorOf(v)
          BY <2>3, <4>2 DEF CreatorOf
        <5>. QED
          BY <1>0, <1>1, <2>1, <2>3, <3>1, <4>2, <5>1 DEF OfHandle
      <4>. QED
        BY <4>1, <4>2
    <3>. QED
      BY <3>2 DEF CountsReferences
  <2>. QED
    BY <2>4, <2>5
<1>5. ASSUME PollPending \/ Restart \/ Park \/ ParkReturns \/ \E d \in Live : WakeOwn(d)
      PROVE  CountsReferences'
  <2>1. \A v \in Wake : CreatorOf(v)' = CreatorOf(v)
    BY <1>0, <1>5, StillThread, StillCounts
  <2>2. UNCHANGED <<count, clones, exited>>
    BY <1>5 DEF PollPending, Restart, Park, ParkReturns, WakeOwn
  <2>3. \A v \in Wake : ClonesOf(v)' = ClonesOf(v)
    BY <2>2 DEF ClonesOf
  <2>. QED
    BY <1>2, <2>1, <2>2, <2>3
<1>6. ASSUME Exit PROVE CountsReferences'
  <2>1. /\ UNCHANGED <<frames, top, clones>> /\ ~exited /\ exited'
        /\ count' = [count EXCEPT ![ThreadLocal] = @ - 1]
    BY <1>6 DEF Exit, Running, DecCount
  <2>2. \A v \in Wake : ClonesOf(v)' = ClonesOf(v) /\ CreatorOf(v)' = CreatorOf(v)
    BY <2>1 DEF ClonesOf, CreatorOf, Live
  <2>3. \A v \in Wake : OfHandle(v)' = 0 /\ OfHandle(v) = IF v = ThreadLocal THEN 1 ELSE 0
    BY <2>1 DEF OfHandle
  <2>. QED
    BY <1>0, <1>1, <2>1, <2>2, <2>3 DEF CountsReferences
<1>7. ASSUME NEW c \in Clone, NEW w \in Wake, NEW s \in Seqno, clones[c].pc = "none",
             NewClone(c, w, s), count' = [count EXCEPT ![w] = @ + 1], exited' = exited,
             \A v \in Wake : CreatorOf(v)' = CreatorOf(v)
      PROVE  CountsReferences'
  <2>1. \A v \in Wake :
          Cardinality(ClonesOf(v)') = Cardinality(ClonesOf(v)) + (IF v = w THEN 1 ELSE 0)
    BY <1>0, <1>7, NewCloneCounts
  <2>2. ASSUME NEW v \in Wake PROVE count'[v] = References(v)'
    BY <1>0, <1>1, <1>7, <2>1 DEF OfHandle
  <2>. QED
    BY <2>2 DEF CountsReferences
<1>8. ASSUME NEW d \in Live, NEW c \in Clone, CloneOwn(d, c) PROVE CountsReferences'
  <2>1. /\ top' = top /\ exited' = exited
        /\ \A e \in 1 .. Depth : e # d => frames'[e] = frames[e]
        /\ \/ CloneAcquire(d, c) /\ frames'[d].ptr = frames[d].ptr
                                /\ frames'[d].created = frames[d].created
           \/ CloneCreate(d, c)
           \/ CloneAgain(d, c) /\ frames' = frames
    BY <1>0, <1>8, CloneOwnFrames
  <2>2. Live' = Live /\ clones[c].pc = "none"
    BY <1>8, <2>1 DEF Live, CloneOwn
  <2>3. CASE CloneAcquire(d, c) /\ frames'[d].ptr = frames[d].ptr
                               /\ frames'[d].created = frames[d].created
    <3>1. \A v \in Wake : CreatorOf(v)' = CreatorOf(v)
      BY <1>0, <2>1, <2>2, <2>3 DEF CreatorOf
    <3>2. /\ NewClone(c, frames[d].ptr, frames[d].seqno)
          /\ count' = [count EXCEPT ![frames[d].ptr] = @ + 1]
      BY <2>3 DEF CloneAcquire
    <3>. QED
      BY <1>0, <1>7, <2>1, <2>2, <3>1, <3>2
  <2>4. CASE CloneAgain(d, c) /\ frames' = frames
    <3>1. \A v \in Wake : CreatorOf(v)' = CreatorOf(v)
      BY <2>2, <2>4 DEF CreatorOf
    <3>2. /\ NewClone(c, frames[d].ptr, frames[d].seqno)
          /\ count' = [count EXCEPT ![frames[d].ptr] = @ + 1]
      BY <2>4 DEF CloneAgain
    <3>. QED
      BY <1>0, <1>7, <2>1, <2>2, <3>1, <3>2
  <2>5. CASE CloneCreate(d, c)
    <3>1. PICK w \in Wake : /\ Allocates(w)
                           /\ frames' = [frames EXCEPT ![d] = [frames[d] EXCEPT
                                !.acquired = TRUE, !.created = TRUE, !.ptr = w]]
                           /\ count' = [count EXCEPT ![w] = 2]
                           /\ NewClone(c, w, frames[d].seqno)
      BY <2>5 DEF CloneCreate
    <3>2. count[w] = 0 /\ w # ThreadLocal /\ ~frames[d].created
      BY <1>0, <2>5, <3>1 DEF Allocates, Unallocated, CloneCreate, FramesOK, FrameOK
    <3>3. frames'[d].ptr = w /\ frames'[d].created
      BY <1>0, <3>1 DEF Frame
    <3>4. \A v \in Wake : /\ CreatorOf(v)' = (IF v = w THEN CreatorOf(v) \cup {d} ELSE CreatorOf(v))
                          /\ d \notin CreatorOf(v)
      BY <1>0, <2>1, <2>2, <3>2, <3>3 DEF CreatorOf
    <3>5. \A v \in Wake : Cardinality(CreatorOf(v)')
                             = Cardinality(CreatorOf(v)) + (IF v = w THEN 1 ELSE 0)
      BY <1>1, <3>4, FS_AddElement
    <3>6. \A v \in Wake :
            Cardinality(ClonesOf(v)') = Cardinality(ClonesOf(v)) + (IF v = w THEN 1 ELSE 0)
      BY <1>0, <2>2, <3>1, NewCloneCounts
    <3>7. ASSUME NEW v \in Wake PROVE count'[v] = References(v)'
      <4>1. OfHandle(v)' = OfHandle(v)
        BY <2>1 DEF OfHandle
      <4>2. CASE v = w
        <5>1. Cardinality(ClonesOf(v)) = 0 /\ Cardinality(CreatorOf(v)) = 0 /\ OfHandle(v) = 0
          BY <1>1, <3>2, <4>2
        <5>2. count'[v] = 2
          BY <1>0, <3>1, <4>2
        <5>3. Cardinality(ClonesOf(v)') = 1 /\ Cardinality(CreatorOf(v)') = 1
          BY <3>5, <3>6, <4>2, <5>1
        <5>. QED
          BY <4>1, <5>1, <5>2, <5>3
      <4>3. CASE v # w
        BY <1>0, <1>1, <3>1, <3>5, <3>6, <4>1, <4>3
      <4>. QED
        BY <4>2, <4>3
    <3>. QED
      BY <3>7 DEF CountsReferences
  <2>. QED
    BY <2>1, <2>3, <2>4, <2>5
<1>9. ASSUME NEW c \in Clone, NEW copy \in Clone, CloneClone(c, copy) PROVE CountsReferences'
  <2>1. \A v \in Wake : CreatorOf(v)' = CreatorOf(v)
    BY <1>0, <1>9, StillWaker, StillCounts
  <2>. QED
    BY <1>0, <1>7, <1>9, <2>1 DEF CloneClone
<1>10. ASSUME NEW c \in Clone, WakeClone(c) \/ Unpark(c) PROVE CountsReferences'
  <2>1. \A v \in Wake : CreatorOf(v)' = CreatorOf(v)
    BY <1>0, <1>10, StillWaker, StillCounts
  <2>2. PICK place \in ClonePlace \ {"none"} : MoveClone(c, place)
    BY <1>10 DEF WakeClone, Unpark, ClonePlace
  <2>3. clones[c].pc # "none" /\ UNCHANGED <<count, exited>>
    BY <1>10 DEF WakeClone, Unpark
  <2>4. \A v \in Wake : ClonesOf(v)' = ClonesOf(v)
    BY <1>0, <2>2, <2>3, MoveCloneCounts
  <2>. QED
    BY <1>2, <2>1, <2>3, <2>4
<1>11. ASSUME NEW c \in Clone, DropClone(c) PROVE CountsReferences'
  <2>1. \A v \in Wake : CreatorOf(v)' = CreatorOf(v)
    BY <1>0, <1>11, StillWaker, StillCounts
  <2>2. /\ clones' = [clones EXCEPT ![c] = NoClone] /\ clones[c].pc # "none"
        /\ count' = [count EXCEPT ![clones[c].ptr] = @ - 1] /\ exited' = exited
    BY <1>11 DEF DropClone, DecCount
  <2>3. \A v \in Wake : Cardinality(ClonesOf(v)')
                           = Cardinality(ClonesOf(v)) - (IF v = clones[c].ptr THEN 1 ELSE 0)
    BY <1>0, <2>2, DropCloneCounts
  <2>4. ASSUME NEW v \in Wake PROVE count'[v] = References(v)'
    <3>1. OfHandle(v)' = OfHandle(v)
      BY <2>2 DEF OfHandle
    <3>2. count'[v] = count[v] - (IF v = clones[c].ptr THEN 1 ELSE 0)
      BY <1>0, <2>2
    <3>. QED
      BY <1>1, <2>1, <2>3, <3>1, <3>2
  <2>. QED
    BY <2>4 DEF CountsReferences
<1>12. PollReady \/ Expired => top > 0 /\ Leave
  BY DEF PollReady, Expired, At
<1>. QED
  BY <1>3, <1>4, <1>5, <1>6, <1>8, <1>9, <1>10, <1>11, <1>12 DEF Next

-----------------------------------------------------------------------------
(* Theorems *)

\* A thread in no suspension, with a ThreadWake that its handle refers to
\* (thread.rs:88-94, 126-134).
LEMMA InvInit == Init => Inv
<1>. SUFFICES ASSUME Init PROVE Inv
  OBVIOUS
<1>0. Live = {} /\ ThreadLocal \in Wake
  BY Constants DEF Init, Live
<1>1. TypeOK
  <2>1. NoClone \in [seqno : Seqno, ptr : Wake, pc : ClonePlace]
    BY Constants DEF NoClone, ClonePlace
  <2>2. frames \in [1 .. Depth -> Frame]
    BY NoFrameType DEF Init
  <2>. QED
    <3>1. clones \in [Clone -> [seqno : Seqno, ptr : Wake, pc : ClonePlace]]
      BY <2>1 DEF Init
    <3>2. seqno \in [Wake -> 0 .. UsizeLimit - 1] /\ count \in [Wake -> Nat]
      BY Constants DEF Init, WAKE_STATE_IDLE
    <3>3. top \in 0 .. Depth /\ counter \in MIN_SEQNO - 1 .. UsizeLimit - 1
      BY Constants DEF Init
    <3>. QED
      BY <2>2, <3>1, <3>2, <3>3 DEF Init, TypeOK
<1>2. FramesOK
  <2>1. ~NoFrame.created /\ ~NoFrame.acquired /\ NoFrame.ptr = ThreadLocal
    BY DEF NoFrame
  <2>2. \A d \in 1 .. Depth : frames[d] = NoFrame
    BY DEF Init
  <2>3. \A d \in 1 .. Depth : FrameOK(d)
    BY <2>1, <2>2 DEF FrameOK
  <2>4. top = 0
    BY DEF Init
  <2>. QED
    BY <1>0, <2>3, <2>4 DEF FramesOK
<1>3. HoldersOK
  BY <1>0 DEF Init, HoldersOK
<1>4. ASSUME NEW w \in Wake PROVE count[w] = References(w)
  <2>1. ClonesOf(w) = {}
    BY DEF Init, ClonesOf, NoClone
  <2>2. CreatorOf(w) = {}
    BY <1>0 DEF CreatorOf
  <2>3. Cardinality(ClonesOf(w)) = 0 /\ Cardinality(CreatorOf(w)) = 0
    BY <2>1, <2>2, FS_EmptySet
  <2>4. count[w] = OfHandle(w) /\ OfHandle(w) \in {0, 1}
    BY DEF Init, OfHandle
  <2>. QED
    BY <2>3, <2>4 DEF References
<1>. QED
  BY <1>1, <1>2, <1>3, <1>4 DEF Inv, CountsReferences

\* The invariant is inductive.
LEMMA InvStep == ASSUME Inv, [Next]_vars PROVE Inv'
<1>1. CASE Next
  BY <1>1, TypeStep, FramesStep, HoldersStep, CountsStep DEF Inv
<1>2. CASE UNCHANGED vars
  <2>1. TypeOK' /\ FramesOK'
    BY <1>2 DEF vars, Inv, TypeOK, FramesOK, FrameOK, Live
  <2>2. HoldersOK'
    BY <1>2 DEF vars, Inv, HoldersOK, Live
  <2>3. \A w \in Wake : References(w)' = References(w)
    BY <1>2 DEF vars, References, ClonesOf, CreatorOf, OfHandle, Live
  <2>4. CountsReferences'
    BY <1>2, <2>3 DEF vars, Inv, CountsReferences
  <2>. QED
    BY <2>1, <2>2, <2>4 DEF Inv
<1>. QED
  BY <1>1, <1>2

\* No two frames hold a ThreadWake, which is what OneFrameEach says of the set
\* of those that do.
LEMMA OneIsEnough == ASSUME Inv PROVE OneFrameEach
<1>1. ASSUME NEW w \in Wake PROVE Cardinality(Holders(w)) <= 1
  <2>1. CASE Holders(w) = {}
    BY <2>1, FS_EmptySet
  <2>2. CASE Holders(w) # {}
    <3>1. PICK d : d \in Holders(w)
      BY <2>2
    <3>2. Holders(w) = {d}
      BY <3>1 DEF Holders, Inv, HoldersOK
    <3>. QED
      BY <3>2, FS_Singleton
  <2>. QED
    BY <2>1, <2>2
<1>. QED
  BY <1>1 DEF OneFrameEach, Holders, Inv, HoldersOK

\* Every variable keeps its type: no sequence number is one of the two values
\* that have a meaning, and no count goes below zero (thread.rs:101-112,
\* 169-181).
THEOREM TypeCorrect == Spec => []TypeOK
<1>1. Inv => TypeOK
  BY DEF Inv
<1>. QED
  BY <1>1, InvInit, InvStep, PTL DEF Spec

\* A ThreadWake is freed by the last of the handle, the frames and the wakers
\* that refer to it, however deep the suspensions nest and however many wakers
\* outlive them (thread.rs:169-181, 225-244, 265-275).
THEOREM CountedExactly == Spec => []CountsReferences
<1>1. Inv => CountsReferences
  BY DEF Inv
<1>. QED
  BY <1>1, InvInit, InvStep, PTL DEF Spec

\* A ThreadWake serves one suspension at a time, and the thread's own is free
\* for the next when none has it (thread.rs:136-152).
THEOREM ServesOne == Spec => []OneFrameEach
<1>. QED
  BY OneIsEnough, InvInit, InvStep, PTL DEF Spec

-----------------------------------------------------------------------------
(* Only its own wakers *)

\* A frame that finds itself woken has been: by its own waker, or by a clone.
RungOK ==
    \A d \in Live :
      /\ frames[d].woken => "own" \in frames[d].rung
      /\ frames[d].acquired /\ seqno[frames[d].ptr] = WAKE_STATE_WOKEN
           => "clone" \in frames[d].rung

\* A step that wakes no frame that was not woken.
WakesNone ==
    \A d \in Live' :
      /\ d \in Live
      /\ frames'[d].woken => frames[d].woken
      /\ frames'[d].acquired => frames[d].acquired
      /\ frames'[d].ptr = frames[d].ptr
      /\ frames[d].rung \subseteq frames'[d].rung
      /\ frames[d].acquired /\ seqno'[frames[d].ptr] = WAKE_STATE_WOKEN
           => seqno[frames[d].ptr] = WAKE_STATE_WOKEN

\* Such a step leaves every frame that is woken with a waker that was used.
LEMMA RungSame == ASSUME RungOK, WakesNone PROVE RungOK'
<1>1. ASSUME NEW d \in Live'
      PROVE  /\ frames'[d].woken => "own" \in frames'[d].rung
             /\ frames'[d].acquired /\ seqno'[frames'[d].ptr] = WAKE_STATE_WOKEN
                  => "clone" \in frames'[d].rung
  <2>1. /\ d \in Live /\ (frames'[d].woken => frames[d].woken)
        /\ (frames'[d].acquired => frames[d].acquired)
        /\ frames'[d].ptr = frames[d].ptr /\ frames[d].rung \subseteq frames'[d].rung
        /\ (frames[d].acquired /\ seqno'[frames[d].ptr] = WAKE_STATE_WOKEN
              => seqno[frames[d].ptr] = WAKE_STATE_WOKEN)
    BY <1>1 DEF WakesNone
  <2>2. /\ frames[d].woken => "own" \in frames[d].rung
        /\ frames[d].acquired /\ seqno[frames[d].ptr] = WAKE_STATE_WOKEN
             => "clone" \in frames[d].rung
    BY <2>1 DEF RungOK
  <2>. QED
    BY <1>1, <2>1, <2>2
<1>. QED
  BY <1>1 DEF RungOK

\* A frame is woken only by a waker of its own that was used (thread.rs:154-167,
\* 251-257), which stays so until it is answered (thread.rs:213-223).
LEMMA RungStep == ASSUME Inv, RungOK, Next PROVE RungOK'
<1>0. /\ TypeOK /\ FramesOK /\ HoldersOK /\ CountsReferences
      /\ top \in 0 .. Depth /\ Depth \in Nat /\ Live = 1 .. top
      /\ frames \in [1 .. Depth -> Frame] /\ seqno \in [Wake -> 0 .. UsizeLimit - 1]
      /\ \A d \in Live : d \in 1 .. Depth
      /\ \A d \in 1 .. Depth : frames[d].ptr \in Wake /\ frames[d].seqno \in Seqno
      /\ \A c \in Clone : clones[c].ptr \in Wake
  BY Constants DEF Inv, TypeOK, Live, Frame
<1>1. WAKE_STATE_IDLE # WAKE_STATE_WOKEN /\ \A s \in Seqno : s # WAKE_STATE_WOKEN
  BY Constants DEF WAKE_STATE_IDLE, WAKE_STATE_WOKEN, Seqno
<1>2. ASSUME Enter PROVE RungOK'
  <2>1. /\ top' = top + 1 /\ top + 1 \in 1 .. Depth /\ seqno' = seqno
        /\ frames' = [frames EXCEPT ![top + 1] =
                        [NoFrame EXCEPT !.seqno = NextSeqno, !.pc = "poll"]]
    BY <1>0, <1>2 DEF Enter
  <2>2. ~frames'[top + 1].acquired /\ ~frames'[top + 1].woken
    BY <1>0, <2>1 DEF NoFrame
  <2>3. Live' = Live \cup {top + 1} /\ \A d \in Live : frames'[d] = frames[d]
    BY <1>0, <2>1 DEF Live
  <2>. QED
    BY <2>1, <2>2, <2>3 DEF RungOK
<1>3. ASSUME top > 0, Leave PROVE RungOK'
  <2>1. top' = top - 1 /\ frames' = [frames EXCEPT ![top] = NoFrame]
    BY <1>3 DEF Leave
  <2>2. \A d \in Live' : d \in Live /\ frames'[d] = frames[d]
    BY <1>0, <1>3, <2>1 DEF Live
  <2>3. \A w \in Wake : seqno'[w] = WAKE_STATE_WOKEN => seqno[w] = WAKE_STATE_WOKEN
    BY <1>0, <1>1, <1>3 DEF Leave, DecCount
  <2>. QED
    BY <1>0, <2>2, <2>3, RungSame DEF WakesNone
<1>4. ASSUME PollPending \/ Park \/ ParkReturns PROVE RungOK'
  <2>1. /\ top \in Live /\ top' = top /\ seqno' = seqno
        /\ frames' = [frames EXCEPT ![top] = [frames[top] EXCEPT !.pc = "restart"]]
    BY <1>0, <1>4 DEF PollPending, Park, ParkReturns, At
  <2>2. Live' = Live
    BY <2>1 DEF Live
  <2>3. \A d \in Live : /\ frames'[d].woken = frames[d].woken
                        /\ frames'[d].acquired = frames[d].acquired
                        /\ frames'[d].ptr = frames[d].ptr
                        /\ frames'[d].rung = frames[d].rung
    BY <1>0, <2>1 DEF Frame
  <2>. QED
    BY <2>1, <2>2, <2>3 DEF RungOK
<1>5. ASSUME Restart PROVE RungOK'
  <2>1. top \in Live /\ top' = top /\ frames[top] \in Frame
    BY <1>0, <1>5 DEF Restart, At
  <2>2. Live' = Live
    BY <2>1 DEF Live
  <2>3. \A d \in Live : d # top => frames'[d] = frames[d]
    BY <1>0, <1>5 DEF Restart
  <2>4. \A w \in Wake : seqno'[w] = WAKE_STATE_WOKEN => seqno[w] = WAKE_STATE_WOKEN
    BY <1>0, <1>1, <1>5, <2>1 DEF Restart
  <2>5. ASSUME NEW d \in Live, d # top
        PROVE  /\ frames'[d].woken => "own" \in frames'[d].rung
               /\ frames'[d].acquired /\ seqno'[frames'[d].ptr] = WAKE_STATE_WOKEN
                    => "clone" \in frames'[d].rung
    BY <1>0, <2>3, <2>4, <2>5 DEF RungOK
  <2>6. /\ frames'[top].woken => "own" \in frames'[top].rung
        /\ frames'[top].acquired /\ seqno'[frames'[top].ptr] = WAKE_STATE_WOKEN
             => "clone" \in frames'[top].rung
    <3>1. CASE frames[top].woken
      <4>1. /\ frames' = [frames EXCEPT ![top] = [frames[top] EXCEPT
                            !.woken = FALSE, !.pc = "poll", !.rung = @ \ {"own"}]]
            /\ seqno' = seqno
        BY <1>5, <3>1 DEF Restart
      <4>2. /\ ~frames'[top].woken /\ frames'[top].ptr = frames[top].ptr
            /\ frames'[top].acquired = frames[top].acquired
            /\ frames'[top].rung = frames[top].rung \ {"own"}
        BY <1>0, <2>1, <4>1 DEF Frame
      <4>. QED
        BY <2>1, <4>1, <4>2 DEF RungOK
    <3>2. CASE ~frames[top].woken
      <4>1. \E f \in { [frames[top] EXCEPT !.pc = "poll", !.rung = @ \ {"clone"}],
                       [frames[top] EXCEPT !.pc = "park"] } :
              frames' = [frames EXCEPT ![top] = f]
        BY <1>5, <3>2 DEF Restart
      <4>2. /\ ~frames'[top].woken /\ frames'[top].ptr = frames[top].ptr
            /\ frames'[top].acquired = frames[top].acquired
        <5>1. top \in 1 .. Depth /\ frames \in [1 .. Depth -> Frame]
          BY <1>0, <2>1
        <5>2. CASE frames' = [frames EXCEPT ![top] =
                     [frames[top] EXCEPT !.pc = "poll", !.rung = @ \ {"clone"}]]
          BY <3>2, <5>1, <5>2 DEF Frame
        <5>3. CASE frames' = [frames EXCEPT ![top] = [frames[top] EXCEPT !.pc = "park"]]
          BY <3>2, <5>1, <5>3 DEF Frame
        <5>. QED
          BY <4>1, <5>2, <5>3
      <4>3. frames[top].acquired => seqno'[frames[top].ptr] = frames[top].seqno
        BY <1>0, <1>5, <2>1, <3>2 DEF Restart
      <4>4. frames'[top].acquired => seqno'[frames'[top].ptr] # WAKE_STATE_WOKEN
        BY <1>0, <1>1, <2>1, <4>2, <4>3
      <4>. QED
        BY <4>2, <4>4
    <3>. QED
      BY <3>1, <3>2
  <2>. QED
    BY <2>2, <2>5, <2>6 DEF RungOK
<1>6. ASSUME NEW d \in Live, WakeOwn(d) PROVE RungOK'
  <2>1. /\ seqno' = seqno /\ top' = top /\ frames[d] \in Frame
        /\ frames' = [frames EXCEPT ![d] = [frames[d] EXCEPT !.woken = TRUE,
                                                            !.rung = @ \cup {"own"}]]
    BY <1>0, <1>6 DEF WakeOwn
  <2>2. Live' = Live /\ \A e \in Live : e # d => frames'[e] = frames[e]
    BY <1>0, <2>1 DEF Live
  <2>3. /\ frames'[d].acquired = frames[d].acquired /\ frames'[d].ptr = frames[d].ptr
        /\ frames'[d].rung = frames[d].rung \cup {"own"}
    BY <1>0, <2>1 DEF Frame
  <2>. QED
    BY <2>1, <2>2, <2>3 DEF RungOK
<1>7. ASSUME Exit PROVE RungOK'
  BY <1>0, <1>7 DEF Exit, RungOK, Live
<1>8. ASSUME NEW d \in Live, NEW c \in Clone, CloneOwn(d, c) PROVE RungOK'
  <2>1. /\ top' = top /\ \A e \in 1 .. Depth : e # d => frames'[e] = frames[e]
        /\ \/ CloneAcquire(d, c) /\ frames'[d].ptr = frames[d].ptr
           \/ CloneCreate(d, c)
           \/ CloneAgain(d, c) /\ frames' = frames
    BY <1>0, <1>8, CloneOwnFrames
  <2>2. Live' = Live
    BY <2>1 DEF Live
  <2>3. ASSUME NEW w \in Wake, frames'[d].ptr = w,
               seqno' = [seqno EXCEPT ![w] = frames[d].seqno],
               frames'[d].woken = frames[d].woken, frames'[d].rung = frames[d].rung
        PROVE  RungOK'
    <3>1. seqno'[w] # WAKE_STATE_WOKEN
      BY <1>0, <1>1, <2>3
    <3>2. \A v \in Wake : seqno'[v] = WAKE_STATE_WOKEN => seqno[v] = WAKE_STATE_WOKEN
      BY <1>0, <2>3, <3>1
    <3>. QED
      BY <1>0, <2>1, <2>2, <2>3, <3>1, <3>2 DEF RungOK
  <2>4. CASE CloneAcquire(d, c) /\ frames'[d].ptr = frames[d].ptr
    <3>1. /\ seqno' = [seqno EXCEPT ![frames[d].ptr] = frames[d].seqno]
          /\ frames' = [frames EXCEPT ![d] = [frames[d] EXCEPT !.acquired = TRUE]]
      BY <2>4 DEF CloneAcquire
    <3>2. frames'[d].woken = frames[d].woken /\ frames'[d].rung = frames[d].rung
      BY <1>0, <3>1 DEF Frame
    <3>. QED
      BY <1>0, <2>3, <2>4, <3>1, <3>2
  <2>5. CASE CloneCreate(d, c)
    <3>1. PICK w \in Wake : /\ seqno' = [seqno EXCEPT ![w] = frames[d].seqno]
                           /\ frames' = [frames EXCEPT ![d] = [frames[d] EXCEPT
                                !.acquired = TRUE, !.created = TRUE, !.ptr = w]]
      BY <2>5 DEF CloneCreate
    <3>2. frames'[d].woken = frames[d].woken /\ frames'[d].rung = frames[d].rung
          /\ frames'[d].ptr = w
      BY <1>0, <3>1 DEF Frame
    <3>. QED
      BY <2>3, <3>1, <3>2
  <2>6. CASE CloneAgain(d, c) /\ frames' = frames
    BY <2>2, <2>6 DEF CloneAgain, RungOK
  <2>. QED
    BY <2>1, <2>4, <2>5, <2>6
<1>9. ASSUME NEW c \in Clone, (\E copy \in Clone : CloneClone(c, copy)) \/ Unpark(c)
      PROVE  RungOK'
  BY <1>9 DEF CloneClone, Unpark, RungOK, Live
<1>10. ASSUME NEW c \in Clone, WakeClone(c) PROVE RungOK'
  <2>1. top' = top /\ Ring(clones[c].seqno)
    BY <1>10 DEF WakeClone
  <2>2. Live' = Live
    BY <2>1 DEF Live
  <2>3. \A d \in Live :
          /\ frames'[d].woken = frames[d].woken /\ frames'[d].acquired = frames[d].acquired
          /\ frames'[d].ptr = frames[d].ptr /\ frames[d].rung \subseteq frames'[d].rung
          /\ frames[d].seqno = clones[c].seqno => "clone" \in frames'[d].rung
    BY <1>0, <2>1 DEF Ring, Frame
  <2>4. CASE seqno' = seqno
    BY <2>2, <2>3, <2>4, RungSame DEF WakesNone
  <2>5. CASE /\ seqno[clones[c].ptr] = clones[c].seqno
             /\ seqno' = [seqno EXCEPT ![clones[c].ptr] = WAKE_STATE_WOKEN]
    <3>1. ASSUME NEW d \in Live, frames[d].acquired, frames[d].ptr = clones[c].ptr
          PROVE  \/ frames[d].seqno = clones[c].seqno
                 \/ seqno[frames[d].ptr] = WAKE_STATE_WOKEN
      BY <1>0, <2>5, <3>1 DEF HoldersOK
    <3>2. \A d \in Live : frames[d].ptr # clones[c].ptr
                           => seqno'[frames[d].ptr] = seqno[frames[d].ptr]
      BY <1>0, <2>5
    <3>. QED
      BY <2>2, <2>3, <3>1, <3>2 DEF RungOK
  <2>. QED
    BY <1>10, <2>4, <2>5 DEF WakeClone
<1>11. ASSUME NEW c \in Clone, DropClone(c) PROVE RungOK'
  <2>1. \A w \in Wake : seqno'[w] = WAKE_STATE_WOKEN => seqno[w] = WAKE_STATE_WOKEN
    BY <1>0, <1>1, <1>11 DEF DropClone, DecCount
  <2>2. frames' = frames /\ Live' = Live
    BY <1>11 DEF DropClone, Live
  <2>. QED
    BY <1>0, <2>1, <2>2 DEF RungOK
<1>12. PollReady \/ Expired => top > 0 /\ Leave
  BY DEF PollReady, Expired, At
<1>. QED
  BY <1>2, <1>3, <1>4, <1>5, <1>6, <1>7, <1>8, <1>9, <1>10, <1>11, <1>12 DEF Next

\* A frame that polls again had been woken.
PolledForWake ==
    \A d \in Live :
      frames[d].pc \in {"restart", "park"} /\ frames'[d].pc = "poll"
        => frames'[d].rung # frames[d].rung

\* A frame goes back to polling only by answering a waker (thread.rs:213-223).
LEMMA PollsForWake == ASSUME Inv, RungOK, Next PROVE PolledForWake
<1>. SUFFICES ASSUME NEW d \in Live, frames[d].pc \in {"restart", "park"},
                     frames'[d].pc = "poll"
              PROVE  frames'[d].rung # frames[d].rung
  BY DEF PolledForWake
<1>0. /\ frames \in [1 .. Depth -> Frame] /\ d \in 1 .. Depth /\ frames[d] \in Frame
      /\ top \in Nat /\ Live = 1 .. top /\ TypeOK
  BY Constants DEF Inv, TypeOK, Live
<1>1. CASE Restart
  <2>1. d = top
    BY <1>0, <1>1 DEF Restart
  <2>2. CASE frames[top].woken
    <3>1. frames'[d].rung = frames[d].rung \ {"own"}
      BY <1>0, <1>1, <2>1, <2>2 DEF Restart, Frame
    <3>. QED
      BY <2>1, <2>2, <3>1 DEF RungOK
  <2>3. CASE ~frames[top].woken /\ Woken(frames[top])
    <3>1. frames'[d].rung = frames[d].rung \ {"clone"}
      BY <1>0, <1>1, <2>1, <2>3 DEF Restart, Frame
    <3>. QED
      BY <2>1, <2>3, <3>1 DEF RungOK, Woken
  <2>4. CASE ~frames[top].woken /\ ~Woken(frames[top])
    <3>1. frames'[d].pc = "park"
      BY <1>0, <1>1, <2>1, <2>4 DEF Restart, Frame
    <3>. QED
      BY <3>1
  <2>. QED
    BY <2>2, <2>3, <2>4
<1>2. CASE Enter
  BY <1>0, <1>2 DEF Enter
<1>3. CASE Leave
  BY <1>0, <1>3 DEF Leave, NoFrame
<1>4. CASE PollPending \/ Park \/ ParkReturns
  <2>1. frames' = [frames EXCEPT ![top] = [frames[top] EXCEPT !.pc = "restart"]]
    BY <1>4 DEF PollPending, Park, ParkReturns
  <2>2. frames'[d].pc \in {frames[d].pc, "restart"}
    BY <1>0, <2>1 DEF Frame
  <2>. QED
    BY <2>2
<1>5. ASSUME NEW e \in Live, WakeOwn(e) PROVE FALSE
  BY <1>0, <1>5 DEF WakeOwn, Frame
<1>6. ASSUME NEW e \in Live, NEW c \in Clone, CloneOwn(e, c) PROVE FALSE
  <2>1. CASE CloneAcquire(e, c)
    BY <1>0, <2>1 DEF CloneAcquire, Frame
  <2>2. CASE CloneCreate(e, c)
    BY <1>0, <2>2 DEF CloneCreate, Frame
  <2>3. CASE CloneAgain(e, c)
    BY <2>3 DEF CloneAgain
  <2>. QED
    BY <1>6, <2>1, <2>2, <2>3 DEF CloneOwn
<1>7. ASSUME NEW c \in Clone, WakeClone(c) PROVE FALSE
  BY <1>0, <1>7 DEF WakeClone, Ring, Frame
<1>8. CASE Exit \/ (\E c, copy \in Clone : CloneClone(c, copy))
             \/ (\E c \in Clone : Unpark(c) \/ DropClone(c))
  BY <1>8 DEF Exit, CloneClone, Unpark, DropClone
<1>. QED
  BY <1>1, <1>2, <1>3, <1>4, <1>5, <1>6, <1>7, <1>8 DEF Next, PollReady, Expired

\* A closure is polled again only for a waker of its own suspension, whatever
\* stale wakers, outer and inner frames and returns of park() there are
\* (thread.rs:63-81, 149-167).
THEOREM PolledForOwnWake == Spec => OnlyOwnWake
<1>1. Init => RungOK
  BY Constants DEF Init, RungOK, Live
<1>2. Inv /\ RungOK /\ [Next]_vars => RungOK'
  <2>1. UNCHANGED vars /\ RungOK => RungOK'
    BY DEF vars, RungOK, Live
  <2>. QED
    BY <2>1, RungStep
<1>3. Inv /\ RungOK /\ [Next]_vars => [PolledForWake]_vars
  BY PollsForWake
<1>. QED
  BY <1>1, <1>2, <1>3, InvInit, InvStep, PTL DEF Spec, OnlyOwnWake, PolledForWake
=============================================================================
