------------------------- MODULE ThreadResourceProofs -------------------------
(***************************************************************************)
(* ThreadResource keeps its types, and takes every command of an owner     *)
(* that waits for its Tasks, for any number of commands.                   *)
(***************************************************************************)
EXTENDS ThreadResource, TLAPS

(* The inductive invariants. *)

\* Where the owner is in the middle of a command.
Giving == {"lock", "store", "unlock", "notify", "return", "task", "wait", "join"}
Begun ==
    /\ owner.at \in Giving => owner.kind # "None" /\ given \in Id
    /\ owner.at \in {"task", "wait"} => owner.kind # "Stop"

\* The thread has nothing to do, and waits or is about to look.
Quiet ==
    /\ next = NoCommand /\ command = NoCommand /\ running
    /\ thread \in {"listen", "try", "wait", "unlisten"}

\* Where a command may be: in the lock, with the thread, or done.
Underway ==
    \/ /\ next # NoCommand /\ next.kind = owner.kind /\ next.id = given
       /\ command = NoCommand /\ running
       /\ thread \in {"listen", "try", "wait", "unlisten", "take"}
       /\ task[given] = "pending"
    \/ /\ next = NoCommand /\ running /\ thread = "run"
       /\ command.kind = owner.kind /\ command.id = given
       /\ task[given] = "pending"
    \/ Quiet /\ task[given] = "sent"

\* An owner that waits for its Tasks, whose closures do not panic, gives a command to
\* a thread that has done the one before.
Served ==
    ~usage.drops /\ ~usage.panics =>
        /\ owner.accepted
        /\ OwnerAt("create") =>
              \/ /\ next = NoCommand /\ command = NoCommand /\ running
                 /\ thread = "ctor" /\ task[Start] = "pending"
              \/ Quiet /\ task[Start] = "sent"
              \/ task[Start] = "canceled"
        /\ owner.at \in {"idle", "lock", "store"} => Quiet
        /\ owner.at \in {"lock", "store"} /\ owner.kind = "Run" => task[given] = "pending"
        /\ owner.at \in {"unlock", "notify", "return", "task", "wait"} /\ owner.kind = "Run"
              => Underway

-----------------------------------------------------------------------------

\* Tasks are answered by what there is to answer.
LEMMA AnswerType ==
  ASSUME NEW ids, NEW what \in {"none", "pending", "sent", "canceled", "dropped"},
         TypeOK, AnswerAll(ids, what)
  PROVE  /\ task' \in [Id \cup {Start} -> {"none", "pending", "sent", "canceled", "dropped"}]
         /\ \A i \in (Id \cup {Start}) \ ids : task'[i] = task[i]
         /\ \A i \in Id \cup {Start} : task[i] # "pending" => task'[i] = task[i]
         /\ \A i \in (Id \cup {Start}) \cap ids : task[i] = "pending" => task'[i] = what
  BY DEF TypeOK, AnswerAll

\* Nobody holds the lock at first, and no command is given.
LEMMA TypeInit == Init => TypeOK /\ Begun
<1>. SUFFICES ASSUME Init PROVE TypeOK /\ Begun
  OBVIOUS
<1>1. task \in [Id \cup {Start} -> {"none", "pending", "sent", "canceled", "dropped"}]
  BY DEF Init
<1>2. given \in 0 .. CommandBound /\ usage \in Usage
  BY ThreadResourceAssumption DEF Init
<1>3. Begun
  BY DEF Init, Begun, Giving
<1>. QED
  BY <1>1, <1>2, <1>3 DEF Init, TypeOK, OwnerAt, OwnerPlace, ThreadPlace

\* The lock is taken and given back where TypeOK says, and a command has its number.
LEMMA TypeStep == TypeOK /\ Begun /\ [Next]_vars => (TypeOK /\ Begun)'
<1>. SUFFICES ASSUME TypeOK, Begun, [Next]_vars PROVE (TypeOK /\ Begun)'
  OBVIOUS
<1>. USE DEF OwnerAt, OwnerTo, ThreadTo, OwnerPlace, ThreadPlace, Giving
<1>1. ASSUME UNCHANGED <<task, next, given>>, (Created \/ SpinLock \/ Unlock \/ Notify
                \/ WaitTask \/ TaskDone \/ Listen \/ TryTake \/ Wait \/ Unlisten \/ Leave)
      PROVE  (TypeOK /\ Begun)'
  <2>1. Created => (TypeOK /\ Begun)'
    BY <1>1 DEF Created, TypeOK, Begun
  <2>2. SpinLock => (TypeOK /\ Begun)'
    BY <1>1 DEF SpinLock, TypeOK, Begun
  <2>3. Unlock => (TypeOK /\ Begun)'
    BY <1>1 DEF Unlock, TypeOK, Begun
  <2>4. Notify => (TypeOK /\ Begun)'
    BY <1>1 DEF Notify, TypeOK, Begun
  <2>5. WaitTask \/ TaskDone => (TypeOK /\ Begun)'
    BY <1>1 DEF WaitTask, TaskDone, AfterTask, TypeOK, Begun
  <2>6. Listen \/ TryTake \/ Wait \/ Unlisten \/ Leave => (TypeOK /\ Begun)'
    BY <1>1 DEF Listen, TryTake, Wait, Unlisten, Leave, TypeOK, Begun
  <2>. QED
    BY <1>1, <2>1, <2>2, <2>3, <2>4, <2>5, <2>6
<1>2. ASSUME NEW kind \in Kind, Give(kind) PROVE (TypeOK /\ Begun)'
  <2>1. given + 1 \in Id /\ given + 1 \in 0 .. CommandBound
    BY <1>2, ThreadResourceAssumption DEF Give, TypeOK, Id
  <2>2. task' \in [Id \cup {Start} -> {"none", "pending", "sent", "canceled", "dropped"}]
    BY <1>2, <2>1 DEF Give, TypeOK
  <2>3. /\ owner'.at = "lock" /\ owner'.kind = kind
        /\ owner' \in [at : OwnerPlace, kind : {"None", "Run", "Extract", "Stop"},
                       accepted : BOOLEAN]
    BY <1>2 DEF Give, Kind
  <2>. QED
    BY <1>2, <2>1, <2>2, <2>3 DEF Give, Kind, TypeOK, Begun
<1>3. CASE Store
  <2>1. [kind |-> owner.kind, id |-> given] \in Command
    BY <1>3 DEF Store, TypeOK, Begun, Command
  <2>2. next' \in Command \cup {NoCommand}
    BY <1>3, <2>1 DEF Store, TypeOK
  <2>3. /\ owner' \in [at : OwnerPlace, kind : {"None", "Run", "Extract", "Stop"},
                       accepted : BOOLEAN]
        /\ owner'.at = "unlock" /\ owner'.kind = owner.kind
    BY <1>3 DEF Store, TypeOK
  <2>. QED
    BY <1>3, <2>2, <2>3 DEF Store, TypeOK, Begun
<1>4. ASSUME NEW last, NEW refused, DropState(last, refused)
      PROVE  /\ next' \in Command \cup {NoCommand}
             /\ task' \in [Id \cup {Start} -> {"none", "pending", "sent", "canceled", "dropped"}]
  BY <1>4, AnswerType DEF DropState, TypeOK
<1>5. CASE Return
  <2>1. /\ next' \in Command \cup {NoCommand}
        /\ task' \in [Id \cup {Start} -> {"none", "pending", "sent", "canceled", "dropped"}]
    BY <1>4, <1>5 DEF Return
  <2>. QED
    BY <1>5, <2>1 DEF Return, TypeOK, Begun
<1>6. CASE DropTask
  <2>1. task' \in [Id \cup {Start} -> {"none", "pending", "sent", "canceled", "dropped"}]
    BY <1>6, AnswerType DEF DropTask, Answer
  <2>. QED
    BY <1>6, <2>1 DEF DropTask, AfterTask, TypeOK, Begun
<1>7. CASE Join \/ SentinelDrop
  <2>1. /\ next' \in Command \cup {NoCommand}
        /\ task' \in [Id \cup {Start} -> {"none", "pending", "sent", "canceled", "dropped"}]
    BY <1>4, <1>7 DEF Join, SentinelDrop
  <2>2. CASE Join
    BY <2>1, <2>2 DEF Join, TypeOK, Begun
  <2>3. CASE SentinelDrop
    BY <2>1, <2>3 DEF SentinelDrop, TypeOK, Begun
  <2>. QED
    BY <1>7, <2>2, <2>3
<1>8. CASE Construct \/ Run \/ RunPanics
  <2>1. task' \in [Id \cup {Start} -> {"none", "pending", "sent", "canceled", "dropped"}]
    BY <1>8, AnswerType DEF Construct, Run, RunPanics, Answer
  <2>. QED
    BY <1>8, <2>1 DEF Construct, Run, RunPanics, TypeOK, Begun
<1>9. CASE Take
  BY <1>9 DEF Take, TypeOK, Begun
<1>10. CASE UNCHANGED vars
  BY <1>10 DEF vars, TypeOK, Begun
<1>. QED
  BY <1>1, <1>2, <1>3, <1>5, <1>6, <1>7, <1>8, <1>9, <1>10
  DEF Next, OwnerStep, ThreadStep, Created, SpinLock, Unlock, Notify, WaitTask, TaskDone,
      Listen, TryTake, Wait, Unlisten, Leave

\* Every variable keeps its type; and the OptionLock has the holder that has got to where
\* it holds it, the owner in run_command() or the thread in try_take()
\* (thread.rs:91-95, 150-157).
THEOREM TypeCorrect == Spec => []TypeOK
<1>. QED
  BY TypeInit, TypeStep, PTL DEF Spec

-----------------------------------------------------------------------------

\* The thread begins with an empty lock.
LEMMA ServedInit == Init => Served
  BY DEF Init, Served, OwnerAt, Start

\* A command goes into the lock, to the thread and is done, before the owner that waits
\* for its Task gives another.
LEMMA ServedStep == TypeOK /\ Begun /\ Served /\ [Next]_vars => Served'
<1>. SUFFICES ASSUME TypeOK, Begun, Served, [Next]_vars PROVE Served'
  OBVIOUS
<1>1. usage' = usage
  BY DEF Next, OwnerStep, ThreadStep, vars, Created, SpinLock, Store, Unlock, Notify, Return,
         WaitTask, DropTask, TaskDone, Join, Give, Construct, Listen, TryTake, Take, Run,
         RunPanics, Wait, Unlisten, Leave, SentinelDrop
<1>. SUFFICES ASSUME ~usage.drops, ~usage.panics PROVE Served'
  BY <1>1 DEF Served
<1>. USE DEF OwnerAt, OwnerTo, ThreadTo
<1>2. Id \subseteq Nat /\ Start \notin Id
  BY DEF Id, Start
<1>3. owner \in [at : OwnerPlace, kind : {"None", "Run", "Extract", "Stop"}, accepted : BOOLEAN]
  BY DEF TypeOK
<1>4. CASE Created
  BY <1>3, <1>4 DEF Created, Served, Quiet
<1>5. ASSUME NEW kind \in Kind, Give(kind) PROVE Served'
  <2>1. given + 1 \in Id
    BY <1>5, ThreadResourceAssumption DEF Give, TypeOK, Id
  <2>2. kind = "Run" => task'[given'] = "pending"
    BY <1>5, <2>1 DEF Give, TypeOK
  <2>. QED
    BY <1>3, <1>5, <2>2 DEF Give, Served, Quiet
<1>6. CASE SpinLock
  BY <1>3, <1>6 DEF SpinLock, Served, Quiet
<1>7. CASE Store
  <2>1. Quiet /\ owner.kind # "None" /\ given \in Id /\ owner.accepted
    BY <1>7 DEF Store, Served, Begun, Giving
  <2>2. next' = [kind |-> owner.kind, id |-> given] /\ OwnerTo("unlock")
    BY <1>7, <2>1 DEF Store, Quiet
  <2>3. next' # NoCommand
    BY <1>2, <2>1, <2>2 DEF NoCommand
  <2>. QED
    BY <1>3, <1>7, <2>1, <2>2, <2>3 DEF Store, Served, Quiet, Underway
<1>8. CASE Unlock \/ Notify \/ WaitTask
  BY <1>3, <1>8 DEF Unlock, Notify, WaitTask, Served, Quiet, Underway
<1>9. CASE Return
  <2>1. owner.accepted /\ given \in Id
    BY <1>9 DEF Return, Served, Begun, Giving
  <2>2. owner.kind = "Run" => UNCHANGED <<next, task>>
    BY <1>9, <2>1 DEF Return, DropState, AnswerAll, TypeOK
  <2>. QED
    BY <1>3, <1>9, <2>1, <2>2 DEF Return, Served, Quiet, Underway
<1>10. CASE DropTask
  BY <1>10 DEF DropTask
<1>11. CASE TaskDone
  BY <1>3, <1>11 DEF TaskDone, AfterTask, Served, Quiet, Underway, Begun, Giving
<1>12. CASE Join
  BY <1>3, <1>12 DEF Join, Served
<1>13. CASE UNCHANGED vars
  BY <1>13 DEF vars, Served, Quiet, Underway
\* The thread.
<1>14. CASE Construct
  <2>1. Start \in Id \cup {Start}
    OBVIOUS
  <2>2. /\ task[Start] = "pending" => task'[Start] \in {"sent", "canceled"}
        /\ thread' = "leave" /\ task[Start] = "pending" => task'[Start] = "canceled"
        /\ thread' # "leave" => thread' = "listen"
        /\ task[Start] # "pending" => task'[Start] = task[Start]
        /\ \A i \in Id : task'[i] = task[i]
    BY <1>2, <1>14 DEF Construct, Answer, AnswerAll
  <2>3. thread = "ctor"
    BY <1>14 DEF Construct
  <2>4. owner.at \notin {"idle", "lock", "store"}
    BY <2>3 DEF Served, Quiet
  <2>5. ~(owner.at \in {"unlock", "notify", "return", "task", "wait"} /\ owner.kind = "Run")
    BY <2>3 DEF Served, Quiet, Underway
  <2>. QED
    BY <1>14, <2>2, <2>3, <2>4, <2>5 DEF Construct, Served, Quiet
<1>15. CASE Listen \/ TryTake \/ Wait \/ Unlisten
  <2>1. /\ thread \in {"listen", "try", "wait", "unlisten"}
        /\ thread' \in {"listen", "try", "wait", "unlisten", "take"}
        /\ thread' = "take" => next # NoCommand
        /\ UNCHANGED <<next, running, task, given, owner, command>>
    BY <1>15 DEF Listen, TryTake, Wait, Unlisten
  <2>2. Quiet => Quiet'
    BY <2>1 DEF Quiet
  <2>3. Underway => Underway'
    BY <2>1, <2>2 DEF Underway
  <2>. QED
    BY <1>1, <2>1, <2>2, <2>3 DEF Served
<1>16. CASE Take
  <2>1. /\ thread = "take" /\ UNCHANGED <<running, task, given, owner>>
        /\ command' = next /\ next' = NoCommand
        /\ thread' = IF next.kind = "Stop" THEN "leave" ELSE "run"
    BY <1>16 DEF Take
  <2>2. ~Quiet
    BY <2>1 DEF Quiet
  <2>3. Underway /\ owner.kind = "Run" => Underway'
    BY <2>1, <2>2 DEF Underway
  <2>. QED
    BY <1>1, <2>1, <2>2, <2>3 DEF Served
<1>17. CASE Run
  <2>1. /\ thread = "run" /\ UNCHANGED <<running, given, owner, next>> /\ command' = NoCommand
        /\ thread' = IF command.kind = "Extract" THEN "leave" ELSE "unlisten"
        /\ Answer(command.id, "sent")
    BY <1>17 DEF Run
  <2>2. ~Quiet
    BY <2>1 DEF Quiet
  <2>3. OwnerAt("create") => task[Start] = "canceled"
    BY <2>1, <2>2 DEF Served
  <2>4. task[Start] = "canceled" => task'[Start] = "canceled"
    BY <2>1 DEF Answer, AnswerAll
  <2>5. ASSUME owner.at \in {"unlock", "notify", "return", "task", "wait"}, owner.kind = "Run"
        PROVE  Underway'
    <3>1. /\ next = NoCommand /\ running /\ command.kind = "Run" /\ command.id = given
          /\ task[given] = "pending"
      BY <2>1, <2>2, <2>5 DEF Served, Underway
    <3>2. given \in Id
      BY <2>5 DEF Begun, Giving
    <3>3. task'[given] = "sent"
      BY <2>1, <3>1, <3>2 DEF Answer, AnswerAll
    <3>. QED
      BY <2>1, <3>1, <3>3 DEF Underway, Quiet
  <2>. QED
    BY <1>1, <2>1, <2>2, <2>3, <2>4, <2>5 DEF Served
<1>18. CASE RunPanics
  BY <1>18 DEF RunPanics
<1>19. CASE Leave \/ SentinelDrop
  <2>1. thread \in {"leave", "sentinel"} /\ UNCHANGED owner
    BY <1>19 DEF Leave, SentinelDrop
  <2>2. ~Quiet /\ ~Underway /\ (OwnerAt("create") => task[Start] = "canceled")
    BY <2>1 DEF Served, Quiet, Underway
  <2>3. task[Start] = "canceled" => task'[Start] = "canceled"
    BY <1>19 DEF Leave, SentinelDrop, DropState, AnswerAll
  <2>. QED
    BY <1>1, <2>1, <2>2, <2>3 DEF Served
<1>. QED
  BY <1>4, <1>5, <1>6, <1>7, <1>8, <1>9, <1>10, <1>11, <1>12, <1>13, <1>14, <1>15, <1>16,
     <1>17, <1>18, <1>19
  DEF Next, OwnerStep, ThreadStep

\* run_command() refuses a command only when a closure has panicked or an earlier Task was
\* not waited for (thread.rs:149-160): the lock is empty again as soon as the thread has a
\* command, and the thread has it, or has done it, before its Task is answered.
THEOREM Accepting == Spec => []NeverRefused
<1>1. Served => NeverRefused
  BY DEF Served, NeverRefused
<1>. QED
  BY <1>1, TypeInit, TypeStep, ServedInit, ServedStep, PTL DEF Spec
=============================================================================
