---------------------------- MODULE ThreadResource ----------------------------
(***************************************************************************)
(* ThreadResource (src/async-resource/src/util/thread.rs): a resource that *)
(* lives on a thread of its own.  Its owner puts one command at a time     *)
(* into an OptionLock and notifies; the thread listens, tries to take a    *)
(* command, runs it, and waits when there is none.                         *)
(*                                                                         *)
(* The parts it is made of are taken for what they promise: the OptionLock *)
(* is a cell with one exclusive holder (LockedOption), the Suspend is a    *)
(* flag that a notification clears (Notification), and a message_task()    *)
(* delivers its one result or tells that its sender is gone.               *)
(***************************************************************************)
EXTENDS Integers

CONSTANTS
    CommandBound,   \* a bound on the number of commands the owner gives
    Usage           \* how the program may use the resource: a set of records

\* drops: the owner may drop a Task and not wait for it, in spite of the
\*        #[must_use]; panics: a closure or the constructor may panic.
Usages == [drops : BOOLEAN, panics : BOOLEAN]

ASSUME ThreadResourceAssumption == CommandBound \in Nat /\ Usage \subseteq Usages

VARIABLES
    holder,     \* who holds the lock of state.next
    next,       \* state.next: the command in the lock, or NoCommand
    running,    \* state.running
    listening,  \* the Suspend's state: the thread listens and is not notified
    task,       \* task[i]: what the message_task of command i has
    given,      \* how many commands the owner has given
    given_up,   \* the owner's ThreadResource is gone
    owner,      \* where the owner is, and what became of its last command
    thread,     \* where the thread is
    command,    \* the command the thread has taken, or NoCommand
    usage       \* the one of Usage that this program makes

vars == <<holder, next, running, listening, task, given, given_up, owner, thread,
          command, usage>>

Id == 1 .. CommandBound
\* Task 0 is the message_task by which try_create learns that the thread has
\* started.
Start == 0
Command == [kind : {"Run", "Extract", "Stop"}, id : Id]
NoCommand == [kind |-> "None", id |-> Start]

OwnerPlace == {"create", "idle", "lock", "store", "unlock", "notify",
               "return", "task", "wait", "join", "gone"}
ThreadPlace == {"ctor", "listen", "try", "take", "run", "wait", "unlisten",
                "leave", "sentinel", "exited"}

OwnerAt(place) == owner.at = place
OwnerTo(place) == owner' = [owner EXCEPT !.at = place]
ThreadTo(place) == thread' = place

\* The lock has the holder that has got to where it holds it, the owner in
\* run_command() or the thread in try_take() (thread.rs:91-95, 150-157).
TypeOK ==
    /\ holder \in {"nobody", "owner", "thread"}
    /\ next \in Command \cup {NoCommand}
    /\ running \in BOOLEAN /\ listening \in BOOLEAN /\ given_up \in BOOLEAN
    /\ task \in [Id \cup {Start} -> {"none", "pending", "sent", "canceled", "dropped"}]
    /\ given \in 0 .. CommandBound
    /\ owner \in [at : OwnerPlace, kind : {"None", "Run", "Extract", "Stop"},
                  accepted : BOOLEAN]
    /\ thread \in ThreadPlace
    /\ command \in Command \cup {NoCommand}
    /\ usage \in Usage
    /\ holder = "thread" <=> thread = "take"
    /\ holder = "owner" <=> OwnerAt("store") \/ OwnerAt("unlock")

\* try_create: the thread is spawned, the owner waits for it to start.
Init ==
    /\ holder = "nobody"
    /\ next = NoCommand
    /\ running = TRUE
    /\ listening = FALSE
    /\ task = [i \in Id \cup {Start} |-> IF i = Start THEN "pending" ELSE "none"]
    /\ given = 0
    /\ given_up = FALSE
    /\ owner = [at |-> "create", kind |-> "None", accepted |-> TRUE]
    /\ thread = "ctor"
    /\ command = NoCommand
    /\ usage \in Usage

\* The senders of these message_tasks send, or are dropped without.
AnswerAll(ids, what) ==
    task' = [i \in Id \cup {Start} |->
               IF i \in ids /\ task[i] = "pending" THEN what ELSE task[i]]

Answer(i, what) == AnswerAll({i}, what)

-----------------------------------------------------------------------------
(* The owner *)

\* try_create: recv_start.wait().unwrap()?
Created ==
    /\ OwnerAt("create")
    /\ task[Start] # "pending"
    /\ given_up' = (task[Start] # "sent")
    /\ OwnerTo(IF task[Start] = "sent" THEN "idle" ELSE "gone")
    /\ UNCHANGED <<holder, next, running, listening, task, given, thread, command, usage>>

\* enter(), extract(), or drop().
Give(kind) ==
    /\ OwnerAt("idle")
    /\ given < CommandBound
    /\ given + 1 < CommandBound \/ kind # "Run"
    /\ given' = given + 1
    /\ task' = [task EXCEPT ![given + 1] = IF kind = "Stop" THEN "none" ELSE "pending"]
    /\ owner' = [at |-> "lock", kind |-> kind, accepted |-> TRUE]
    /\ UNCHANGED <<holder, next, running, listening, given_up, thread, command, usage>>

\* run_command(): spin_lock()
SpinLock ==
    /\ OwnerAt("lock")
    /\ holder = "nobody"
    /\ holder' = "owner"
    /\ OwnerTo("store")
    /\ UNCHANGED <<next, running, listening, task, given, given_up, thread, command, usage>>

\* The command goes into the lock if the thread runs and the lock is empty.
Store ==
    /\ OwnerAt("store")
    /\ IF running /\ next = NoCommand
         THEN next' = [kind |-> owner.kind, id |-> given] /\ OwnerTo("unlock")
         ELSE /\ owner' = [owner EXCEPT !.at = "unlock", !.accepted = FALSE]
              /\ UNCHANGED next
    /\ UNCHANGED <<holder, running, listening, task, given, given_up, thread, command, usage>>

\* drop(guard)
Unlock ==
    /\ OwnerAt("unlock")
    /\ holder' = "nobody"
    /\ OwnerTo("notify")
    /\ UNCHANGED <<next, running, listening, task, given, given_up, thread, command, usage>>

\* Broken variant: a Stop is put into the lock and not told.
NotifyTasks ==
    /\ OwnerAt("notify")
    /\ listening' = (listening /\ owner.kind = "Stop")
    /\ OwnerTo("return")
    /\ UNCHANGED <<holder, next, running, task, given, given_up, thread, command, usage>>

\* notifier.notify(), for a refused command as well.
Notify ==
    /\ OwnerAt("notify")
    /\ listening' = FALSE
    /\ OwnerTo("return")
    /\ UNCHANGED <<holder, next, running, task, given, given_up, thread, command, usage>>

\* The State is dropped by the last of the owner and the thread, and a command
\* in its lock with it; refused are the commands that are dropped besides.
DropState(last, refused) ==
    /\ next' = IF last THEN NoCommand ELSE next
    /\ AnswerAll(refused \cup (IF last THEN {next.id} \ {Start} ELSE {}), "canceled")

\* run_command() returns, and drops a command that it refused.  Then enter()
\* returns a Task; extract() gives up the thread and returns a Task; drop()
\* goes on to join the thread.
Return ==
    /\ OwnerAt("return")
    /\ given_up' = (owner.kind = "Extract")
    /\ DropState(given_up' /\ thread = "exited",
                 IF owner.accepted THEN {} ELSE {given})
    /\ OwnerTo(IF owner.kind = "Stop" THEN "join" ELSE "task")
    /\ UNCHANGED <<holder, running, listening, given, thread, command, usage>>

\* The Task is waited for, or dropped.
AfterTask == IF owner.kind = "Extract" THEN "gone" ELSE "idle"

WaitTask ==
    /\ OwnerAt("task")
    /\ OwnerTo("wait")
    /\ UNCHANGED <<holder, next, running, listening, task, given, given_up, thread,
                   command, usage>>

DropTask ==
    /\ OwnerAt("task")
    /\ usage.drops
    /\ Answer(given, "dropped")
    /\ OwnerTo(AfterTask)
    /\ UNCHANGED <<holder, next, running, listening, given, given_up, thread, command, usage>>

TaskDone ==
    /\ OwnerAt("wait")
    /\ task[given] # "pending"
    /\ OwnerTo(AfterTask)
    /\ UNCHANGED <<holder, next, running, listening, task, given, given_up, thread,
                   command, usage>>

\* handle.join(), and then the State is dropped.
Join ==
    /\ OwnerAt("join")
    /\ thread = "exited"
    /\ given_up' = TRUE
    /\ DropState(TRUE, {})
    /\ OwnerTo("gone")
    /\ UNCHANGED <<holder, running, listening, given, thread, command, usage>>

-----------------------------------------------------------------------------
(* The thread *)

\* The constructor succeeds, fails, or panics, and the owner is told.
Construct ==
    /\ thread = "ctor"
    /\ \/ ThreadTo("listen") /\ Answer(Start, "sent")
       \/ ThreadTo("leave") /\ Answer(Start, "canceled")
    /\ UNCHANGED <<holder, next, running, listening, given, given_up, owner, command, usage>>

\* suspend.listen()
Listen ==
    /\ thread = "listen"
    /\ listening' = TRUE
    /\ ThreadTo("try")
    /\ UNCHANGED <<holder, next, running, task, given, given_up, owner, command, usage>>

\* Broken variant: only an empty lock is left alone.
TryTakeHeld ==
    /\ thread = "try"
    /\ IF next # NoCommand
         THEN holder' = "thread" /\ ThreadTo("take")
         ELSE UNCHANGED holder /\ ThreadTo("wait")
    /\ UNCHANGED <<next, running, listening, task, given, given_up, owner, command, usage>>

\* try_take(): it fails for an empty lock, and for one that the owner holds.
TryTake ==
    /\ thread = "try"
    /\ IF holder = "nobody" /\ next # NoCommand
         THEN holder' = "thread" /\ ThreadTo("take")
         ELSE UNCHANGED holder /\ ThreadTo("wait")
    /\ UNCHANGED <<next, running, listening, task, given, given_up, owner, command, usage>>

\* Broken variant: the command is looked at and left where it is.
Peek ==
    /\ thread = "take"
    /\ command' = next
    /\ holder' = "nobody"
    /\ ThreadTo(IF next.kind = "Stop" THEN "leave" ELSE "run")
    /\ UNCHANGED <<next, running, listening, task, given, given_up, owner, usage>>

Take ==
    /\ thread = "take"
    /\ command' = next
    /\ next' = NoCommand
    /\ holder' = "nobody"
    /\ ThreadTo(IF next.kind = "Stop" THEN "leave" ELSE "run")
    /\ UNCHANGED <<running, listening, task, given, given_up, owner, usage>>

\* The closure runs and its result is sent.  After an Extract the thread ends,
\* by a break or by the panic for a receiver that is gone.
Run ==
    /\ thread = "run"
    /\ command' = NoCommand
    /\ Answer(command.id, "sent")
    /\ ThreadTo(IF command.kind = "Extract" THEN "leave" ELSE "unlisten")
    /\ UNCHANGED <<holder, next, running, listening, given, given_up, owner, usage>>

\* Broken variant: the sender outlives the closure.
RunPanicsSilently ==
    /\ thread = "run"
    /\ usage.panics
    /\ command' = NoCommand
    /\ ThreadTo("leave")
    /\ UNCHANGED <<holder, next, running, listening, task, given, given_up, owner, usage>>

\* The closure panics: its sender is dropped first.
RunPanics ==
    /\ thread = "run"
    /\ usage.panics
    /\ command' = NoCommand
    /\ Answer(command.id, "canceled")
    /\ ThreadTo("leave")
    /\ UNCHANGED <<holder, next, running, listening, given, given_up, owner, usage>>

\* listen.wait() returns once there is a notification.
Wait ==
    /\ thread = "wait"
    /\ ~listening
    /\ ThreadTo("unlisten")
    /\ UNCHANGED <<holder, next, running, listening, task, given, given_up, owner,
                   command, usage>>

\* Drop for Listener, at the end of the turn.
Unlisten ==
    /\ thread = "unlisten"
    /\ listening' = FALSE
    /\ ThreadTo("listen")
    /\ UNCHANGED <<holder, next, running, task, given, given_up, owner, command, usage>>

\* The thread ends: the Listener and the resource are dropped, then the
\* Sentinel clears running, then the State is dropped.
Leave ==
    /\ thread = "leave"
    /\ listening' = FALSE
    /\ command' = NoCommand
    /\ ThreadTo("sentinel")
    /\ UNCHANGED <<holder, next, running, task, given, given_up, owner, usage>>

SentinelDrop ==
    /\ thread = "sentinel"
    /\ running' = FALSE
    /\ DropState(given_up, {})
    /\ ThreadTo("exited")
    /\ UNCHANGED <<holder, listening, given, given_up, owner, command, usage>>

-----------------------------------------------------------------------------
Kind == {"Run", "Extract", "Stop"}

OwnerStep ==
    \/ Created \/ SpinLock \/ Store \/ Unlock \/ Notify \/ Return
    \/ WaitTask \/ DropTask \/ TaskDone \/ Join
    \/ \E kind \in Kind : Give(kind)

ThreadStep ==
    \/ Construct \/ Listen \/ TryTake \/ Take \/ Run \/ RunPanics
    \/ Wait \/ Unlisten \/ Leave \/ SentinelDrop

Next == OwnerStep \/ ThreadStep

Spec == Init /\ [][Next]_vars

\* Both threads run, and the owner, which may at any time keep the resource
\* idle, does what it has begun.
FairSpec ==
    /\ Spec
    /\ WF_vars(OwnerStep /\ ~OwnerAt("idle"))
    /\ WF_vars(ThreadStep)

-----------------------------------------------------------------------------
(* Properties *)

\* run_command() refuses a command only when a closure has panicked or an
\* earlier Task was not waited for (thread.rs:149-160): who waits for its
\* Task finds the lock empty and the thread running at its next command.
NeverRefused == ~owner.accepted => usage.drops \/ usage.panics

\* A command in the lock is taken, even if the thread tried to take it while
\* the owner held the lock (thread.rs:155-162).  And a Task that is waited for
\* ends, with the result or with Canceled, whether its command was accepted or
\* refused (thread.rs:116-126, 145-164).  After a panic neither need be: a
\* command can be accepted before running is cleared.
TaskEnds ==
    /\ (next # NoCommand /\ ~usage.panics) ~> next = NoCommand
    /\ (OwnerAt("wait") /\ (usage.panics => next = NoCommand)) ~> ~OwnerAt("wait")

\* Dropping the resource ends: the thread gets the Stop, or has ended
\* (thread.rs:173-180).  With a Task that was not waited for it may not: Stop
\* finds the lock full, and is dropped.
DropEnds == (OwnerAt("join") /\ ~usage.drops) ~> OwnerAt("gone")
=============================================================================
