# A TLA+ development of async-resource-rs

The repository is three Rust crates that build on one another:

- `option-lock`: a one-byte lock around an `Option<T>`, and a once cell;
- `suspend`: a state byte and a waker slot on which one thread waits and others
  notify, one-shot channels, thread suspension, streams;
- `async-resource`: a resource pool. Consumers acquire, release and dispose of
  resources; a manager thread serves waiters and timers and drains the pool.

All three are hand-written concurrent code: atomics with explicit orderings,
raw reads of cells whose content the state byte vouches for, and queues between
threads that are woken by a flag. Tests reach a few schedules of them. The
modules here model each atomic operation and each access to shared data as one
step, and TLC takes the steps of all threads in every order.

## Inventory

| Component | Source | State | Operations | Module |
|---|---|---|---|---|
| OptionLock | `option-lock/src/lock.rs` | byte of `SOME`, `FREE`; cell | `try_lock`, `try_lock_none`, `try_take`, `spin_*`, guard `replace`, `take`, drop | `OptionLock`, `LockedOption` |
| OnceCell | `option-lock/src/once.rs`, `suspend/src/waker/null.rs` | an OptionLock read without locking; the one that has the null waker | `get`, `set`, `NullWaker::get` | `OnceCell` |
| Suspend | `suspend/src/core.rs`, `notify.rs`, `util.rs` | byte IDLE/WAIT/LISTEN; slot for one waker | `listen`, `poll`, `wait`, `wait_deadline`, drop, `notify` | `Suspend`, `Notification` |
| notify_once | `suspend/src/notify.rs` | a SuspendState that waits from the start | `NotifyOnce::notify`, `ListenOnce` polls and drop | `Suspend` (usage "once"), `SharedSuspend` |
| wakers | `suspend/src/core.rs`, `waker/` | a reference count shared by a Suspend's owner, Notifiers and wakers | clone, wake by value or by reference, drop | `SharedSuspend`; the null waker in `OnceCell` |
| thread suspension | `suspend/src/thread.rs` | a stack of suspensions; the thread's ThreadWake with sequence number and count, and those of inner suspensions; the park token | `thread_suspend_deadline`, clone, wake and drop of wakers | `ThreadSuspend` |
| channel | `suspend/src/channel.rs`, `util.rs` | byte of four flags; value; waker | send, tracked send, receive (blocking, with deadline, polled, try), cancel and drop of both ends | `Channel`, `Delivery` |
| async stream | `suspend/src/async_stream.rs`, `iter.rs`, `helpers.rs` | an item slot between a future and its stream | `send`, `poll_next`, drop, `block_on` | `AsyncStream`, `Delivery` |
| pool, consumers' side | `async-resource/src/pool/{pool,acquire,operation}.rs`, `shared/mod.rs`, `resource/` | resource locks, idle queue, `count`, `waiter_count` | acquire, create, verify, release, dispose, discard | `Pool`, `Lending` |
| pool, manager | `async-resource/src/pool/{pool,wait}.rs` | list of locks, timers, waiters, event and register queues, drain state | one turn of `manage` after another; `drain`, drop of a `Pool` or `PoolDrain` | `Pool` |
| pool configuration | `pool/config.rs`, `pool/error.rs` | options | building | record `PoolConfig` of `Pool` |
| Sentinel | `util/sentinel.rs` | two references and a count | clone, drop | in `Pool`, the handles; in `ThreadResource`, the one it has |
| ThreadResource | `util/thread.rs` | an OptionLock for one command, a Suspend, a flag, a Task per command | `try_create`, `enter`, `extract`, drop, the thread's loop | `ThreadResource` |
| executors | `executor/` | none of their own | spawn | their tasks are Workers of `Pool` |

How they interact. A pool's resource lives in a `ResourceLock`; who holds the
guard holds the resource, and a guard travels from a client to a future, to the
executor, to the manager, or through a channel to a waiter. Consumers tell the
manager things through three queues and wake it by `Suspend::notify`. The
manager answers waiters through a `send_once` channel. A `ThreadResource` is an
`OptionLock` and a `Suspend` between two threads. A Suspend's listener blocks by
`thread_suspend_deadline`, as do the readers of streams and channels.

What is hard. One byte is changed by `swap`, `fetch_and` and compare-and-swap of
methods that each test other bits. The Suspend's waker slot is a plain cell that
listener and notifiers fill and empty in turn, guarded by the byte alone. In the
pool, every number a decision goes by (`count`, `waiter_count`, the idle queue's
length) may be stale by the time it is acted on; the idle queue holds entries
for locks that have since been taken, emptied or moved; a timer may fire for a
resource that was used again; a waiter may give up while it is served; a future
may be dropped halfway and be finished elsewhere. `PROJECT.json` lists each of
these at its line under `hazards`, with the property that would catch it.

What makes each component correct:

- OptionLock: one guard at a time, ordered after the guard before (no data
  race), no value lost or duplicated, no spinning side starved by a wrong byte.
- Suspend: byte and slot never disagree, no notification is lost, a wait ends
  only on a notification.
- Handles of a Suspend: counted exactly, freed by the last, with nothing left in
  the slot.
- Thread suspension: a closure is polled again for each waker of its own
  suspension and for no other's, however the suspensions nest; every ThreadWake
  serves one suspension, and is freed by the last that refers to it.
- ThreadResource: every command is taken, every Task ends, and so does the drop.
- AsyncStream: items arrive once and in order, the last one before the end; a
  reader that waits is woken; a future that awaits its sends cannot panic.
- Pool: one holder per resource, none forgotten, the manager knows all of them;
  `count` and `waiter_count` say what they count; at most the permitted number of
  resources; no sleep while there is work; every acquisition ends.
- Channel: messages arrive once and in order or go back to a sender whose
  receiver is gone; whoever waits is woken; byte and slots agree; the last end
  frees the box, once, and nothing is left in it.

## Modules

### OptionLock

`LockedOption` is the promise: an optional value with at most one holder, who may
replace or take it and leaves it unlocked. `OptionLock` is the code. `program` is one of
`Programs`, constant, so that a run covers several: thread t calls any method of
`Op[t]`; `Calls` begins the spinning methods, `TryLock`,
`TryLockNone`, `TryTake` are their single read-modify-writes, `SpinWatch` the
relaxed load they spin on, `GuardReplace` and `GuardTake` the guard's raw reads
and writes of the cell, `GuardDrop` the store that frees the byte. The state byte
is kept as the integer the code has, 0 to 3.

Memory orderings are tracked as happens-before: `sees[t]` says that t is ordered
after the latest access to the cell, `published` that a reader of the byte that
acquires will be. `Tso` is the target's: one where a read-modify-write that is
only a release orders its thread all the same (as on x86-64), or one where only
the orderings named in the source count.

`OptionLock` implements `LockedOption` under a refinement mapping that takes the
byte's FREE bit for the lock and the place of the guard for the holder.

`OnceCell` extends it with a program: `NullWaker::get`, the one user of a OnceCell
in the repository. `Get` is the unlocked load, `SetLocks` to `SetUnlocks` are
`try_lock_none`, `replace` and the guard's drop of `OptionLock`, `SetFails` is the
lock refused.

### Suspend

`Notification` is the promise: a wait returns only after a notification that came
since listening began. `Suspend` has the loop of `wait_on` (listen, poll the
future, register the waker, park, drop the Listener) as `ListenerStep`, one step
per atomic operation or use of the slot, and `notify` as `NotifySwap` and
`NotifyWake`. `Unload` and `Store` are `Maybe::load`, `clear` and `store` with
their debug assertions: the thread that fails one goes to a place named for the
assertion. Parking is a token per thread, `woken`, that is reset when a thread
begins to wait, since each `thread_suspend_deadline` makes new wakers.
`Usage` restricts what the program does to one Suspend: reuse Listener after
Listener without deadlines, wait with deadlines on a single one, or both; or it
is a pair of `notify_once`, whose listener begins in WAIT, is polled with another
waker as often as its task likes (`WaitAgain`), and leaves the byte and the slot
as they are when it is dropped (`OnceDrop`).

`SharedSuspend` extends it with the handles: the owner's, and for each notifying
thread a Notifier, a clone of the waker, or a NotifyOnce. A thread needs a handle
to notify (`CompleteBy`, `NotifyBy`); some calls spend it. `Give` and `Copy` count
a handle, `DropHandle` and `DropOwner` take it off, and `Free` is the end, with the
`clear_waiting` of `Drop for SuspendState` (`Vacate`). Its steps are those of
`Suspend` or leave `Suspend` alone; `SharedImplements` proves it.

### ThreadSuspend

`frames` is the stack of the calls of `thread_suspend_deadline`, each with its
`ThreadWakeRef`; only the innermost runs. `Enter` is `wake_ref`, `PollReady` and
`PollPending` what the closure answers, `Expired` a deadline found passed,
`Restart`, `Park` and `ParkReturns` the rest of the loop, `Leave` the drop of the
ThreadWakeRef at every return. While the closure runs (`Running`) it may use the
waker of any frame in scope (`WakeOwn`), clone it (`CloneOwn`: acquire the thread's
ThreadWake, create one, or count one more), or suspend again. The clones are
other threads': `CloneClone`, `WakeClone` (the compare-and-swap of `unpark`),
`Unpark` (the call of `Thread::unpark` after it), `DropClone`. `count` is the
reference count, `token` the thread's park token, `exited` the end of the thread,
which drops its handle. `rung` is a history variable: the wakers of a frame that
were used and not yet answered by a poll.

### ThreadResource

Two threads over parts that are taken for what they promise: the OptionLock is
`holder` and `next` (`LockedOption`), the Suspend `listening` (`Notification`), a
`message_task` an entry of `task`. The owner's `run_command` is `SpinLock`, `Store`,
`Unlock`, `Notify`, `Return`; the thread's loop `Listen`, `TryTake`, `Take`, then `Run`,
or `Wait`, and `Unlisten`. `Leave` and `SentinelDrop` end the thread, by a Stop or an
Extract or by a panic of a closure. `DropState` is the end of the `Arc<State>`: the
last of the two drops a command that is still in the lock, and cancels its Task.

### AsyncStream

One thread polls; `state` is the AsyncStreamState, `channel` the slot, `future` where
the stream's future is in its code. `PollFuture` to `Recv` are `poll_next`, the send
futures are `Send` and `PollSend`, or `SendHeld` and `AwaitHeld` when they are kept,
or `SendDropped`. What else the future awaits is an event, which may happen at any
time and uses the waker it was polled with (`Event`, `Resume`). `AsyncStream`
implements `Delivery`, as `Channel` does.

### Channel

`Delivery` is the promise: a message is with its sender, in the channel or with
the receiver; there is one in the channel at a time, it goes back only when the
receiver is gone, and the receiver hears of the end only when nothing is left.
`Channel` has the two ends as two threads and the byte as a set of its bits.
What an end does with the slots while it has LOCKED is one step, `SendStore`,
`RecvNext` and so on, that ends with the operation that unlocks, since the other
end touches no slot meanwhile; the `fetch_or` that locks is a step before it
(`Lock`). The three operations that do not wait for LOCKED (`SendDrop`:
`cancel_send`, `RecvDrop`: `cancel_recv`, `TrackDrop`: `cancel_send_poll`) and the
unlocked load of `try_recv` (`RecvLook`) may come in between, and what they do
after they have given up the byte (`Wake`, `RecvLoad`, `RecvForget`, `Free`) is a
step of its own. Waking a waker that was loaded is another (`Unpark`).

A program may use a channel in ways that break it; `usage` is what the program at
hand does: which kind of pair, which ways to send and to receive. It is chosen at
the start and constant, so one run covers all the uses of a set. `Disciplined` says
which uses are safe: 342 of the 16384 there are. TLC finds a property violated for
some use that fails any one of its conditions, whichever it is, and meets the
others; these uses are listed below. `SoundUsage` leaves out of the 342 the 18 in
which a ReceiveOnce asks again after it was Ready and a TrackSend does not tell it
that it has gone: they are safe, but the receiver waits for ever.

### Pool

`Lending` is the promise of the pool about its resources: a resource is in a slot, a
slot has one holder or none, and only the holder, while it does not use the resource,
fills the slot (`Fill`), empties it (`Clear`), leaves it (`PutBack`) or hands it on
(`Give`); what nobody holds can be taken (`Take`), or moved to another slot by who takes
it (`Carry`, the `detach` of a Verify timer). A client has the use of a resource from
`Lend` to `Reclaim`, and nothing else happens to it meanwhile. `Pool` implements it with
the locks for slots, threads and letters for holders, and a client with a `Managed`
for a user.

`Pool` is the code, one thread per place of `pc`. Clients run `Acquire`: `Acquire` and
`AcquireAgain` test `is_busy`, `PopIdle` and `LockIdle` are
`Shared::try_acquire_idle`, `Peek` the test of `verify_at`, `CreateFromCount` and
`UpdateCount` the count's load and compare-exchange, `Create` the new lock,
`TryWait`, `RegisterWaiter`, `NotifyManager` and `Answered` the wait; then
`managed`, `DropManaged` or `Discard`, and `Shared::release` with its loads,
callback, unlock, queueing and notification as steps of their own (`Release` to
`ReleaseTell`), or `Shared::dispose` (`Dispose` to `UnlockNone`). Releasing is
written once and run by clients, by Workers and by the manager; `back[t]` is
where the thread goes on. Dropping an unfinished `Acquire` is `AbandonFuture`,
which hands the future and its guard to a Worker, or `AbandonWaiter`.

The configuration is a variable, one of `Configs`, so that one run covers several
pools; `PoolConfig` is what its options come to, and which clients there are.

A handle of the pool is a Sentinel: `DropHandle` reads how many there are, `ShutDown`
and `ShutDownNotify` are the `start_drain(true)` of the last, and `Uncount` takes the
handle off only then. A `PoolDrain` has the handle of the `Pool` it was made of;
a resource needs none.

The manager's turn is: due timers (`VerifyTimer`, `WaiterTimer`, `DrainTimer`),
`Listen`, `TakeEvents`, `TakeRegisters`, the waiters (`CheckWaiters` to
`CountServed`), `CheckState` (drain or clean up), `Park`.

What is abstracted:

- Time. A timer may fire as soon as the manager has it, if `config.elapses` has its
  kind; timers of one lock fire in order. `current` of a Verify entry says that
  the resource's `verify_at` is still the one it was set for.
- The Suspend is the flag `notified`, as `Notification` specifies it. The defect
  that run `suspend_deadline` shows is therefore not in `Pool`.
- The queues are sequences, and the manager empties each in one step: its loop
  ends with a pop that finds nothing, and what it does before is on its own
  variables.
- Locks and tickets (the pair of a waiter's channel) are recycled when nothing
  refers to them, which is what an `Arc`'s memory does.
- `dispose_count` is the flag `disposed`: the manager compares it with the value
  it read last.
- The channel of a waiter is `letter`: pending, taken, or the lock sent.
- User code (create, verify and release callbacks, executor, channel) ends with
  any of the outcomes of `on_create`, `on_verify`, `on_release` of the configuration.

## Runs

| Run | Asks | Result |
|---|---|---|
| `option_lock` | three threads, three values: every method of every thread in every order, on a target that fences; and the loop of `benches/contention.rs`, one producer and two consumers, on one that does not: typing, one guard, no value lost or twice, no data race, implements `LockedOption`, every value of the loop is delivered | holds |
| `suspend` | a thread in `wait_on` or with a ListenOnce, three others with handles: no assertion fails, no event is missed, handles are counted and the last one frees, implements `Notification` | holds |
| `suspend_deadline` | the same, reused after a deadline | violated |
| `channel` | the 324 sound uses of a channel, both kinds, up to three messages: no assertion fails, the box is freed once by the last end and nothing leaks, implements `Delivery`, waiting receivers get what was sent, tracked sends are confirmed | holds |
| `thread_suspend` | two nested suspensions, two wakers at a time, sequence numbers that wrap: references counted, a ThreadWake for each frame, polled again for its own wakers and for each | holds |
| `thread_resource` | four commands and every way to give up a resource, with dropped Tasks and panics: no needless refusal, commands are taken, Tasks and the drop end | holds |
| `async_stream` | four items, two events, every use of the sender, errors: implements `Delivery`, the sound uses never panic nor block the reader | holds |
| `null_waker` | two threads that get the null waker for the first time: what was set is there | violated |
| `pool` | idle timeouts with a verify callback, with futures that fail or are abandoned, and with callbacks that refuse; idle timeouts with waiters, or with a drain that may time out; handles and a PoolDrain that are dropped; three clients that race to create; waiters that time out or are abandoned, without an idle timeout: one holder per lock, none forgotten, the manager lists every resource and sleeps only when idle, waiters listed and counted, implements `Lending`, and, where no Verify timer elapses and nothing drains, `count` right and at most one too many | holds |
| `pool_served` | an idle timeout that does not elapse: every acquisition ends; and, when the pool is drained meanwhile, the drain ends well, unless its PoolDrain is dropped | holds |
| `pool_hang` | `pool_served` for a pool that keeps nothing idle | violated |
| `pool_drain` | a drain of such a pool by its last handle, when all is released | violated |

The four violations are findings, each with the lines that disagree:

- `notify` takes the waker after the swap that lets the Listener go. If its
  deadline passes in between and the Suspend is listened on again, the slot is
  filled twice.
- A waiter that registers while the last resource is disposed of is never
  served: the manager sees there is room, but only consumers create.
- `dispose` wakes the manager before it opens the lock. A drain that looks in
  between keeps the lock in its list, and is not woken when it opens: it times out
  although nothing is unreleased.
- `NullWaker::get` unwraps the cell after a `set` that fails while another thread
  fills it.

### Bounds

Two threads suffice for each two-party race on a byte, and three are used where
a third can interfere between the steps of two (locking, contention, notifiers,
racing creators). Two values tell a swap from a loss. Run `pool` has eight kinds of
pool, each with what its hazards need and little else, so that TLC finishes:
`Verified` and `VerifiedBriefly` have verify timers that elapse, the callbacks, and
futures that fail or are abandoned, but nobody can wait; `Timed` has waiters
beside stale timers; `Drained` a drain beside them, `Closed` the dropped
handles; `Racing` the third client; `Waiting` and `GivingUp` waiters that time out,
a release callback that refuses, and acquisitions that are abandoned.
`acquire_bound` bounds how often clients acquire in all: three lets one client release, another take the idle
resource, and a timer of the first release fire on it; four for liveness lets
each of two clients come back once after it has waited; two are enough for a drain
to meet an acquisition at each of its steps, and what the one before left. With `MaxCount = 1`,
clients contend for one resource, the bound is met at once, and a client that
exceeds it, waits or reuses does so in a short run; `Lock` is one or two larger
than what can be alive, for moved locks. `UsizeMax = 7` stands for the largest
`usize`: no run counts up to it except by wrapping below zero. `MaxWaiters` is 0 for the
verified pool, where waiters are not of interest, and at least the number of
clients that can wait elsewhere. The third client is there where there is no idle
timeout; TLC finds as many states with a fourth lock. Two clients, the locks and the
tickets are interchangeable, hence the symmetry, which is not used for liveness.

`SendBound = 3` lets a `channel()` carry a message, a second one that meets
whatever the first left in the byte and the slots, and a last one by `into_send`.

`Depth = 2` has an outer and an inner suspension, which is what makes a frame
create a ThreadWake of its own; the inner one can end and begin again while the
outer one's wakers are about. Two places for clones let one waker outlive its
frame while another serves the next. `UsizeLimit` is the least at which
the sequence numbers wrap within a run and stay distinct, as 2^64 does for the
wakers alive at one time; `Enter` excludes that a number comes round while a frame
or waker still has it. `CommandBound = 4` in `thread_resource` is three commands and
the one that ends the resource, so that a dropped Task, a refused command and one
after it meet. `ItemBound = 4` and `EventBound = 2` let a stream's future send, wait,
send twice and end with an error.

`CHECK_DEADLOCK FALSE` is set where clients stop at their bound, where listeners
leave a Suspend or ends a channel for good, where a thread has exited or has its waker, an owner is
done or a stream dropped, or where the drained pool has stopped.

### Fairness

Weak fairness of each thread's own steps: the operating system runs every thread
again, and none of the loops holds another thread up except by waiting for it.
What a thread need not do is not in the fair part: to call another method,
notify, begin to acquire, discard, abandon, drain, drop a handle, or time out. For the channel there is strong fairness of the
spin lock too: an end whose `fetch_or` competes with an end that is polled again
and again gets the byte some time, which weak fairness does not give, since the
byte is locked in between. Nothing is assumed of a program's next call. `Served` also assumes
that a polled future ends, and that who has a resource drops it. `Delivered`
asks in addition that a thread which locks again and again to fill the cell does
fill it, and drops its guard: what the loops of the benchmark do, where one
thread's guard may still be refused to another any number of times.

In `ThreadSuspend` nothing is said of the closures, which need not return, nor of
`ParkReturns`: a park that ends without a cause is possible and not relied upon.
In `ThreadResource` both threads run; the owner, when it is idle, need not give
another command. In `AsyncStream` the reader need not ask for another item, and the
events a future waits for happen.

## Proofs

TLAPS checks, for every value of the constants allowed by the named assumptions:

- `TypeCorrect`, `Exclusion` (`OptionLockProofs`): the byte's type and mutual
  exclusion of guards, for any number of threads, any values and methods.
  `GuardExclusive` is inductive together with `TypeOK` because it has both
  halves: at most one thread is inside a guard, and FREE is clear exactly then.
  `AcquiredExclusive` is the step that hands out a guard, `SameGuards` every step
  that does not.
- `RaceFreedom`: whoever has a guard is ordered after the latest access, if the
  target fences or nobody calls `try_lock` or `spin_lock` (`Acquiring`). The
  strengthening `Ordered` adds that the byte's last writer publishes the latest
  access whenever the lock is free: without it the step that acquires could not
  conclude anything. The assumption is needed: where the target does not fence,
  TLC finds the race as soon as a thread locks by `spin_lock`.
- `NoPanics`, `TypeCorrect` (`SuspendProofs`): with one listener and any number of
  notifiers, reused, with deadlines on one Listener, or once, but not reused with
  deadlines (`Disciplined`), no assertion on the slot fails. `IInv` is `TypeOK`,
  `NoPanic` and `Agreement`, which says for each place of the listener what the
  slot holds and who may still empty it: with LISTEN, or with one notifier past
  its swap (`Waking`, at most one), the slot is full; in all other places it is
  as the listener left it. `Agreement` was checked by TLC first.
- `Implements`: under the same conditions `Suspend` implements `Notification`. Every
  step maps to a step or a stutter of the promise; in `ListenerKeeps` and
  `NotifierKeeps`, `IInv` tells what the byte can hold at each place.
- `SharedImplements`, `CountedFreed` (`SuspendProofs`): a Suspend with its
  handles is a Suspend, so that the theorems above hold of it; the count is the
  number of handles, for any number of threads, nobody uses what was freed, and
  nothing is left in it. `SharedInv` is `IInv`, the types and `FreedLast`. That the
  last handle may free rests on `IInv`: who is in the middle of a notification
  has a handle, and the slot is what the listener left.
- `TypeCorrect`, `CountedExactly`, `ServesOne` (`ThreadSuspendProofs`): for any depth of
  suspensions, any number of clones and any size of the numbers. `Inv` is `TypeOK`,
  `CountsReferences`, `FramesOK` (a frame counts for the ThreadWake it created, and
  no two frames have one number) and `HoldersOK` (one frame to a ThreadWake, whose
  number is there unless it was woken). The count is what makes the drop of a
  ThreadWake safe, and the holder's number what makes it fit to be acquired;
  neither is inductive alone.
- `PolledForOwnWake`: the action property `OnlyOwnWake`, from `Inv` and `RungOK`: a
  frame that finds itself woken was woken, by its own waker or by a clone of it.

Of the pool, for any clients, workers, drainers, locks, waiters and configurations
(`NamesAssumption`: the names of threads, locks and tickets are distinct;
`PoolAssumption`: a maximum of resources is less than the largest `usize`, and one of
waiters is a `usize`, where no maximum is one that the waiters do not reach), TLAPS
checks:

- `TypeCorrect`, `Exclusion`, `Retention` (`PoolProofs`). A thread's place tells
  what it has in its hand and where it returns to (`Placed`); `TypeOK` is inductive
  with it. `Exclusive` is `OneHolder` with the holder named: a lock that reads HELD
  has its guard with exactly one thread or in exactly one letter, any other lock
  with none. It needs `Posted`, that a letter with a resource still has its
  receiver, since only that one takes the guard out, and a ticket that is handed
  out again must have none. `Stowed` is `NothingLost` and one thing more: what
  `check_reuse` looks at a second time is still there. A stale entry of the idle
  queue may be anywhere and does no harm: `LockIdle` looks at what its swap found.
  `Handed` says which guards have a resource: one that is looked at, verified, used or
  sent has, one that creates or is being disposed of has not. `Sound` is all of these,
  and `Soundness` the theorem.
- `Implements` (`PoolProofs`): `KeepsPromise`, from `Sound`. Most steps neither write a
  lock nor move a guard, and are stutters (`Unseen`). The others are sorted by what
  they do to one lock (`TakesGuard`, `DropsGuard`, `HandsOver`, `Carries`, `FillsLock`,
  `ClearsLock`, `LendsOut`, `Reclaims`), each of them with its step of the promise, and
  `PromiseStep` says which step of the pool is which. `OneHolder` makes the holder of
  the promise the only one; `Handed` is what a client that is lent a resource, and a
  letter with one, rest on.
- `Reaching` (`PoolAccountProofs`): `DrainReaches`. `Listed` adds that a lock whose
  resource is being created is already in the manager's list, or among the events
  it has still to read.
- `Waking`: `SleepsOnlyWhenIdle`. `Awake` says for every place of the manager what
  it has nothing left to do about, unless it was notified since it listened or
  somebody is about to notify it: after `events`, no timer to set; after
  `registers`, no registration; after the waiters, no waiter with a resource for
  it. Each step that leaves the manager something to do makes its thread one that
  is about to notify; each that listens comes before all the looking.
- `Counting`, `Overshoot`: `CountAllocated` and `OvershootByOne`. `Counted` says that
  `count` is the number of `Allocated`: the resources, and the clients and workers
  between the compare-exchange and the end of the create future; with futures that
  fail, and a maximum, it is no less than that. What a client last saw of the
  count before its compare-exchange is not beyond the maximum, hence the one too
  many and no more. That a step takes exactly one out needs `Handed` and `Filled`: a
  guard that is about to be released or disposed of has a resource; this is where a late Verify timer and the second turn of a
  drain break the count, and `Untimed` and `Undrained` say that a pool without them
  stays without them. `MemoryAssumption`, that there are fewer resources and
  futures than addresses, keeps the count of a pool without a maximum from
  wrapping; `Queueing` takes from it that the clients are finitely many.
- `Queueing`: `WaitersListed`. `Enrolled` says that a counted waiter is in exactly one
  place: in the manager's list, among the registrations it has still to read, or with
  a client that has still to register (`Distinct`, `Known`), and that `waiter_count` is
  their number, with one more while the manager is between sending to a waiter and
  discounting it (`Tallied`). The step that reads the registrations
  (`pool.rs:205-228`) moves any number of them at once, so the count there is a
  matter of injections between index sets (`PickEach`, `OneForOne`, `QueuedCount`)
  and not of one element in or out. It also passes over `waiter.is_canceled()` with
  an empty branch (`pool.rs:216`), which would leave a waiter counted that is in no
  list: `Unanswered`, that nothing is sent to a waiter and no timer set for it before
  its registration is read, is why that branch is never taken. A waiter that times out
  later stays in the list, and is discounted when it is skipped (`Cancelled`). The
  bound on the maximum of waiters keeps the compare-exchange of the count from
  wrapping.

Of the lock, under the condition of `RaceFreedom`:

- `Conservation` (`OptionLockProofs`): `ValuesConserved`, every value with one thread,
  in the cell or dropped once.
- `Implements`: `OptionLock` implements `LockedOption`, every step a step of it or a
  stutter.

Of a OnceCell, for any number of threads that get the null waker (`OptionLockProofs`,
without a condition on the programs):

- `SetOnce`: the action property `NeverReassigned`: a value that is in the cell stays
  there, and `get` never finds the cell empty again. `get` keeps no lock and its
  reference outlives the call, "because the value is never reassigned" (`once.rs:20`).
  `SetAtMostOnce` ties the byte to the cell: zero exactly while one `set` has the
  guard, FREE only while nothing is written, AVAILABLE only when something is and is
  published; and it says at each place of that guard what it has done (`SetterAt`).
- `OrderedReads`: who has a reference from `get` finds a value behind it and, where
  the target fences, comes after its write although `get` is a relaxed load.

No run has these two as properties; the run of `OnceCell` is the one that shows
`SetIsSet` violated. TLC checked the invariant and `NeverReassigned` on its instance and
on one with three threads, all methods and both targets (3798 states).

Of a ThreadResource, for any number of commands and any of the usages, and with any
number of items of a stream:

- `TypeCorrect`, `Accepting` (`ThreadResourceProofs`): the types, among them who holds
  the lock where, and `NeverRefused`. `Served` follows a command from the owner to
  where it is (`Underway`): in the lock, with the thread, or done and the thread
  waiting (`Quiet`); so the lock is empty and the thread running when an owner that
  waited for its last Task gives the next. Closures that panic and Tasks that are
  dropped break it, which is why `Served` and `NeverRefused` exclude them.
- `NoPanics`, `Keeping` (`AsyncStreamProofs`): `NoPanic`, and that `AsyncStream` implements
  `Delivery`. `Sent` says that the items are sent one after the other and the slot
  has the one that is under way; `Made`, that a stream that has ended has dropped
  its future; `Awaited`, that a future that awaits each send goes on with an empty
  slot. The refinement needs no discipline of the future, only `NoPanic` does.

Of the channel, for any number of messages and every use that is `Disciplined`
(`ChannelProofs`; the types need no discipline):

- `TypeCorrect`, `NoPanics`, `LastFrees`, `NothingLeft`: `TypeOK`, `NoPanic`,
  `FreedLast` and `NoLeak`. `IInv` says in which phase a channel is: `Both` ends
  use it and the byte, but for LOCKED, is INIT, WAKE_RECV or WAKE_SEND; the sender
  has `Posted` its last message or `Ended` with none, or is `Leaving` and has still
  to wake the receiver; the receiver is gone and the sender is `Refused`, or has a
  message or waker `LeftBehind` to take; or the box is `Over`, freed or about to be
  by the last. Each phase says what the byte and the slots hold and where both ends
  may be, the one that has the lock and the one that has not. `Woken` is what makes
  it inductive: a receiver that is registered, and a TrackSend that waits, is woken
  only when the byte has gone on; one that looked too early, with `try_recv` or
  `poll_send`, could meet a byte that the code calls invalid. It is also why most
  of the discipline is about who may look unasked.
- `Keeping`: `Channel` implements `Delivery`. `Located` adds that a message is in
  the channel exactly when it is in the slot, and is then the last one sent. Each
  step that moves a message is the promise's `Send`, `Receive` or `TakeBack`; the
  phase tells that the other end is gone where a message goes back or the receiver
  hears of the end.

TLC checked every strengthening on the runs' instances before it was proved.

Model-checked only: everything temporal (`Delivered`, `CompletionSeen`, `Heard`,
`Confirmed`, `Served`, `DrainEnds`, `TaskEnds`, `DropEnds`, `Yields`), since liveness under
fairness and ENABLED are out of the prover's reach. Every safety invariant and action
property of a passing run has its theorem. The one property that `OnceCell`'s run
checks does not hold.

## Not modelled, and known divergences without a run

Not modelled: panics of a pool's callbacks; a second drain, by the Pool that a failed
one returns; a second thread that calls `try_listen` while another Listener is live
(with two listeners TLC finds `NoPanic` and `CompletionSeen` violated);
`Wakeable` for other types than SuspendState, and `IntoWaker`; the executors,
which are thin wrappers; the memory orderings of everything but `OptionLock`.

`try_lock` is a `fetch_and` that only releases (`lock.rs:134`), and hands out what
`lock.rs:131-132` calls an exclusive read and write lock: where the target does not
fence, `NoDataRace` is violated by a thread that uses `spin_lock`, `replace` and
`take`. `OnceCell::get` is a relaxed load (`once.rs:19`, `lock.rs:50`): where the
target does not fence, a thread may read the value without being ordered after
the write. The compare-and-swap of `unpark` is relaxed where it fails
(`thread.rs:154-162`); what a waker that came late wrote is then not ordered
before the poll.

`Pool::count` (`pool.rs:479-483`) is not the number of resources once a Verify timer
is late: it disposes of what another timer or client has disposed of
(`pool.rs:168`, `lock.rs:54-61`), and the count goes below zero and wraps. One client
and an idle timeout suffice. So does a drain whose second turn meets a lock that the
first has emptied and a client's stale entry keeps (`pool.rs:268-274`): one client and
a drain that times out leave a pool that believes it is full for ever. `CountedOnce`
names both.

`try_create` tests the count with `>` after a lost compare-exchange, with `>=`
before (`pool.rs:419`): two clients that race create one more than the
`max_count` that `config.rs:111` calls the maximum. `OvershootByOne` checks, for
three racing clients, that it is never more than one.

A `ThreadResource` whose owner drops a Task unwaited may find the lock still full
when it gives the next command; if that is the Stop of its drop, the drop waits
for ever. A command that is accepted after a closure has panicked and before
`running` is cleared is never taken, and its Task never ends. `DropEnds` and `TaskEnds`
name these exceptions.

A send future of an AsyncStream that is kept and polled after another, or dropped
before it is polled, panics the next send or leaves the reader waiting
(`async_stream.rs:11-15`, `async_stream.rs:66-72`): `NoPanic` and `Yields` name
these uses.

Uses of a channel that are not `Disciplined`, each with the property that TLC
finds violated when the use is added:

- A receiver that is dropped while a `TrackSend` is polled (`{track, drop}` by
  `{wait, drop}`): `poll_send` stores the byte it found over the DONE of
  `cancel_recv`, and nobody frees the box (`NoLeak`).
- A polled receiver that is dropped while registered (`{send}` by `{poll, quit}`):
  `cancel_recv` gives up the byte before it empties the waker slot, and the
  sender may free the box in between (`FreedLast`).
- A `ReceiveOnce` that is polled when its sender is dropped: `poll_recv` may leave
  WAKE_RECV in the byte, and the drop empties the empty slot (`NoPanic`).
- A deadline and a sender that is dropped, or drops its TrackSend:
  `cancel_recv_poll` stores the initial state over the sender's DONE, and the next
  wait never ends (`Heard`).
- `try_recv` while the sender has the lock: its load meets LOCKED, which it calls
  invalid (`NoPanic`). So does a blocked receiver that is woken, when a TrackSend
  is dropped (`{track, abandon}` by `{wait}`).
- A receiver of a `channel()` that is dropped with a message of a TrackSend in it, a
  `ReceiveOnce` that is dropped when its TrackSend is, or one that waits when its
  TrackSend is dropped unpolled (`NoPanic`).
- A `Sender` that is dropped, or sends again, when its `TrackSend` was dropped
  with the message unreceived: states that the code calls invalid (`NoPanic`).
- A blocked receiver, when a `TrackSend` is polled without being woken:
  `try_recv` meets LOCKED, which it calls invalid (`NoPanic`).
- `track_send` of a `SendOnce` never frees the box if it finishes after its
  message was received; `NoLeak` names this exception.

The swap that publishes a message of a channel is an Acquire (`channel.rs:253`).

`Pool` reaches these, but no property of a run is about them yet: a create or
verify future that fails never takes its resource off `count`
(`operation.rs:134-139`); a resource that is verified by timer leaves the manager's
list for good, so a drain ends while it lives (`pool.rs:155-160`; hence
`DrainReaches` is checked without a verify callback); a
timer set in this turn is not in this turn's deadline (`pool.rs:187`); waiters
that register after a drain wait for ever.

A pool is not shut down by dropping its handles. The last one sets the state to
SHUTDOWN (`pool.rs:463-467`, `pool.rs:345-370`), but the manager only compares it with
DRAIN (`pool.rs:268`): it disposes of nothing and its thread runs on. When the handle
is a `PoolDrain`, SHUTDOWN takes the place of DRAIN, and the drain that
`pool.rs:485-486` describes is forgotten; `DrainEnds` therefore speaks of a PoolDrain
that is kept. Two handles dropped at once may each count the other
(`sentinel.rs:64`), and then not even SHUTDOWN is set.

## Plan

Done: the three crates' concurrent parts, each against its promise or its
properties, and proofs of their safety. Left, in the order of what it would tell:

1. The memory orderings of the channel and of the Suspend, as `OptionLock` has them.
2. A callback of a pool that panics, and a second drain by the Pool that a failed one
   returns.
