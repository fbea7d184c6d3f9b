\* Listener after Listener, with deadlines: how the pool's manager thread
\* waits (pool.rs:193, 286-291).
\* A Suspend that is gone stops.
CHECK_DEADLOCK FALSE
SPECIFICATION SharedSpec
CONSTANTS
    Listener = {l1}
    Notifier = {n1, n2}
    NoWaker = NoWaker
    Usage = {"reused, timed"}
INVARIANT
    NoPanic
