\* One listening thread and three that notify: a reused Suspend without
\* deadlines, a Suspend for one Listener that waits with deadlines, or a
\* ListenOnce with its NotifyOnce.
\* A listener that is gone leaves notifiers that need not notify any more.
CHECK_DEADLOCK FALSE
SPECIFICATION SharedFairSpec
CONSTANTS
    Listener = {l1}
    Notifier = {n1, n2, n3}
    NoWaker = NoWaker
    Usage = {"reused", "timed", "once"}
INVARIANTS
    NoPanic
    FreedLast
PROPERTIES
    CompletionSeen
    ImplementsPromise
