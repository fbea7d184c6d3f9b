\* Every use of a channel that keeps its promise, three messages.
\* Ends that are gone stop.
CHECK_DEADLOCK FALSE
SPECIFICATION FairSpec
CONSTANTS
    SendBound = 3
    Usage <- SoundUsage
INVARIANTS
    TypeOK
    NoPanic
    FreedLast
    NoLeak
PROPERTIES
    KeepsPromise
    Heard
    Confirmed
