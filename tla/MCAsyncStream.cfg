\* Four items and two events, by every use of the sender.  A reader that has
\* dropped the stream stops; so does one that a kept send future leaves waiting.
CHECK_DEADLOCK FALSE
SPECIFICATION FairSpec
CONSTANTS
    ItemBound = 4
    EventBound = 2
    NoItem = NoItem
    Usage <- AnyUsage
INVARIANTS
    NoPanic
PROPERTIES
    KeepsPromise
    Yields
