\* One resource; an idle timeout, verified or not, with futures that fail or are
\* abandoned, or with a drain; or no idle timeout and a third client.
\* Clients that have acquired their acquire_bound stop, and a drained pool leaves
\* its waiters waiting.
CHECK_DEADLOCK FALSE
SPECIFICATION Spec
CONSTANTS
    Two = {c1, c2}
    Client = {c1, c2, c3}
    Worker = {w1}
    Drainer = {d1}
    Lock = {l1, l2, l3}
    Ticket = {k1, k2}
    Manager = manager
    NoLock = NoLock
    NoTicket = NoTicket
    Configs <- AllKinds
    UsizeMax = 7
SYMMETRY Symmetric
INVARIANTS
    TypeOK
    OneHolder
    NothingLost
    DrainReaches
    SleepsOnlyWhenIdle
    WaitersListed
    CountAllocated
    OvershootByOne
PROPERTIES
    KeepsPromise
