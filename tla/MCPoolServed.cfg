\* A pool that keeps its resources: an idle timeout that does not elapse.
\* Two clients for one resource, which is drained or not; or one that drops its
\* handle, as the drainer may.  Those that have acquired often enough stop.
CHECK_DEADLOCK FALSE
SPECIFICATION FairSpec
CONSTANTS
    Two = {c1, c2}
    Client = {c1, c2}
    Worker = {}
    Drainer = {d1}
    Lock = {l1, l2}
    Ticket = {k1, k2}
    Manager = manager
    NoLock = NoLock
    NoTicket = NoTicket
    Configs <- Kept
    UsizeMax = 7
PROPERTIES
    Served
    DrainEnds
