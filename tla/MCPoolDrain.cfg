\* One client and a drain, one resource that is not kept, no timeouts.  Who has
\* dropped its handle stops.
CHECK_DEADLOCK FALSE
SPECIFICATION FairSpec
CONSTANTS
    Two = {c1, c2}
    Client = {c1, c2}
    Worker = {}
    Drainer = {d1}
    Lock = {l1, l2, l3}
    Ticket = {k1, k2}
    Manager = manager
    NoLock = NoLock
    NoTicket = NoTicket
    Configs <- NotKeptDrained
    UsizeMax = 7
PROPERTY
    DrainEndsAlone
