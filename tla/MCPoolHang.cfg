\* Two clients, one resource that is not kept, no timeouts.
CHECK_DEADLOCK FALSE
SPECIFICATION FairSpec
CONSTANTS
    Two = {c1, c2}
    Client = {c1, c2}
    Worker = {}
    Drainer = {}
    Lock = {l1, l2, l3}
    Ticket = {k1, k2}
    Manager = manager
    NoLock = NoLock
    NoTicket = NoTicket
    Configs <- NotKept
    UsizeMax = 7
PROPERTY
    Served
