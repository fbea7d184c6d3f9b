\* Two nested suspensions, two wakers, and sequence numbers that wrap.
\* A thread that has exited stops.
CHECK_DEADLOCK FALSE
SPECIFICATION FairSpec
CONSTANTS
    Clone = {k1, k2}
    Depth = 2
    UsizeLimit = 5
INVARIANTS
    TypeOK
    CountsReferences
    OneFrameEach
PROPERTIES
    OnlyOwnWake
    Heard
