\* Three commands and the one that ends it, by an owner that may drop its
\* Tasks and closures that may panic.  An owner that is done stops.
CHECK_DEADLOCK FALSE
SPECIFICATION FairSpec
CONSTANTS
    CommandBound = 4
    Usage <- Usages
INVARIANTS
    TypeOK
    NeverRefused
PROPERTIES
    TaskEnds
    DropEnds
