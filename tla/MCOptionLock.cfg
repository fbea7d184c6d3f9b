\* All methods from all threads on a target whose read-modify-writes fence; and
\* the program of benches/contention.rs on one that does no more than it must.
\* A thread may spin for a value that nobody will put in: its clients stop.
CHECK_DEADLOCK FALSE
SPECIFICATION FairSpec
CONSTANTS
    t1 = t1
    t2 = t2
    t3 = t3
    Thread = {t1, t2, t3}
    Value = {v1, v2, v3}
    NoValue = NoValue
    Programs <- Both
INVARIANTS
    TypeOK
    GuardExclusive
    ValuesConserved
    NoDataRace
PROPERTIES
    ImplementsPromise
    Delivered
