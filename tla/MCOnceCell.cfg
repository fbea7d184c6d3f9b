\* Two threads that need the null waker for the first time at once.
\* A thread that has the waker is done.
CHECK_DEADLOCK FALSE
SPECIFICATION OnceSpec
CONSTANTS
    Thread = {t1, t2}
    Value = {v1, v2}
    NoValue = NoValue
    Programs <- Setting
INVARIANT
    SetIsSet
