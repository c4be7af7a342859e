\* Three calm connections, or two that drop at any time, with two frames each.
CONSTANTS
    MaxConn = 3
    MaxData = 2
    UnsettledDrops = TRUE
    PingDrops = TRUE
    UpperRaises = TRUE
SPECIFICATION MCSpec
INVARIANTS TypeOK FlushExclusive CalmNoStrandedFrame CalmLockReturned
PROPERTIES InOrder ServesConnection Delivers
CHECK_DEADLOCK FALSE
