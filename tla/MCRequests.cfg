\* Two calls of every kind; and a ping thread that ends connections, and the peer
\* one, at any step of it.
CONSTANTS
    Commands = {"getavatar", "leave", "promote", "getemail", "sendmedia", "ownname", "approve"}
    MaxCalls = 2
    MaxLosses = 1
    MaxRaises = 1
    MaxConn = 2
    MaxPing = 5
    MaxEnds = 1
    Limit = 3
SPECIFICATION MCSpec
INVARIANTS ResultNotLost
PROPERTIES CallsEnd DropsSilent SilenceEnds
CHECK_DEADLOCK FALSE
