\* Two devices, with good, broken and missing sessions, and a queue that holds everything;
\* and a message to a group.
CONSTANTS
    Receiver = {r1}
    MaxMsg = 1
    MaxLost = 0
    QueueSize = 5
    Device = {d1, d2}
    MaxSent = 1
    MaxBad = 2
    MaxErrors = 1
    Room = 99
    MaxRetries = 2
SPECIFICATION MCSpec
INVARIANTS RetryServed
PROPERTY Settles
CHECK_DEADLOCK FALSE
