\* Both threads send at once, a stanza gets lost, and the queue overflows.
CONSTANTS
    Receiver = {r1}
    MaxMsg = 4
    MaxLost = 1
    QueueSize = 5
SPECIFICATION FairSpec
INVARIANTS TypeOK GotOnce
PROPERTIES KeysUsedOnce Reaches
CHECK_DEADLOCK FALSE
