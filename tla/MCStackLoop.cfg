\* Two accounts that lose their connections, are dropped by other threads, are
\* refused or rebooted, fail to connect, and one that may quit.
CONSTANTS
    Stack = {a, b}
    Quitters = {b}
    MaxLosses = 1
    MaxDrops = 2
    MaxFailures = 1
SPECIFICATION FairSpec
INVARIANTS TypeOK OneThreadPerStack QueuedOnce NoOrphan
PROPERTIES Reconnects
CHECK_DEADLOCK FALSE
