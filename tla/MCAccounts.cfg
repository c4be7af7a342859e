\* Two threads and every call, two of them at once or after each other.
CONSTANTS
    Account = {a1}
    Thread = {t1, t2}
    First = t1
    Envs = 1
    Ops = {"add", "remove", "rotate", "load", "removeAll", "disconnectAll", "disconnect"}
    MaxCalls = 2
SPECIFICATION MCSpec
INVARIANTS NoOrphan
PROPERTIES FailureCleans CallsEnd
CHECK_DEADLOCK FALSE
