\* Repeats, reorderings and a crash at any step of either side, with records of
\* one archived state and one chain; or room for all, and no crash.
CONSTANTS
    MaxMsg = 4
    MaxInit = 2
    MaxCrash = 1
    OneTime = 1
    MaxChains = 1
    MaxArchived = 1
    MaxSkip = 1
    DirectSends = FALSE
SPECIFICATION MCSpec
INVARIANTS WithinLimits KeysUsedOnce
PROPERTIES AtMostOnce RoomyArrives
CHECK_DEADLOCK FALSE
