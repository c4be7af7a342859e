\* Two keys a generation; losses, crashes, refusals and requests at any point.
CONSTANTS
    Batch = 2
    Threshold = 1
    MaxGen = 3
    MaxLosses = 2
SPECIFICATION FairSpec
INVARIANTS UniqueIds ServerKeysUsable SentWasStored
PROPERTIES UploadsKeys BecomesActive
CHECK_DEADLOCK FALSE
