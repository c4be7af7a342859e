\* One account quits; does the other one still reconnect?
CONSTANTS
    Stack = {a, b}
    Quitters = {a}
    MaxLosses = 2
    MaxDrops = 0
    MaxFailures = 0
SPECIFICATION FairSpec
PROPERTY QuitHarmsNobody
CHECK_DEADLOCK FALSE
