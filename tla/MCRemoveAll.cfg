\* One thread adds the accounts it has and removes them all.
CONSTANTS
    Account = {a1}
    Thread = {t1}
    Envs = 1
    Ops = {"add", "removeAll"}
    MaxCalls = 2
SPECIFICATION FairSpec
PROPERTIES RemoveAllEnds
CHECK_DEADLOCK FALSE
