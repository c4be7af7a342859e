\* Calls of two kinds at once, to a contact, a new number and a wrong one; and each
\* message, request and server's stanza, their parts varied three structures deep.
CONSTANTS
    new = new
    moved = moved
    Number = {friend, new, moved, wrong}
    Dialled = {friend, new, wrong}
    Contacts = {friend}
    Valid = {friend, new, moved}
    Jid <- JidOf
    Kinds = {"text", "reaction", "media"}
    Limit = 2
    MaxCalls = 2
    MaxLosses = 1
    Depth = 3
SPECIFICATION MCSpec
INVARIANTS LimitHolds RepeatsOnlyNew Survives LocksReturned HandledOnce
PROPERTY StatusForward
CHECK_DEADLOCK FALSE
