\* What the first group message brings a member.
CONSTANTS
    Receiver = {r1}
    MaxMsg = 2
    MaxLost = 0
    QueueSize = 4
SPECIFICATION Spec
PROPERTY FirstMessageOpens
CHECK_DEADLOCK FALSE
