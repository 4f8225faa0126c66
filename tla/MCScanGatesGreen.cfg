CONSTANTS
    Worlds <- Seats
    PolicySets <- Alternatives
    Opens = 1
    Closes = 1
    LateAfter = 1
    Gap = 1
    Partial = 2
    MaxNow = 2
    MaxChanges = 1

SPECIFICATION Spec
CHECK_DEADLOCK FALSE

INVARIANT GreenIsRecorded
