CONSTANTS
    Scan = {a, b, c}
    Drain = {d1, d2}
    Conditions <- EveryDay
    MaxOutages = 2
    Nothing = Nothing
CHECK_DEADLOCK FALSE
SPECIFICATION FairSpec
INVARIANT QueueHolds
PROPERTY QueueIsDelivered
