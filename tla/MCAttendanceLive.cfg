CONSTANTS
    s1 = s1
    s2 = s2
    k1 = k1
    k2 = k2
    k3 = k3
    w1 = w1
    w2 = w2
    redis = redis
    locmem1 = locmem1
    locmem2 = locmem2
    Student = {s1}
    Roster = {s1}
    Key = {k1}
    ScanStudent <- CardOf
    ScanIntent <- AskAuto
    Worker = {w1, w2}
    Cache = {locmem1, locmem2}
    CacheOf <- OwnCaches
    Operation = {"SCAN", "MANUAL", "ADJUST", "CHECKOUT", "CANCEL", "OPEN", "COMPLETE", "CANCEL_LESSON"}
    LateAfter = 0
    MinGap = 1
    PartialMinutes = 1
    AutoCheckout = TRUE
    Materialize = TRUE
    AdjustTime = {0, 1}
    AdjustStatus = {"PRESENT"}
    MaxTime = 1
    MaxRequests = 4
CHECK_DEADLOCK FALSE
SPECIFICATION FairSpec
PROPERTIES
    EveryRequestEnds
    CachesCatchUp
