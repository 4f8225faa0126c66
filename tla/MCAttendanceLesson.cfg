CONSTANTS
    s1 = s1
    s2 = s2
    k1 = k1
    k2 = k2
    k3 = k3
    w1 = w1
    w2 = w2
    redis = redis
    locmem1 = locmem1
    locmem2 = locmem2
    Student = {s1, s2}
    Roster = {s1, s2}
    Key = {k1, k2, k3}
    ScanStudent <- CardOf
    ScanIntent <- AskCheckOut
    Worker = {w1, w2}
    Cache = {redis}
    CacheOf <- OneCache
    Operation = {"SCAN", "CRASH", "MANUAL", "CANCEL", "OPEN", "COMPLETE"}
    LateAfter = 0
    MinGap = 1
    PartialMinutes = 2
    AutoCheckout = TRUE
    Materialize = TRUE
    AdjustTime = {}
    AdjustStatus = {}
    MaxTime = 2
    MaxRequests = 5
CHECK_DEADLOCK FALSE
SPECIFICATION Spec
SYMMETRY Symmetry
INVARIANTS
    RowsHold
    GapRespected
    EveryoneAccountedFor
    RetryAppliesOnce
PROPERTIES
    FollowsLifecycle
