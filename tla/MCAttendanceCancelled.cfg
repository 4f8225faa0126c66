CONSTANTS
    s1 = s1
    s2 = s2
    k1 = k1
    k2 = k2
    k3 = k3
    w1 = w1
    w2 = w2
    redis = redis
    locmem1 = locmem1
    locmem2 = locmem2
    Student = {s1}
    Roster = {}
    Key = {k1}
    ScanStudent <- CardOf
    ScanIntent <- AskAuto
    Worker = {w1, w2}
    Cache = {redis}
    CacheOf <- OneCache
    Operation = {"SCAN", "OPEN", "CANCEL_LESSON"}
    LateAfter = 0
    MinGap = 1
    PartialMinutes = 1
    AutoCheckout = TRUE
    Materialize = TRUE
    AdjustTime = {}
    AdjustStatus = {}
    MaxTime = 0
    MaxRequests = 4
CHECK_DEADLOCK FALSE
SPECIFICATION Spec
INVARIANT CancelledAdmitsNoScan
