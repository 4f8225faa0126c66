CONSTANTS
    Resource = {"students", "users"}
    Atomic = {"students"}
    Worker = {w1, w2}
    Cap = {1, 2}
    MaxBatch = 2
    MaxRequests = 4
    Nobody = Nobody
    Unlimited = Unlimited
    t1 = t1
    p1 = p1
    p2 = p2
    Tenant = {t1}
    Plan = {p1, p2}
    Operator = {o1, o2}
    Reader = {r1}
    GraceDays = 1
    TrialDays = 1
    RetentionDays = 1
    SoonDays = 1
    Feature = {"students", "qr", "manual", "finger", "camera"}
    Core = {"students"}
    Method = {"qr", "manual", "finger"}
    Built = {"qr", "manual"}
    Default = {"students", "qr", "manual"}
    DependsOn <- CameraNeedsQr
    GrantLists <- TwoLists
    Window = {"rps", "rph"}
    PerSecond = "rps"
    MaxDay = 4
    MaxCalls = 2
    MaxCrashes = 1
    MaxToggles = 2
    MaxLimits = 3
    Missing = Missing
    Never = Never

SPECIFICATION MCSpec
CHECK_DEADLOCK FALSE

INVARIANTS
    ClientsHold
    AnswersHold
    UsageHolds
    HostsHold
    ScreensForesee

PROPERTIES
    DecisionsAreKept
    DecisionsBite
