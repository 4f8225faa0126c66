CONSTANTS
    a1 = a1
    a2 = a2
    Worker = {a1, a2}
    Thread = {a1}
    Tenant = {"t1", "t2"}
    Metered = {"t1"}
    Console = "console"
    Minutes = 1
    MaxClock = 1
    MaxEntries = 2
    Process = {"p1"}
    ProcessOf <- OneProcess
    Limits <- LimitSets
    Minute = 2
    Hour = 4
    Span = 1
    History = 2
    MaxSeconds = 2
    MaxHits = 2
    MaxCrashes = 1
    Pupil = {"s1", "s2", "s3"}
    StudyGroup = {"g1", "g2"}
    OfferingOf <- OneOffering
    Capacity <- OneSeat
    SeatBudgets <- SeatBounds
    Person = {"u1", "u2"}
    MaxUserRequests = 3
    Attempts = 2
    MaxCode = 4
    MaxRecordRequests = 5
    SubjectOffering = {"o1", "o2"}
    Member = {"s1"}
    Fee = {0, 1}
    Week = 2
    Horizon = 3
    MaxClassRequests = 3
    PolicyKey = {"k1", "k2"}
    PolicyValue = {"v1", "v2"}
    Reader = {"r1"}
    MaxUpdates = 2
    Worlds <- CenterWorlds
    PolicySets <- CenterPolicies
    Opens = 1
    Closes = 1
    LateAfter = 1
    Gap = 1
    Partial = 2
    MaxTime = 2
    MaxChanges = 1
    MaxDepth = 3
    MaxRows = 2
    Lesson = {"l1", "l2"}
    Attendee = {"s1", "s2"}
    GroupOf <- LessonGroups
    SubjectOf <- OneSubject
    DayOf <- TwoDays
    HomeOf <- HomeGroups
    Bill = {"c1", "c2"}
    ChargeOf <- TwoCharges
    Cashier = {"k1", "k2"}
    Method = {"CASH"}
    Due = {1, 2}
    Today = 2
    Recent = 0
    ReportBudgets <- ReportBounds
    NoFilter = NoFilter
    None = None
    Unlimited = Unlimited
    Off = Off

SPECIFICATION MCSpec
SYMMETRY Workers
CHECK_DEADLOCK FALSE

INVARIANTS
    PlacesHold
    NumbersHold
    SeatsHold
    ServedHold
    ScansHold

PROPERTIES
    DecisionsStand
