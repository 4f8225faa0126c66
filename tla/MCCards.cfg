CONSTANTS
    Card = {1, 2, 3}
    Student = {s1, s2}
    Worker = {w1, w2}
    None = None
    MaxRequests = 3
CHECK_DEADLOCK FALSE
SPECIFICATION FairSpec
INVARIANTS
    TypeOK
    HistoryMatchesHolders
    NeverRecycled
    ReplacementKeepsStudent
    NothingStranded
    ScansNameHolders
PROPERTIES
    ImplementsHolding
    EveryRequestEnds
