CONSTANTS
    Charge = {c1}
    Worker = {w1, w2}
    Amount = {1, 2}
    Fee = {1, 2}
    Operation = {"PAYMENT", "REFUND", "UPDATE", "WAIVE", "CANCEL", "RECALCULATE"}
    AuditFix = {TRUE, FALSE}
    AllowOverpayment = TRUE
    MaxRequests = 3
    Free = Free
CHECK_DEADLOCK FALSE
SPECIFICATION FairSpec
INVARIANT CheckedRowIsCurrent
PROPERTIES
    ClosedChargeTakesNoMoney
    EveryRequestEnds
    DriftHeals
