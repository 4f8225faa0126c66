CONSTANTS
    Charge = {c1}
    Worker = {w1, w2}
    Amount = {1, 2}
    Fee = {2}
    Operation = {"PAYMENT", "UPDATE"}
    AuditFix = {TRUE}
    AllowOverpayment = FALSE
    MaxRequests = 3
    Free = Free
CHECK_DEADLOCK FALSE
SPECIFICATION Spec
INVARIANTS
    LedgerBalanced
