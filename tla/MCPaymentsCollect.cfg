CONSTANTS
    Charge = {c1, c2}
    Worker = {w1, w2, w3}
    Amount = {1, 2}
    Fee = {2, 3}
    Operation = {"PAYMENT", "REFUND", "WAIVE", "CANCEL"}
    AuditFix = {TRUE}
    AllowOverpayment = FALSE
    MaxRequests = 4
    Free = Free
CHECK_DEADLOCK FALSE
SPECIFICATION Spec
SYMMETRY Symmetry
INVARIANTS
    TypeOK
    ReceiptsGapless
    LedgerBalanced
    StatusDerived
    NeverOverpaid
PROPERTIES
    CollectionImplementsAccounts
