CONSTANTS
    Scan = {a, b}
    Drain = {d1}
    Conditions <- OutagesOnly
    MaxOutages = 2
    Nothing = Nothing
CHECK_DEADLOCK FALSE
SPECIFICATION Spec
INVARIANT NoScanOverwritten
