SPECIFICATION QuotaSpec
CONSTANTS
    s1 = s1
    s2 = s2
    s3 = s3
    Sessions = {s1, s2, s3}
    Limit = 2
    MaxBytes = 2
    MaxPeriods = 2
    MaxCalls = 4
    DBFails = TRUE
SYMMETRY Symmetry
INVARIANTS
    SoftQuota
    Balanced
CHECK_DEADLOCK FALSE
