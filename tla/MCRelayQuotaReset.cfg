SPECIFICATION FairQuotaSpec
CONSTANTS
    s1 = s1
    s2 = s2
    s3 = s3
    Sessions = {s1, s2}
    Limit = 2
    MaxBytes = 2
    MaxPeriods = 2
    MaxCalls = 4
    DBFails = FALSE
PROPERTIES
    QuotaResets
CHECK_DEADLOCK FALSE
