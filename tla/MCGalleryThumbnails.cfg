CONSTANTS
    Items <- MCItems
    Requests <- MCRequests
    Batch <- MCBatch
    Workers = 2
SPECIFICATION Spec
INVARIANT OneStream ReportsAll
PROPERTY BatchReleased
CHECK_DEADLOCK FALSE
