SPECIFICATION ShareSpec
CONSTANTS
    c1 = c1
    c2 = c2
    c3 = c3
    None = None
    Callers = {c1, c2, c3}
    Cancellable = {c1, c3}
    Calls <- SafetyCalls
    Cap <- MCCap
    BaseQuantum = 1
    ControlBurstLimit = 1
INVARIANTS
    BytesExact
    NoLostWakeup
    NoNeedlessWait
    Placed
    HonestVerdict
    BulkShare
PROPERTIES
    NoOvertaking
CHECK_DEADLOCK FALSE
