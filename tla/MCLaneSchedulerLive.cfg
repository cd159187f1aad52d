SPECIFICATION FairSpec
CONSTANTS
    c1 = c1
    c2 = c2
    c3 = c3
    None = None
    Callers = {c1, c2, c3}
    Cancellable = {c2}
    Calls <- LivenessCalls
    Cap <- MCCap
    BaseQuantum = 1
    ControlBurstLimit = 2
PROPERTIES
    EverySendReturns
    PumpEnds
CHECK_DEADLOCK FALSE
