SPECIFICATION FairSpec
CONSTANTS
    i1 = i1
    i2 = i2
    b1 = b1
    b2 = b2
    a1 = a1
    a2 = a2
    None = None
    Sids = {i1}
    Browsers = {b1, b2}
    Agents = {a1}
    SidOf <- MCSidOf
    MaxFrames = 3
INVARIANTS
    PairedOnce
    BilledOnce
PROPERTIES
    ImplementsTunnel
    SessionsRemoved
    AllEnd
CHECK_DEADLOCK FALSE
