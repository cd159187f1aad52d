SPECIFICATION Spec
CONSTANTS
    r1 = r1
    r2 = r2
    f1 = f1
    f2 = f2
    k1 = k1
    Callers <- MCCallers
    CanCancel <- MCCallers
    Fresh <- MCFresh
    Links <- MCLinks
    MaxCalls = 3
    MaxSyncs = 1
    MaxCrashes = 1
SYMMETRY MCSymmetry
INVARIANTS
    SlotHasOwner
    StoreFaithful
    KeptResolves
