CONSTANTS
    Objects = {s1, s2}
    Tasks = {t1, t2}
    Closers = {k1}
    Conns = {c}
    Sids = {r}
    MaxNonces = 2
    MaxRequests = 1
    MaxDownloads = 1
SPECIFICATION Spec
SYMMETRY Symmetry
INVARIANT NonceOnce NoOrphan LimitHeldInTurn
PROPERTY EntryStays ImplementsContract
CHECK_DEADLOCK FALSE
