CONSTANTS
    Objects = {s1, s2}
    Tasks = {t1, t2}
    Closers = {k1}
    Conns = {c}
    Sids = {r}
    MaxNonces = 2
    MaxRequests = 2
    MaxDownloads = 1
SPECIFICATION Spec
SYMMETRY Symmetry
INVARIANT LimitHolds
CHECK_DEADLOCK FALSE
