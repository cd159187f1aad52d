SPECIFICATION Spec
CONSTANTS
    h1 = h1
    h2 = h2
    Handlers = {h1, h2}
    MaxDownloads = 1
    MaxOps = 3
    MaxParts = 2
    MaxChunks = 1
INVARIANTS
    NoSilentEnd
CHECK_DEADLOCK FALSE
