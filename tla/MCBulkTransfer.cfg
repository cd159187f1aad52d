SPECIFICATION FairSpec
CONSTANTS
    h1 = h1
    h2 = h2
    Handlers = {h1, h2}
    MaxDownloads = 1
    MaxOps = 3
    MaxParts = 2
    MaxChunks = 1
INVARIANTS
    OneBulk
    DownloadsExact
    OvershootBounded
PROPERTIES
    SlotFreed
CHECK_DEADLOCK FALSE
