SPECIFICATION Spec
CONSTANTS
    h1 = h1
    h2 = h2
    v = v
    Handlers = {h1, h2}
    Ids = {v}
    Previews <- MCPreviews
    MaxOps = 3
    MaxGen = 1
    MaxChunks = 1
SYMMETRY HandlerSymmetry
INVARIANTS
    OneActive
    SeekContinues
    NoSilentEnd
PROPERTIES
    StaleNeverFollows
CHECK_DEADLOCK FALSE
