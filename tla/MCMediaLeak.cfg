SPECIFICATION FairSpec
CONSTANTS
    h1 = h1
    h2 = h2
    v = v
    Handlers = {h1}
    Ids = {v}
    Previews <- MCPreviews
    MaxOps = 2
    MaxGen = 1
    MaxChunks = 1
PROPERTIES
    ProducersEnd
CHECK_DEADLOCK FALSE
