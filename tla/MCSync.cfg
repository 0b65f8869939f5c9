SPECIFICATION FairSpec
CONSTANTS
    a = a
    b = b
    root = root
    d = d
    x1 = x1
    x2 = x2
    NoDoc = NoDoc
    Nodes = {a, b}
    Docs = {root, d}
    Root = root
    Start <- WriterAtDoc
    Edits = {x1}
    Role <- Roles
    MaxKeyVersion = 2
    MaxSelects = 1
    MaxDrops = 1
    MaxHandlers = 2
    PendingMax = 1
INVARIANTS MergedIsLegitimate
 
