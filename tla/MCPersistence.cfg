SPECIFICATION FairSpec
CONSTANTS
    e1 = e1
    e2 = e2
    x1 = x1
    x2 = x2
    k1 = k1
    k2 = k2
    Editors = {e1, e2}
    Writers = {e1, e2}
    Edits = {x1, x2}
    Calls = {k1}
    Faults = {"get", "put", "cache", "restart"}
INVARIANTS PendingSaveIsWhole
PROPERTIES PendingSaveIsPosted CacheSettles
