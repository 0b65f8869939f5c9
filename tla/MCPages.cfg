SPECIFICATION FairSpec
CONSTANTS
    ann = ann
    bob = bob
    root = root
    d1 = d1
    d2 = d2
    c1 = c1
    None = None
    Nodes = {ann, bob}
    Owner = ann
    Me = bob
    Docs = {root, d1, d2, d3}
    d3 = d3
    Root = root
    CustomRoles = {c1}
    Folders = {root, d3}
    InitialRoles <- Held
    InitialDocs = {d1}
    AclEdits <- Edits
    RoleEdits = {"admin", c1}
    Defaults = {"admin"}
    Slots = {1, 2}
    MaxGestures = 3
    MaxFailures = 1
INVARIANTS OfferedIsAccepted
PROPERTIES CreatedIsListed ControlsComeBack
CHECK_DEADLOCK FALSE
