SPECIFICATION Spec
CONSTANTS
    Users = {"ann", "ben"}
    Tabs = {t1, t2}
    DisplayNames = {"n"}
    Legacy = TRUE
    MaxCalls = 3
    MaxSessions = 2
SYMMETRY Symmetry
CHECK_DEADLOCK FALSE
INVARIANTS NodesAreOwn KeyIsOfSession
PROPERTIES LogoutStands
