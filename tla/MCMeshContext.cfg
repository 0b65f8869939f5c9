SPECIFICATION FairSpec
CONSTANTS
    MaxRuns = 3
    MaxFailures = 1
    Group <- SameThenOther
    Urls = {u1, u2}
    Default = u1
    Me = me
CHECK_DEADLOCK FALSE
INVARIANTS ActiveMatchesPage
PROPERTIES  PageGetsMesh LeftIsUnlisted
