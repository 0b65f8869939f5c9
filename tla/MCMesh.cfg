SPECIFICATION FairSpec
CONSTANTS
    lo = lo
    hi = hi
    u1 = u1
    u2 = u2
    Lo = lo
    Hi = hi
    Urls = {u1, u2}
    Known <- AllKnown
    Keyed = {lo, hi}
    MaxConns = 6
    MaxFaults = 1
CHECK_DEADLOCK FALSE
INVARIANTS TimerIsOfOffer
PROPERTIES ChannelOutlivesServer ChannelSpec 
