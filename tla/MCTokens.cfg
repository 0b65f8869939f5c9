SPECIFICATION TokenFairSpec
CONSTANTS
    MaxRestarts = 2
    MaxGovernance = 2
    MaxTime = 2
    Ttl = 1
    Timeout = 1
    MaxSends = 2
CHECK_DEADLOCK FALSE
INVARIANTS PublishedKeySigns 
PROPERTIES HandshakeEnds
