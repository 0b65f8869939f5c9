SPECIFICATION LanFairSpec
CONSTANTS
    Here = "we"
    Others = {"h1", "h2"}
    BootId <- BootIds
    AccountId <- AccountIds
    Probed = {"h1"}
    MaxRestarts = 2
CHECK_DEADLOCK FALSE
INVARIANTS MdnsEntriesHaveService
PROPERTIES ManualStays NeighbourIsListed
