SPECIFICATION Spec
CONSTANTS
    c1 = c1
    c2 = c2
    c3 = c3
    a = a
    b = b
    d = d
    Clients = {c1, c2, c3}
    Nodes = {a, b, d}
    Rooms = {r1, r2}
    Identities <- Ids
    NoClient = NoClient
    NoNode = NoNode
CHECK_DEADLOCK FALSE
INVARIANTS RegistryConsistent RelayStaysInRoom PeersViewCurrent
PROPERTIES EntryChangesHands
