--------------------------- MODULE SignalingRooms ---------------------------
(***************************************************************************)
(* The signaling server's room registry (apps/signaling/src/rooms.ts).     *)
(* One client is one WebSocket connection; a browser that reconnects is a  *)
(* new client with the same node id.  The server is single-threaded, so a  *)
(* message or close event is one action.                                   *)
(***************************************************************************)
CONSTANTS
    Clients,      \* connections
    Nodes,        \* node ids clients announce
    Rooms,
    Identities,   \* [Clients -> SUBSET Nodes]: the ids a connection joins as
    NoClient, NoNode

ASSUME NoClientAssumption == NoClient \notin Clients
ASSUME NoNodeAssumption == NoNode \notin Nodes
ASSUME IdentityAssumption == Identities \in [Clients -> SUBSET Nodes]

VARIABLES
    conn,      \* "new", "open", "closing" (readyState left OPEN, the close
               \* event has not run) or "closed"
    nodeId,    \* Client.nodeId, NoNode for ""
    rooms,     \* Client.rooms
    members,   \* members[r][n]: the client registered for n in r, or NoClient;
               \* a room without members is not in the server's map
    view,      \* view[c][r]: the last peer list the server sent c for r, {}
               \* unless c is registered in r on an open socket
    relayed    \* deliveries made by the last step, if it relayed a signal

vars == <<conn, nodeId, rooms, members, view, relayed>>

(* Ids of connections that also join as another.                           *)
Changeable(n) == \E c \in Clients : n \in Identities[c] /\ Identities[c] # {n}

Present(m, r) == {n \in Nodes : m[r][n] # NoClient}

Init ==
    /\ conn = [c \in Clients |-> "new"]
    /\ nodeId = [c \in Clients |-> NoNode]
    /\ rooms = [c \in Clients |-> {}]
    /\ members = [r \in Rooms |-> [n \in Nodes |-> NoClient]]
    /\ view = [c \in Clients |-> [r \in Rooms |-> {}]]
    /\ relayed = {}

(* Mutant: the entry of the node goes, whoever it belongs to.              *)
WithoutOwnerCheck(c, R) ==
    [r \in Rooms |-> [n \in Nodes |->
        IF r \in R /\ n = nodeId[c] THEN NoClient ELSE members[r][n]]]

(* The registry after leaveRoom(c, r) for every r of R: an entry goes only *)
(* if it is still this connection's.                                       *)
Without(c, R) ==
    [r \in Rooms |-> [n \in Nodes |->
        IF r \in R /\ n = nodeId[c] /\ members[r][n] = c
          THEN NoClient ELSE members[r][n]]]

(* broadcastPeers for every room of R: the members with an open socket are *)
(* told who is there.                                                      *)
Broadcast(m, R) ==
    view' = [c \in Clients |-> [r \in Rooms |->
        IF conn[c] = "open" /\ \E n \in Nodes : m[r][n] = c
          THEN IF r \in R THEN Present(m, r) ELSE view[c][r]
          ELSE {}]]

Listening(c) == conn[c] \in {"open", "closing"}

Connect(c) ==
    /\ conn[c] = "new"
    /\ conn' = [conn EXCEPT ![c] = "open"]
    /\ relayed' = {}
    /\ UNCHANGED <<nodeId, rooms, members, view>>

(* Mutant: a join under another id leaves the old entries behind.          *)
JoinKeepsOldRooms(c, r, n) ==
    LET joined == [members EXCEPT ![r][n] = c]
    IN  /\ Listening(c)
        /\ nodeId' = [nodeId EXCEPT ![c] = n]
        /\ rooms' = [rooms EXCEPT ![c] = @ \cup {r}]
        /\ members' = joined
        /\ Broadcast(joined, {r})
        /\ relayed' = {}
        /\ UNCHANGED conn

(* A join under another id first leaves every room, without telling those  *)
(* who stay.                                                               *)
Join(c, r, n) ==
    LET renamed == nodeId[c] \notin {NoNode, n}
        base == IF renamed THEN Without(c, rooms[c]) ELSE members
        joined == [base EXCEPT ![r][n] = c]
    IN  /\ Listening(c)
        /\ nodeId' = [nodeId EXCEPT ![c] = n]
        /\ rooms' = [rooms EXCEPT ![c] = IF renamed THEN {r} ELSE @ \cup {r}]
        /\ members' = joined
        /\ Broadcast(joined, {r})
        /\ relayed' = {}
        /\ UNCHANGED conn

Leave(c, r) ==
    LET left == Without(c, {r})
    IN  /\ Listening(c)
        /\ rooms' = [rooms EXCEPT ![c] = @ \ {r}]
        /\ members' = left
        /\ Broadcast(left, {r})
        /\ relayed' = {}
        /\ UNCHANGED <<conn, nodeId>>

(* The socket dies; its close event is still queued.                       *)
Drop(c) ==
    /\ conn[c] = "open"
    /\ conn' = [conn EXCEPT ![c] = "closing"]
    /\ view' = [view EXCEPT ![c] = [r \in Rooms |-> {}]]
    /\ relayed' = {}
    /\ UNCHANGED <<nodeId, rooms, members>>

(* Mutant: those who stay are not told.                                    *)
DisconnectSilently(c) ==
    /\ conn[c] = "closing"
    /\ conn' = [conn EXCEPT ![c] = "closed"]
    /\ rooms' = [rooms EXCEPT ![c] = {}]
    /\ members' = Without(c, rooms[c])
    /\ relayed' = {}
    /\ UNCHANGED <<nodeId, view>>

Disconnect(c) ==
    LET left == Without(c, rooms[c])
    IN  /\ conn[c] = "closing"
        /\ conn' = [conn EXCEPT ![c] = "closed"]
        /\ rooms' = [rooms EXCEPT ![c] = {}]
        /\ members' = left
        /\ Broadcast(left, rooms[c])
        /\ relayed' = {}
        /\ UNCHANGED nodeId

(* Mutant: a connection may signal a room it has not joined.               *)
RelayUnjoined(c, r, to) ==
    LET targets == IF to = NoNode THEN Nodes \ {nodeId[c]} ELSE {to}
        reached == {d \in Clients : conn[d] = "open"
                        /\ \E n \in targets : members[r][n] = d}
    IN  /\ Listening(c)
        /\ relayed' = {[from |-> nodeId[c], room |-> r, to |-> to, at |-> d] :
                           d \in reached}
        /\ UNCHANGED <<conn, nodeId, rooms, members, view>>

(* relay: a signal to the node to, or to everyone else when to is NoNode.  *)
Relay(c, r, to) ==
    LET targets == IF to = NoNode THEN Nodes \ {nodeId[c]} ELSE {to}
        reached == {d \in Clients : conn[d] = "open"
                        /\ \E n \in targets : members[r][n] = d}
    IN  /\ Listening(c)
        /\ r \in rooms[c] /\ nodeId[c] # NoNode
        /\ relayed' = {[from |-> nodeId[c], room |-> r, to |-> to, at |-> d] :
                           d \in reached}
        /\ UNCHANGED <<conn, nodeId, rooms, members, view>>

Next ==
    \E c \in Clients :
        \/ Connect(c) \/ Drop(c) \/ Disconnect(c)
        \/ \E r \in Rooms :
              \/ \E n \in Identities[c] : Join(c, r, n)
              \/ Leave(c, r)
              \/ \E to \in Nodes \cup {NoNode} : Relay(c, r, to)

Spec == Init /\ [][Next]_vars

-----------------------------------------------------------------------------
TypeOK ==
    /\ conn \in [Clients -> {"new", "open", "closing", "closed"}]
    /\ nodeId \in [Clients -> Nodes \cup {NoNode}]
    /\ rooms \in [Clients -> SUBSET Rooms]
    /\ members \in [Rooms -> [Nodes -> Clients \cup {NoClient}]]
    /\ view \in [Clients -> [Rooms -> SUBSET Nodes]]
    /\ relayed \subseteq [from: Nodes, room: Rooms, to: Nodes \cup {NoNode},
                          at: Clients]

(* Whoever the registry lists under a node of a room is a connection that  *)
(* has not been closed, goes by that node and is in that room: reconnects  *)
(* before the old close event, second tabs, renames and leaves in any      *)
(* order never leave a dead or foreign entry behind.                       *)
RegistryConsistent ==
    \A r \in Rooms, n \in Nodes :
        LET c == members[r][n] IN
        c # NoClient => /\ conn[c] \in {"open", "closing"}
                        /\ nodeId[c] = n
                        /\ r \in rooms[c]

(* A registered connection whose socket is open knows of everyone who is   *)
(* in the room now, and beyond them at most of ids that some connection    *)
(* goes by and may have changed: a change of id is told to one room only.  *)
(* Where connections keep their ids it knows exactly who is there.         *)
PeersViewCurrent ==
    \A r \in Rooms, n \in Nodes :
        LET c == members[r][n] IN
        c # NoClient /\ conn[c] = "open" =>
            /\ Present(members, r) \subseteq view[c][r]
            /\ \A gone \in view[c][r] \ Present(members, r) : Changeable(gone)

(* A reconnect takes the node over at once, and the close of the old       *)
(* connection does not take it away again: an entry is removed only by its *)
(* own connection leaving, closing or changing its id.                     *)
EntryChangesHands ==
    [][\A r \in Rooms, n \in Nodes :
          members'[r][n] # members[r][n] =>
              \/ members'[r][n] # NoClient
              \/ r \notin rooms'[members[r][n]]
              \/ nodeId'[members[r][n]] # n]_vars

(* A relayed signal comes from a node with a connection in the room, and   *)
(* reaches only open connections that joined the room themselves, and a    *)
(* signal for one node only that node.                                     *)
RelayStaysInRoom ==
    \A s \in relayed :
        /\ \E c \in Clients : nodeId[c] = s.from /\ s.room \in rooms[c]
        /\ conn[s.at] = "open"
        /\ s.room \in rooms[s.at]
        /\ s.to # NoNode => nodeId[s.at] = s.to

(* A connection that joined and has not left can be reached in the room,   *)
(* itself or through a newer connection of its node.                       *)
JoinedIsReachable ==
    \A c \in Clients : conn[c] = "open" =>
        \A r \in rooms[c] : members[r][nodeId[c]] # NoClient

=============================================================================
