------------------------ MODULE SignalingRoomsProofs ------------------------
(* Proofs about the room registry for any number of connections, node ids  *)
(* and rooms.                                                              *)
EXTENDS SignalingRooms, TLAPS

(* Every message and every close keeps the types.                          *)
LEMMA StepKeepsTypes == TypeOK /\ [Next]_vars => TypeOK'
<1> USE NoClientAssumption, NoNodeAssumption, IdentityAssumption
<1> SUFFICES ASSUME TypeOK, [Next]_vars
             PROVE  TypeOK'
  OBVIOUS
<1> USE DEF TypeOK, Broadcast, Present, Without
<1>1. ASSUME NEW c \in Clients, Connect(c)
      PROVE  TypeOK'
  BY <1>1 DEF Connect
<1>2. ASSUME NEW c \in Clients, Drop(c)
      PROVE  TypeOK'
  BY <1>2 DEF Drop
<1>3. ASSUME NEW c \in Clients, Disconnect(c)
      PROVE  TypeOK'
  BY <1>3 DEF Disconnect
<1>4. ASSUME NEW c \in Clients, NEW r \in Rooms, NEW n \in Identities[c],
             Join(c, r, n)
      PROVE  TypeOK'
  <2>1. n \in Nodes
    OBVIOUS
  <2>2. members' \in [Rooms -> [Nodes -> Clients \cup {NoClient}]]
    BY <1>4, <2>1 DEF Join
  <2>3. nodeId' \in [Clients -> Nodes \cup {NoNode}]
    BY <1>4, <2>1 DEF Join
  <2>4. rooms' \in [Clients -> SUBSET Rooms]
    BY <1>4 DEF Join
  <2>5. view' \in [Clients -> [Rooms -> SUBSET Nodes]]
    BY <1>4 DEF Join
  <2>6. QED
    BY <1>4, <2>2, <2>3, <2>4, <2>5 DEF Join
<1>5. ASSUME NEW c \in Clients, NEW r \in Rooms, Leave(c, r)
      PROVE  TypeOK'
  BY <1>5 DEF Leave
<1>6. ASSUME NEW c \in Clients, NEW r \in Rooms,
             NEW to \in Nodes \cup {NoNode}, Relay(c, r, to)
      PROVE  TypeOK'
  <2>1. nodeId[c] \in Nodes
    BY <1>6 DEF Relay
  <2>2. relayed' \subseteq [from: Nodes, room: Rooms,
                           to: Nodes \cup {NoNode}, at: Clients]
    <3> SUFFICES ASSUME NEW s \in relayed'
                 PROVE  s \in [from: Nodes, room: Rooms,
                               to: Nodes \cup {NoNode}, at: Clients]
      OBVIOUS
    <3>1. PICK d \in Clients :
              s = [from |-> nodeId[c], room |-> r, to |-> to, at |-> d]
      BY <1>6 DEF Relay
    <3>2. QED
      BY <2>1, <3>1
  <2>3. QED
    BY <1>6, <2>2 DEF Relay
<1>7. CASE UNCHANGED vars
  BY <1>7 DEF vars
<1>8. QED
  BY <1>1, <1>2, <1>3, <1>4, <1>5, <1>6, <1>7 DEF Next

(* Whatever clients send, the server's maps keep their types.              *)
THEOREM TypeCorrect == Spec => []TypeOK
<1>1. Init => TypeOK
  BY NoClientAssumption, NoNodeAssumption, IdentityAssumption DEF Init, TypeOK
<1>2. QED
  BY <1>1, StepKeepsTypes, PTL DEF Spec

-----------------------------------------------------------------------------
(* A registered connection has an id, so every entry of a connection sits  *)
(* under that id in a room the connection knows: leaving those rooms       *)
(* removes all of its entries.                                             *)
LEMMA WithoutRemoves ==
  ASSUME TypeOK, RegistryConsistent, NEW c \in Clients,
         NEW r \in Rooms, NEW n \in Nodes
  PROVE  /\ Without(c, rooms[c])[r][n] # c
         /\ Without(c, rooms[c])[r][n] \in {NoClient, members[r][n]}
<1>1. CASE members[r][n] = c
  BY <1>1, NoClientAssumption DEF TypeOK, RegistryConsistent, Without
<1>2. CASE members[r][n] # c
  BY <1>2 DEF TypeOK, Without
<1>3. QED
  BY <1>1, <1>2

(* No order of joins, renames, leaves, reconnects and closes leaves a dead *)
(* or foreign entry in a room.                                             *)
THEOREM RegistryIsConsistent == Spec => []RegistryConsistent
<1> USE NoClientAssumption, NoNodeAssumption, IdentityAssumption
<1>1. Init => RegistryConsistent
  BY DEF Init, RegistryConsistent
<1>2. TypeOK /\ RegistryConsistent /\ [Next]_vars => RegistryConsistent'
  <2> SUFFICES ASSUME TypeOK, RegistryConsistent, [Next]_vars,
                      NEW q \in Rooms, NEW m \in Nodes
               PROVE  LET x == members'[q][m] IN
                      x # NoClient => /\ conn'[x] \in {"open", "closing"}
                                      /\ nodeId'[x] = m
                                      /\ q \in rooms'[x]
    BY DEF RegistryConsistent
  <2> DEFINE e == members[q][m]
             x == members'[q][m]
             Goal == x # NoClient => /\ conn'[x] \in {"open", "closing"}
                                     /\ nodeId'[x] = m
                                     /\ q \in rooms'[x]
  <2>0. e # NoClient => /\ e \in Clients
                        /\ conn[e] \in {"open", "closing"}
                        /\ nodeId[e] = m
                        /\ q \in rooms[e]
    BY DEF TypeOK, RegistryConsistent
  <2>1. ASSUME NEW c \in Clients, Connect(c)
        PROVE  Goal
    BY <2>0, <2>1 DEF Connect, TypeOK
  <2>2. ASSUME NEW c \in Clients, Drop(c)
        PROVE  Goal
    BY <2>0, <2>2 DEF Drop, TypeOK
  <2>3. ASSUME NEW c \in Clients, Disconnect(c)
        PROVE  Goal
    <3>1. x \in {NoClient, e} /\ x # c
      BY <2>3, WithoutRemoves DEF Disconnect
    <3>2. QED
      BY <2>0, <2>3, <3>1 DEF Disconnect, TypeOK
  <2>4. ASSUME NEW c \in Clients, NEW r \in Rooms, NEW n \in Identities[c],
               Join(c, r, n)
        PROVE  Goal
    <3> DEFINE base == IF nodeId[c] \notin {NoNode, n}
                         THEN Without(c, rooms[c]) ELSE members
    <3>1. members' = [base EXCEPT ![r][n] = c]
      BY <2>4 DEF Join
    <3>2. base \in [Rooms -> [Nodes -> Clients \cup {NoClient}]]
      BY DEF TypeOK, Without
    <3>3. nodeId'[c] = n /\ r \in rooms'[c] /\ conn'[c] \in {"open", "closing"}
      BY <2>4 DEF Join, Listening, TypeOK
    <3>4. CASE q = r /\ m = n
      BY <3>1, <3>2, <3>3, <3>4
    <3>5. CASE ~(q = r /\ m = n)
      <4>1. members'[q][m] = base[q][m]
        BY <3>1, <3>2, <3>5
      <4>2. CASE nodeId[c] \notin {NoNode, n}
        <5>1. members'[q][m] \in {NoClient, e} /\ members'[q][m] # c
          BY <4>1, <4>2, WithoutRemoves
        <5>2. QED
          BY <2>0, <2>4, <5>1 DEF Join, TypeOK
      <4>3. CASE nodeId[c] \in {NoNode, n}
        <5>1. members'[q][m] = e
          BY <4>1, <4>3
        <5>2. QED
          BY <2>0, <2>4, <4>3, <5>1 DEF Join, TypeOK
      <4>4. QED
        BY <4>2, <4>3
    <3>6. QED
      BY <3>4, <3>5
  <2>5. ASSUME NEW c \in Clients, NEW r \in Rooms, Leave(c, r)
        PROVE  Goal
    <3>1. x \in {NoClient, e}
      BY <2>5 DEF Leave, Without, TypeOK
    <3>2. ~(x = c /\ q = r)
      BY <2>0, <2>5, NoClientAssumption DEF Leave, Without, TypeOK
    <3>3. QED
      BY <2>0, <2>5, <3>1, <3>2 DEF Leave, TypeOK
  <2>6. ASSUME NEW c \in Clients, NEW r \in Rooms,
               NEW to \in Nodes \cup {NoNode}, Relay(c, r, to)
        PROVE  Goal
    BY <2>0, <2>6 DEF Relay
  <2>7. CASE UNCHANGED vars
    BY <2>0, <2>7 DEF vars
  <2>8. QED
    BY <2>1, <2>2, <2>3, <2>4, <2>5, <2>6, <2>7 DEF Next
<1>3. QED
  BY <1>1, <1>2, TypeCorrect, PTL DEF Spec

-----------------------------------------------------------------------------
(* A signal reaches only open connections that are in the room under the   *)
(* node it is addressed to.                                                *)
THEOREM RelayIsContained == Spec => []RelayStaysInRoom
<1> USE NoClientAssumption, NoNodeAssumption
<1>1. Init => RelayStaysInRoom
  BY DEF Init, RelayStaysInRoom
<1>2. TypeOK /\ RegistryConsistent /\ RelayStaysInRoom /\ [Next]_vars
        => RelayStaysInRoom'
  <2> SUFFICES ASSUME TypeOK, RegistryConsistent, RelayStaysInRoom, [Next]_vars
               PROVE  RelayStaysInRoom'
    OBVIOUS
  <2>1. ASSUME NEW c \in Clients, NEW r \in Rooms,
               NEW to \in Nodes \cup {NoNode}, Relay(c, r, to)
        PROVE  RelayStaysInRoom'
    <3> SUFFICES ASSUME NEW s \in relayed'
                 PROVE  /\ \E e \in Clients : /\ nodeId[e] = s.from
                                               /\ s.room \in rooms[e]
                        /\ conn[s.at] = "open"
                        /\ s.room \in rooms[s.at]
                        /\ s.to # NoNode => nodeId[s.at] = s.to
      BY <2>1 DEF Relay, RelayStaysInRoom
    <3> DEFINE targets == IF to = NoNode THEN Nodes \ {nodeId[c]} ELSE {to}
    <3>1. PICK d \in Clients :
             /\ conn[d] = "open"
             /\ \E n \in targets : members[r][n] = d
             /\ s = [from |-> nodeId[c], room |-> r, to |-> to, at |-> d]
      BY <2>1 DEF Relay
    <3>2. PICK n \in targets : members[r][n] = d
      BY <3>1
    <3>3. n \in Nodes /\ (to # NoNode => n = to)
      OBVIOUS
    <3>4. nodeId[d] = n /\ r \in rooms[d]
      BY <3>1, <3>2, <3>3 DEF RegistryConsistent
    <3>5. r \in rooms[c]
      BY <2>1 DEF Relay
    <3>6. QED
      BY <3>1, <3>3, <3>4, <3>5
  <2>2. CASE \E c \in Clients : Connect(c) \/ Drop(c) \/ Disconnect(c)
    BY <2>2 DEF Connect, Drop, Disconnect, RelayStaysInRoom
  <2>3. CASE \E c \in Clients, r \in Rooms :
                Leave(c, r) \/ \E n \in Identities[c] : Join(c, r, n)
    BY <2>3 DEF Join, Leave, RelayStaysInRoom
  <2>4. CASE UNCHANGED vars
    BY <2>4 DEF vars, RelayStaysInRoom
  <2>5. QED
    BY <2>1, <2>2, <2>3, <2>4 DEF Next
<1>3. QED
  BY <1>1, <1>2, TypeCorrect, RegistryIsConsistent, PTL DEF Spec

-----------------------------------------------------------------------------
(* The close, leave or rename of a connection takes away only entries that *)
(* are still its own, so the entry of a node that has reconnected survives *)
(* the late close of its old connection.                                   *)
THEOREM EntriesChangeHands == Spec => EntryChangesHands
<1> USE NoClientAssumption, NoNodeAssumption, IdentityAssumption
<1> DEFINE Kept(r, n) == members'[r][n] # members[r][n] =>
                           \/ members'[r][n] # NoClient
                           \/ r \notin rooms'[members[r][n]]
                           \/ nodeId'[members[r][n]] # n
<1>1. TypeOK /\ [Next]_vars => [\A r \in Rooms, n \in Nodes : Kept(r, n)]_vars
  <2> SUFFICES ASSUME TypeOK, Next, NEW q \in Rooms, NEW m \in Nodes
               PROVE  Kept(q, m)
    OBVIOUS
  <2>1. ASSUME NEW c \in Clients, Disconnect(c)
        PROVE  Kept(q, m)
    <3>1. members'[q][m] \in {NoClient, members[q][m]}
          /\ (members'[q][m] # members[q][m] => members[q][m] = c)
      BY <2>1 DEF Disconnect, Without, TypeOK
    <3>2. rooms'[c] = {}
      BY <2>1 DEF Disconnect, TypeOK
    <3>3. QED
      BY <3>1, <3>2
  <2>2. ASSUME NEW c \in Clients, NEW r \in Rooms, Leave(c, r)
        PROVE  Kept(q, m)
    <3>1. members'[q][m] # members[q][m] => members[q][m] = c /\ q = r
      BY <2>2 DEF Leave, Without, TypeOK
    <3>2. r \notin rooms'[c]
      BY <2>2 DEF Leave, TypeOK
    <3>3. QED
      BY <3>1, <3>2
  <2>3. ASSUME NEW c \in Clients, NEW r \in Rooms, NEW n \in Identities[c],
               Join(c, r, n)
        PROVE  Kept(q, m)
    <3> DEFINE renamed == nodeId[c] \notin {NoNode, n}
               base == IF renamed THEN Without(c, rooms[c]) ELSE members
    <3>1. base \in [Rooms -> [Nodes -> Clients \cup {NoClient}]]
      BY DEF TypeOK, Without
    <3>2. members' = [base EXCEPT ![r][n] = c]
      BY <2>3 DEF Join
    <3>3. CASE q = r /\ m = n
      BY <3>1, <3>2, <3>3
    <3>4. CASE ~(q = r /\ m = n)
      <4>1. members'[q][m] = base[q][m]
        BY <3>1, <3>2, <3>4
      <4>2. CASE ~renamed
        BY <4>1, <4>2
      <4>3. CASE renamed
        <5>1. base[q][m] # members[q][m] => members[q][m] = c /\ m = nodeId[c]
          BY <4>3 DEF Without, TypeOK
        <5>2. nodeId'[c] # nodeId[c]
          BY <2>3, <4>3 DEF Join, TypeOK
        <5>3. QED
          BY <4>1, <5>1, <5>2
      <4>4. QED
        BY <4>2, <4>3
    <3>5. QED
      BY <3>3, <3>4
  <2>4. ASSUME NEW c \in Clients,
               \/ Connect(c) \/ Drop(c)
               \/ \E r \in Rooms, to \in Nodes \cup {NoNode} : Relay(c, r, to)
        PROVE  UNCHANGED members
    BY <2>4 DEF Connect, Drop, Relay
  <2>5. QED
    BY <2>1, <2>2, <2>3, <2>4 DEF Next
<1>2. QED
  BY <1>1, TypeCorrect, PTL DEF Spec, EntryChangesHands

-----------------------------------------------------------------------------
(* A connection goes by ids it announces.                                  *)
OwnIds == \A c \in Clients : nodeId[c] # NoNode => nodeId[c] \in Identities[c]

LEMMA IdsAreOwn == Spec => []OwnIds
<1> USE NoNodeAssumption, IdentityAssumption
<1>1. Init => OwnIds
  BY DEF Init, OwnIds
<1>2. TypeOK /\ OwnIds /\ [Next]_vars => OwnIds'
  <2> SUFFICES ASSUME TypeOK, OwnIds, [Next]_vars
               PROVE  OwnIds'
    OBVIOUS
  <2>1. ASSUME NEW c \in Clients, NEW r \in Rooms, NEW n \in Identities[c],
               Join(c, r, n)
        PROVE  OwnIds'
    BY <2>1 DEF Join, OwnIds, TypeOK
  <2>2. ASSUME UNCHANGED nodeId
        PROVE  OwnIds'
    BY <2>2 DEF OwnIds
  <2>3. QED
    BY <2>1, <2>2 DEF Next, Connect, Drop, Disconnect, Leave, Relay, vars
<1>3. QED
  BY <1>1, <1>2, TypeCorrect, PTL DEF Spec

(* What it means for x to know room q, and what Broadcast makes of it.     *)
Knows(x, q) ==
    /\ Present(members, q) \subseteq view[x][q]
    /\ \A gone \in view[x][q] \ Present(members, q) : Changeable(gone)

(* A room that is told is known to everyone in it; a room that is not told *)
(* and keeps its members stays known to those it was known to.             *)
LEMMA BroadcastInforms ==
  ASSUME NEW R, Broadcast(members', R), NEW q \in Rooms, NEW m \in Nodes,
         NEW x \in Clients, members'[q][m] = x, conn[x] = "open",
         \/ q \in R
         \/ members'[q] = members[q] /\ Knows(x, q)
  PROVE  Knows(x, q)'
<1>1. view'[x][q] = IF q \in R THEN Present(members', q) ELSE view[x][q]
  BY DEF Broadcast
<1>2. Present(members, q)' = Present(members', q)
  BY DEF Present
<1>3. CASE q \in R
  BY <1>1, <1>2, <1>3 DEF Knows
<1>4. CASE q \notin R
  <2>1. Present(members', q) = Present(members, q)
    BY <1>4 DEF Present
  <2>2. \A n : Changeable(n)' <=> Changeable(n)
    BY DEF Changeable
  <2>3. QED
    BY <1>1, <1>2, <1>4, <2>1, <2>2 DEF Knows
<1>5. QED
  BY <1>3, <1>4

(* Whoever is registered with an open socket knows everyone who is in the  *)
(* room; the other names it holds are ids that their connection changed.   *)
THEOREM PeersAreKnown == Spec => []PeersViewCurrent
<1> USE NoClientAssumption, NoNodeAssumption, IdentityAssumption
<1>1. Init => PeersViewCurrent
  BY DEF Init, PeersViewCurrent
<1>2. TypeOK /\ RegistryConsistent /\ OwnIds /\ PeersViewCurrent
        /\ [Next]_vars => PeersViewCurrent'
  <2> SUFFICES ASSUME TypeOK, RegistryConsistent, OwnIds, PeersViewCurrent,
                      [Next]_vars
               PROVE  PeersViewCurrent'
    OBVIOUS
  <2>t. TypeOK'
    BY StepKeepsTypes
  <2> SUFFICES ASSUME NEW q \in Rooms, NEW m \in Nodes, NEW x \in Clients,
                      members'[q][m] = x, conn'[x] = "open"
               PROVE  Knows(x, q)'
    <3> SUFFICES ASSUME NEW k \in Rooms, NEW n \in Nodes,
                        members'[k][n] # NoClient,
                        conn'[members'[k][n]] = "open"
                 PROVE  Knows(members[k][n], k)'
      BY DEF PeersViewCurrent, Knows
    <3>1. members'[k][n] \in Clients
      BY <2>t DEF TypeOK
    <3>2. \A y \in Clients : members'[k][n] = y => Knows(y, k)'
      OBVIOUS
    <3>3. QED
      BY <3>1, <3>2
  <2>0. \A k \in Rooms, n \in Nodes :
          members[k][n] = x /\ conn[x] = "open" => Knows(x, k)
    BY DEF PeersViewCurrent, Knows
  <2>1. ASSUME UNCHANGED <<members, view>>, conn[x] = "open"
        PROVE  Knows(x, q)'
    BY <2>0, <2>1 DEF Knows, Present, Changeable
  <2>2. ASSUME NEW c \in Clients, Connect(c)
        PROVE  Knows(x, q)'
    <3>1. x # c
      BY <2>2 DEF Connect, RegistryConsistent
    <3>2. QED
      BY <2>1, <2>2, <3>1 DEF Connect, TypeOK
  <2>3. ASSUME NEW c \in Clients, Drop(c)
        PROVE  Knows(x, q)'
    <3>1. x # c /\ conn[x] = "open" /\ view'[x][q] = view[x][q]
      BY <2>3 DEF Drop, TypeOK
    <3>2. QED
      BY <2>0, <2>3, <3>1 DEF Drop, Knows, Present, Changeable
  <2>4. ASSUME NEW c \in Clients, Disconnect(c)
        PROVE  Knows(x, q)'
    <3>1. x # c /\ conn[x] = "open"
      BY <2>4 DEF Disconnect, TypeOK
    <3>2. Broadcast(members', rooms[c])
      BY <2>4 DEF Disconnect
    <3>3. CASE q \in rooms[c]
      BY <3>1, <3>2, <3>3, BroadcastInforms
    <3>4. CASE q \notin rooms[c]
      <4>1. members'[q] = members[q]
        BY <2>4, <3>4 DEF Disconnect, Without, TypeOK
      <4>2. QED
        BY <2>0, <3>1, <3>2, <4>1, BroadcastInforms
    <3>5. QED
      BY <3>3, <3>4
  <2>5. ASSUME NEW c \in Clients, NEW r \in Rooms, Leave(c, r)
        PROVE  Knows(x, q)'
    <3>1. Broadcast(members', {r}) /\ conn[x] = "open"
      BY <2>5 DEF Leave
    <3>2. CASE q = r
      BY <3>1, <3>2, BroadcastInforms
    <3>3. CASE q # r
      <4>1. members'[q] = members[q]
        BY <2>5, <3>3 DEF Leave, Without, TypeOK
      <4>2. QED
        BY <2>0, <3>1, <4>1, BroadcastInforms
    <3>4. QED
      BY <3>2, <3>3
  <2>6. ASSUME NEW c \in Clients, NEW r \in Rooms, NEW n \in Identities[c],
               Join(c, r, n)
        PROVE  Knows(x, q)'
    <3>1. Broadcast(members', {r}) /\ conn[x] = "open"
      BY <2>6 DEF Join
    <3>2. CASE q = r
      BY <3>1, <3>2, BroadcastInforms
    <3>3. CASE q # r /\ nodeId[c] \in {NoNode, n}
      <4>1. members'[q] = members[q]
        BY <2>6, <3>3 DEF Join, TypeOK
      <4>2. QED
        BY <2>0, <3>1, <4>1, BroadcastInforms
    <3>4. CASE q # r /\ nodeId[c] \notin {NoNode, n}
      <4>1. \A k \in Nodes :
              members'[q][k] = IF q \in rooms[c] /\ k = nodeId[c]
                                    /\ members[q][k] = c
                                 THEN NoClient ELSE members[q][k]
        BY <2>6, <3>4 DEF Join, Without, TypeOK
      <4>2. members[q][m] = x /\ view'[x][q] = view[x][q]
        BY <2>6, <3>1, <3>4, <4>1 DEF Broadcast
      <4>3. Changeable(nodeId[c])
        BY <3>4 DEF Changeable, OwnIds, TypeOK
      <4>4. /\ Present(members', q) \subseteq Present(members, q)
            /\ Present(members, q) \subseteq Present(members', q)
                                             \cup {nodeId[c]}
        BY <4>1 DEF Present
      <4>5. Knows(x, q)
        BY <2>0, <3>1, <4>2
      <4>6. Present(members, q)' = Present(members', q)
            /\ \A k : Changeable(k)' <=> Changeable(k)
        BY DEF Present, Changeable
      <4>7. QED
        BY <4>2, <4>3, <4>4, <4>5, <4>6 DEF Knows
    <3>5. QED
      BY <3>2, <3>3, <3>4
  <2>7. ASSUME NEW c \in Clients, NEW r \in Rooms,
               NEW to \in Nodes \cup {NoNode}, Relay(c, r, to)
        PROVE  Knows(x, q)'
    BY <2>1, <2>7 DEF Relay
  <2>8. CASE UNCHANGED vars
    BY <2>1, <2>8 DEF vars
  <2>9. QED
    BY <2>2, <2>3, <2>4, <2>5, <2>6, <2>7, <2>8 DEF Next
<1>3. QED
  BY <1>1, <1>2, TypeCorrect, RegistryIsConsistent, IdsAreOwn, PTL DEF Spec

=============================================================================
