--------------------------- MODULE GroupMeshProofs ---------------------------
(* For any servers, any number of connections and any faults: the answer     *)
(* timer is the one of the running offer, a lost signaling server does not   *)
(* cost an open channel, and the mesh implements PeerChannel.                *)
EXTENDS GroupMesh, TLAPS

(* What goes over a signaling server.                                        *)
PeerLists == {Peers(TRUE), Peers(FALSE)}
Offers == {Signal("offer", c, 0) : c \in Conns}
Answers == {Signal("answer", c, g) : c \in Conns, g \in 0..MaxFaults}
Sent == PeerLists \cup Offers \cup Answers

RoomsOK ==
    /\ phase \in [Nodes -> {"off", "starting", "up"}]
    /\ gen \in [Nodes -> 0..MaxFaults] /\ \A n \in Nodes : gen[n] <= faults
    /\ sock \in [Nodes -> [Urls -> {"none", "first", "connecting", "open", "retry"}]]
    /\ lists \in [Nodes -> [Urls -> BOOLEAN]]
    /\ joined \in [Urls -> SUBSET Nodes] /\ dead \in [Urls -> SUBSET Nodes]
    /\ faults \in 0..MaxFaults

NetOK == net \in [Urls -> [Nodes -> Seq(Sent)]]

EntryOK ==
    /\ entry \in [Nodes -> Entries]
    /\ \A n \in Nodes : (entry[n].id = 0) = (entry[n].step = "none")
    /\ entry[Lo].step # "got" /\ entry[Hi].step \notin {"new", "silent", "offered"}
    /\ timers \subseteq Conns /\ again \in BOOLEAN
    /\ left \in [Nodes -> SUBSET Conns]

AuthedOK ==
    /\ authed \in [Nodes -> BOOLEAN]
    /\ \A n \in Nodes : authed[n] => entry[n].step = "open"

(* The responder remembers the offer of every connection it ever took up,    *)
(* and the initiator's new attempt is none of those it has left.             *)
NeverAgain ==
    /\ seen \in [Nodes -> SUBSET Messages]
    /\ \A c \in left[Hi] \cup {entry[Hi].id} : c # 0 => Signal("offer", c, 0) \in seen[Hi]
    /\ entry[Lo].step \in {"new", "silent", "offered"} => entry[Lo].id \notin left[Lo]

PeersOK == EntryOK /\ AuthedOK /\ TimerIsOfOffer /\ NeverAgain

Inv == RoomsOK /\ NetOK /\ PeersOK

LEMMA SentAreMessages == Sent \subseteq Messages
<1>1. 0 \in 0..MaxConns /\ 0 \in 0..MaxFaults /\ Conns \subseteq 0..MaxConns
  BY MeshBoundAssumption DEF Conns
<1>2. Peers(TRUE) \in Messages /\ Peers(FALSE) \in Messages BY <1>1 DEF Peers, Messages
<1>3. \A c \in Conns : Signal("offer", c, 0) \in Messages BY <1>1 DEF Signal, Messages
<1>4. \A c \in Conns, g \in 0..MaxFaults : Signal("answer", c, g) \in Messages
  BY <1>1 DEF Signal, Messages
<1> SUFFICES ASSUME NEW m \in Sent PROVE m \in Messages OBVIOUS
<1>5. CASE m \in PeerLists BY <1>2, <1>5 DEF PeerLists
<1>6. CASE m \in Offers BY <1>3, <1>6 DEF Offers
<1>7. CASE m \in Answers BY <1>4, <1>7 DEF Answers
<1> QED BY <1>5, <1>6, <1>7 DEF Sent

LEMMA InvImpliesTypes == Inv => TypeOK
<1> SUFFICES ASSUME Inv PROVE TypeOK OBVIOUS
<1>1. Seq(Sent) \subseteq Seq(Messages)
  BY SentAreMessages
<1>2. net \in [Urls -> [Nodes -> Seq(Messages)]] BY <1>1 DEF Inv, NetOK
<1> QED BY <1>2 DEF Inv, RoomsOK, PeersOK, EntryOK, AuthedOK, NeverAgain, TypeOK

LEMMA Ends == Lo \in Nodes /\ Hi \in Nodes /\ \A n \in Nodes : n = Lo \/ n = Hi
BY DEF Nodes

LEMMA InitInv == Init => Inv
<1> SUFFICES ASSUME Init PROVE Inv OBVIOUS
<1>1. RoomsOK BY MeshBoundAssumption DEF Init, RoomsOK
<1>2. NetOK
  <2>1. <<>> \in Seq(Sent) OBVIOUS
  <2> QED BY <2>1 DEF Init, NetOK
<1>3. NoEntry \in Entries /\ NoEntry.id = 0 /\ NoEntry.step = "none"
  BY MeshBoundAssumption DEF NoEntry, Entries, Steps
<1>4. entry = [n \in Nodes |-> NoEntry] BY DEF Init
<1>5. EntryOK /\ AuthedOK /\ TimerIsOfOffer /\ NeverAgain
  BY <1>3, <1>4, Ends DEF Init, EntryOK, AuthedOK, TimerIsOfOffer, NeverAgain
<1> QED BY <1>1, <1>2, <1>5 DEF Inv, PeersOK
-----------------------------------------------------------------------------
(* Queues *)

LEMMA ToldTyped ==
    ASSUME NetOK, NEW u \in Urls, NEW j, NEW d
    PROVE  Told(net, u, j, d) \in [Urls -> [Nodes -> Seq(Sent)]]
<1>1. Peers(j = Nodes) \in Sent
  <2>1. CASE j = Nodes
    <3>1. Peers(TRUE) \in Sent BY DEF Sent, PeerLists
    <3>2. (j = Nodes) = TRUE BY <2>1
    <3> QED BY <3>1, <3>2, Zenon
  <2>2. CASE j # Nodes
    <3>1. Peers(FALSE) \in Sent BY DEF Sent, PeerLists
    <3>2. (j = Nodes) = FALSE BY <2>2
    <3> QED BY <3>1, <3>2, Zenon
  <2> QED BY <2>1, <2>2
<1>2. \A n \in Nodes : net[u][n] \in Seq(Sent) BY DEF NetOK
<1>3. \A n \in Nodes : Append(net[u][n], Peers(j = Nodes)) \in Seq(Sent)
  BY <1>1, <1>2
<1>4. [n \in Nodes |-> IF n \in j \ d THEN Append(net[u][n], Peers(j = Nodes)) ELSE net[u][n]]
          \in [Nodes -> Seq(Sent)]
  BY <1>2, <1>3
<1> QED BY <1>4 DEF Told, NetOK

LEMMA TakenTyped ==
    ASSUME NetOK, NEW n \in Nodes, NEW u \in Urls, net[u][n] # <<>>
    PROVE  Taken(n, u) \in [Urls -> [Nodes -> Seq(Sent)]] /\ Head1(n, u) \in Sent
<1>1. net[u][n] \in Seq(Sent) BY DEF NetOK
<1>2. Tail(net[u][n]) \in Seq(Sent) /\ Head(net[u][n]) \in Sent BY <1>1
<1> QED BY <1>2 DEF NetOK, Taken, Head1

LEMMA SendTyped ==
    ASSUME NetOK, NEW n \in Nodes, NEW m \in Sent, Send(n, m)
    PROVE  NetOK'
<1>1. Other(n) \in Nodes BY DEF Other, Nodes
<1>2. \A u \in Urls : [net[u] EXCEPT ![Other(n)] = Append(@, m)] \in [Nodes -> Seq(Sent)]
  <2> SUFFICES ASSUME NEW u \in Urls
               PROVE  [net[u] EXCEPT ![Other(n)] = Append(@, m)] \in [Nodes -> Seq(Sent)]
    OBVIOUS
  <2>1. net[u] \in [Nodes -> Seq(Sent)] BY DEF NetOK
  <2>2. Append(net[u][Other(n)], m) \in Seq(Sent) BY <1>1, <2>1
  <2> QED BY <2>1, <2>2
<1> QED BY <1>2 DEF Send, NetOK
-----------------------------------------------------------------------------
(* Steps of the rooms that leave connections alone. *)

LEMMA Quiet ==
    ASSUME PeersOK, UNCHANGED <<peerVars, seen>>
    PROVE  PeersOK'
BY DEF PeersOK, EntryOK, AuthedOK, TimerIsOfOffer, NeverAgain, peerVars

LEMMA SocketTyped ==
    ASSUME RoomsOK, NEW n \in Nodes, NEW u \in Urls,
           NEW s \in {"none", "first", "connecting", "open", "retry"}
    PROVE  [sock EXCEPT ![n][u] = s]
               \in [Nodes -> [Urls -> {"none", "first", "connecting", "open", "retry"}]]
BY DEF RoomsOK

LEMMA OneMoreFault ==
    ASSUME RoomsOK, faults < MaxFaults, faults' = faults + 1
    PROVE  faults' \in 0..MaxFaults /\ \A n \in Nodes : gen[n] <= faults'
<1>1. faults \in 0..MaxFaults BY DEF RoomsOK
<1>2. faults' \in 0..MaxFaults /\ faults <= faults' BY <1>1, MeshBoundAssumption
<1>3. \A n \in Nodes : gen[n] \in 0..MaxFaults /\ gen[n] <= faults BY DEF RoomsOK
<1> QED BY <1>1, <1>2, <1>3

LEMMA SocketStep ==
    ASSUME Inv, NEW n \in Nodes, NEW u \in Urls,
           \/ Opens(n, u) \/ Fails(n, u) \/ Closes(n, u) \/ Retries(n, u)
           \/ AddUrl(n, u) \/ ServerForgets(n, u)
    PROVE  RoomsOK' /\ NetOK'
<1>1. RoomsOK /\ NetOK BY DEF Inv
<1>2. CASE Opens(n, u)
  <2>1. sock' \in [Nodes -> [Urls -> {"none", "first", "connecting", "open", "retry"}]]
    BY <1>1, <1>2, SocketTyped DEF Opens
  <2>2. joined' \in [Urls -> SUBSET Nodes] /\ dead' \in [Urls -> SUBSET Nodes]
    BY <1>1, <1>2 DEF Opens, RoomsOK
  <2>3. NetOK' BY <1>1, <1>2, ToldTyped DEF Opens, NetOK
  <2> QED BY <1>1, <1>2, <2>1, <2>2, <2>3 DEF Opens, RoomsOK
<1>3. CASE Fails(n, u)
  <2>1. sock' \in [Nodes -> [Urls -> {"none", "first", "connecting", "open", "retry"}]]
    <3>1. PICK s \in {"none", "retry"} : sock' = [sock EXCEPT ![n][u] = s]
      BY <1>3 DEF Fails
    <3> QED BY <1>1, <3>1, SocketTyped
  <2>2. faults' \in 0..MaxFaults /\ \A m \in Nodes : gen[m] <= faults'
    BY <1>1, <1>3, OneMoreFault DEF Fails
  <2> QED BY <1>1, <1>3, <2>1, <2>2 DEF Fails, RoomsOK, NetOK
<1>4. CASE Closes(n, u)
  <2>1. sock' \in [Nodes -> [Urls -> {"none", "first", "connecting", "open", "retry"}]]
    BY <1>1, <1>4, SocketTyped DEF Closes
  <2>2. lists' \in [Nodes -> [Urls -> BOOLEAN]] BY <1>1, <1>4 DEF Closes, RoomsOK
  <2>3. dead' \in [Urls -> SUBSET Nodes] BY <1>1, <1>4 DEF Closes, RoomsOK
  <2>4. faults' \in 0..MaxFaults /\ \A m \in Nodes : gen[m] <= faults'
    BY <1>1, <1>4, OneMoreFault DEF Closes
  <2>5. NetOK'
    <3>1. <<>> \in Seq(Sent) OBVIOUS
    <3> QED BY <1>1, <1>4, <3>1 DEF Closes, NetOK
  <2> QED BY <1>1, <1>4, <2>1, <2>2, <2>3, <2>4, <2>5 DEF Closes, RoomsOK
<1>5. CASE Retries(n, u) \/ AddUrl(n, u)
  <2>1. sock' \in [Nodes -> [Urls -> {"none", "first", "connecting", "open", "retry"}]]
    BY <1>1, <1>5, SocketTyped DEF Retries, AddUrl
  <2> QED BY <1>1, <1>5, <2>1 DEF Retries, AddUrl, RoomsOK, NetOK
<1>6. CASE ServerForgets(n, u)
  <2>1. joined' \in [Urls -> SUBSET Nodes] /\ dead' \in [Urls -> SUBSET Nodes]
    BY <1>1, <1>6 DEF ServerForgets, RoomsOK
  <2>2. NetOK' BY <1>1, <1>6, ToldTyped DEF ServerForgets, NetOK
  <2> QED BY <1>1, <1>6, <2>1, <2>2 DEF ServerForgets, RoomsOK
<1> QED BY <1>2, <1>3, <1>4, <1>5, <1>6

LEMMA StartStep ==
    ASSUME Inv, NEW n \in Nodes, Start(n) \/ StartEnds(n)
    PROVE  RoomsOK' /\ NetOK'
<1>1. RoomsOK /\ NetOK BY DEF Inv
<1>2. CASE Start(n)
  <2>1. sock' \in [Nodes -> [Urls -> {"none", "first", "connecting", "open", "retry"}]]
    <3>1. [u \in Urls |-> IF u \in Known[n] THEN "first" ELSE "none"]
              \in [Urls -> {"none", "first", "connecting", "open", "retry"}]
      OBVIOUS
    <3> QED BY <1>1, <1>2, <3>1 DEF Start, RoomsOK
  <2>2. phase' \in [Nodes -> {"off", "starting", "up"}] BY <1>1, <1>2 DEF Start, RoomsOK
  <2> QED BY <1>1, <1>2, <2>1, <2>2 DEF Start, RoomsOK, NetOK
<1>3. CASE StartEnds(n)
  <2>1. phase' \in [Nodes -> {"off", "starting", "up"}] BY <1>1, <1>3 DEF StartEnds, RoomsOK
  <2> QED BY <1>1, <1>3, <2>1 DEF StartEnds, RoomsOK, NetOK, sockVars
<1> QED BY <1>2, <1>3
-----------------------------------------------------------------------------
(* The refinement mapping. *)

End == [n \in Nodes |-> Working(n)]
Up == [n \in Nodes |-> entry[n].step = "open"]
ChannelStep == [Channel!Next]_<<End, Up, left>>

LEMMA ChannelQuiet ==
    ASSUME UNCHANGED <<entry, left>>
    PROVE  ChannelStep
BY DEF ChannelStep, End, Up, Working

LEMMA ChannelTurns ==
    ASSUME EntryOK, NEW n \in Nodes, NEW c, NEW e \in Entries, e.step # "open",
           entry' = [entry EXCEPT ![n] = e], Working(n)' = c, left' = LeftBy(n)
    PROVE  Channel!Turn(n, c)
<1>1. \A m \in Nodes : entry'[m] = IF m = n THEN e ELSE entry[m] BY DEF EntryOK
<1>2. \A m \in Nodes : Working(m)' = IF m = n THEN c ELSE Working(m)
  BY <1>1 DEF Working
<1>3. End' = [End EXCEPT ![n] = c] BY <1>2 DEF End
<1>4. Up' = [Up EXCEPT ![n] = FALSE]
  <2>1. \A m \in Nodes : (entry'[m].step = "open") = IF m = n THEN FALSE ELSE entry[m].step = "open"
    BY <1>1
  <2> QED BY <2>1 DEF Up
<1>5. left' = [left EXCEPT ![n] = (@ \cup {End[n]}) \ {0}]
  BY DEF LeftBy, End
<1> QED BY <1>3, <1>4, <1>5 DEF Channel!Turn, End, Up

(* An end that drops its connection leaves it, if it worked on it already.   *)
LEMMA ChannelDrops ==
    ASSUME EntryOK, NEW n \in Nodes, NEW e \in Entries, e.step # "open",
           entry' = [entry EXCEPT ![n] = e], Working(n)' = 0, left' = LeftBy(n)
    PROVE  ChannelStep
<1>1. Channel!Turn(n, 0) BY ChannelTurns
<1>2. CASE Working(n) # 0
  <2>1. End[n] # 0 BY <1>2 DEF End
  <2> QED BY <1>1, <2>1 DEF Channel!Next, Channel!Leave, ChannelStep, End
<1>3. CASE Working(n) = 0
  <2>1. entry[n].step # "open" BY <1>3 DEF EntryOK, Working
  <2>2. \A m \in Nodes : entry'[m] = IF m = n THEN e ELSE entry[m] BY DEF EntryOK
  <2>3. \A m \in Nodes : Working(m)' = Working(m) BY <1>3, <2>2 DEF Working
  <2>4. End' = End BY <2>3 DEF End
  <2>5. \A m \in Nodes : (entry'[m].step = "open") = (entry[m].step = "open") BY <2>1, <2>2
  <2>6. Up' = Up BY <2>5 DEF Up
  <2>7. left' = left
    <3>1. (left[n] \cup {0}) \ {0} = left[n] 
      <4>1. left[n] \subseteq Conns /\ 0 \notin Conns BY MeshBoundAssumption DEF EntryOK, Conns
      <4> QED BY <4>1
    <3> QED BY <1>3, <3>1 DEF LeftBy, EntryOK
  <2> QED BY <2>4, <2>6, <2>7 DEF ChannelStep
<1> QED BY <1>2, <1>3

LEMMA ChannelTakes ==
    ASSUME EntryOK, NEW n \in Nodes, NEW c \in Conns, NEW e \in Entries, e.step # "open",
           entry' = [entry EXCEPT ![n] = e], Working(n)' = c, left' = LeftBy(n),
           c \notin left[n] \cup {Working(n)}
    PROVE  ChannelStep
<1>1. Channel!Turn(n, c) BY ChannelTurns
<1>2. c \notin left[n] \cup {End[n]} BY DEF End
<1> QED BY <1>1, <1>2 DEF Channel!Next, Channel!Take, ChannelStep, End
-----------------------------------------------------------------------------
LEMMA NoEntryTyped == NoEntry \in Entries /\ NoEntry.id = 0 /\ NoEntry.step = "none"
BY MeshBoundAssumption DEF NoEntry, Entries, Steps

LEMMA LeftTyped ==
    ASSUME EntryOK, NEW n \in Nodes
    PROVE  /\ Working(n) \in {0, entry[n].id}
           /\ LeftBy(n) \in [Nodes -> SUBSET Conns]
           /\ \A m \in Nodes : LeftBy(n)[m] = IF m = n THEN (left[n] \cup {Working(n)}) \ {0} ELSE left[m]
<1>1. Working(n) \in {0, entry[n].id} BY DEF Working
<1>2. entry[n].id \in 0..MaxConns BY DEF EntryOK, Entries
<1>3. (left[n] \cup {Working(n)}) \ {0} \subseteq Conns
  <2>1. left[n] \subseteq Conns BY DEF EntryOK
  <2>2. \A c \in 0..MaxConns : c # 0 => c \in Conns BY MeshBoundAssumption DEF Conns
  <2> QED BY <1>1, <1>2, <2>1, <2>2
<1> QED BY <1>1, <1>3 DEF LeftBy, EntryOK

LEMMA CleanupKeeps ==
    ASSUME PeersOK, NEW n \in Nodes, NEW rearm \in BOOLEAN, Cleanup(n, rearm), UNCHANGED seen
    PROVE  PeersOK' /\ ChannelStep
<1>1. EntryOK BY DEF PeersOK
<1>2. entry' = [entry EXCEPT ![n] = NoEntry] /\ left' = LeftBy(n)
      /\ authed' = [authed EXCEPT ![n] = FALSE]
  BY DEF Cleanup
<1>3. \A m \in Nodes : entry'[m] = IF m = n THEN NoEntry ELSE entry[m]
  BY <1>1, <1>2 DEF EntryOK
<1>4. timers' = (IF n = Lo THEN {} ELSE timers) /\ again' \in BOOLEAN
  BY <1>1 DEF Cleanup, EntryOK
<1>5. EntryOK'
  <2>1. entry' \in [Nodes -> Entries] BY <1>1, <1>2, NoEntryTyped DEF EntryOK
  <2>2. left' \in [Nodes -> SUBSET Conns] BY <1>1, <1>2, LeftTyped
  <2>3. \A m \in Nodes : (entry'[m].id = 0) = (entry'[m].step = "none")
    BY <1>1, <1>3, NoEntryTyped DEF EntryOK
  <2> QED BY <1>1, <1>3, <1>4, <2>1, <2>2, <2>3, NoEntryTyped, Ends DEF EntryOK
<1>6. AuthedOK'
  <2>1. \A m \in Nodes : authed'[m] = IF m = n THEN FALSE ELSE authed[m]
    BY <1>2 DEF PeersOK, AuthedOK
  <2>2. authed' \in [Nodes -> BOOLEAN] BY <1>2 DEF PeersOK, AuthedOK
  <2> QED BY <1>3, <2>1, <2>2 DEF PeersOK, AuthedOK
<1>7. TimerIsOfOffer' BY <1>3, <1>4, Ends DEF PeersOK, TimerIsOfOffer
<1>8. NeverAgain'
  <2>1. Working(Hi) = entry[Hi].id BY NodeAssumption DEF Working
  <2>2. \A m \in Nodes : left'[m] = IF m = n THEN (left[n] \cup {Working(n)}) \ {0} ELSE left[m]
    BY <1>1, <1>2, LeftTyped
  <2>3. \A c \in left'[Hi] \cup {entry'[Hi].id} : c # 0 => c \in left[Hi] \cup {entry[Hi].id}
    BY <1>3, <2>1, <2>2, NoEntryTyped, Ends
  <2>4. entry'[Lo].step \in {"new", "silent", "offered"} => entry'[Lo].id \notin left'[Lo]
    <3>1. CASE n = Lo BY <1>3, <3>1, NoEntryTyped, Ends
    <3>2. CASE n # Lo BY <1>3, <2>2, <3>2, Ends DEF PeersOK, NeverAgain
    <3> QED BY <3>1, <3>2
  <2> QED BY <2>3, <2>4 DEF PeersOK, NeverAgain
<1>9. ChannelStep
  <2>1. Working(n)' = 0 BY <1>3, NoEntryTyped DEF Working
  <2> QED BY <1>1, <1>2, <2>1, NoEntryTyped, ChannelDrops
<1> QED BY <1>5, <1>6, <1>7, <1>8, <1>9 DEF PeersOK

LEMMA NewIdIsFresh ==
    ASSUME Fresh # {}
    PROVE  NewId \in Conns /\ NewId \notin left[Lo] \cup {entry[Lo].id}
<1>1. NewId \in Fresh BY DEF NewId
<1> QED BY <1>1 DEF Fresh

LEMMA TryConnectKeeps ==
    ASSUME PeersOK, NEW n \in Nodes, NEW l, NEW base, TryConnect(n, l, base), UNCHANGED seen
    PROVE  PeersOK' /\ ChannelStep
<1>1. CASE n = Lo /\ InRoom(l, n) /\ hasOpenSignaling(n) /\ base = NoEntry /\ Fresh # {}
  <2>1. EntryOK BY DEF PeersOK
  <2>2. PICK e : e = [id |-> NewId, step |-> "new", with |-> 0] OBVIOUS
  <2>3. entry' = [entry EXCEPT ![Lo] = e] /\ timers' = {} /\ again' = FALSE
        /\ authed' = [authed EXCEPT ![Lo] = FALSE] /\ left' = LeftBy(Lo)
    BY <1>1, <2>2 DEF TryConnect
  <2>4. e \in Entries /\ e.id \in Conns /\ e.id # 0 /\ e.step = "new"
        /\ e.id \notin left[Lo] \cup {entry[Lo].id}
    <3>1. NewId \in Conns /\ NewId \notin left[Lo] \cup {entry[Lo].id} BY <1>1, NewIdIsFresh
    <3>2. NewId \in 0..MaxConns /\ NewId # 0 /\ 0 \in 0..MaxFaults
      BY <3>1, MeshBoundAssumption DEF Conns
    <3> QED BY <2>2, <3>1, <3>2 DEF Entries, Steps
  <2>5. \A m \in Nodes : entry'[m] = IF m = Lo THEN e ELSE entry[m]
    BY <2>1, <2>3 DEF EntryOK
  <2>6. EntryOK'
    <3>1. entry' \in [Nodes -> Entries] BY <2>1, <2>3, <2>4 DEF EntryOK
    <3>2. left' \in [Nodes -> SUBSET Conns] BY <2>1, <2>3, LeftTyped, Ends
    <3>3. \A m \in Nodes : (entry'[m].id = 0) = (entry'[m].step = "none")
      BY <2>1, <2>4, <2>5 DEF EntryOK
    <3> QED BY <2>1, <2>3, <2>4, <2>5, <3>1, <3>2, <3>3, NodeAssumption, Ends DEF EntryOK
  <2>7. AuthedOK'
    <3>1. \A m \in Nodes : authed'[m] = IF m = Lo THEN FALSE ELSE authed[m]
      BY <2>3 DEF PeersOK, AuthedOK
    <3>2. authed' \in [Nodes -> BOOLEAN] BY <2>3 DEF PeersOK, AuthedOK
    <3> QED BY <2>5, <3>1, <3>2 DEF PeersOK, AuthedOK
  <2>8. TimerIsOfOffer' BY <2>3 DEF TimerIsOfOffer
  <2>9. \A m \in Nodes : left'[m] = IF m = Lo THEN (left[Lo] \cup {Working(Lo)}) \ {0} ELSE left[m]
    BY <2>1, <2>3, LeftTyped, Ends
  <2>10. NeverAgain'
    <3>1. left'[Hi] = left[Hi] /\ entry'[Hi] = entry[Hi] BY <2>5, <2>9, NodeAssumption, Ends
    <3>2. e.id \notin left'[Lo]
      <4>1. Working(Lo) \in {0, entry[Lo].id} BY <2>1, LeftTyped, Ends
      <4> QED BY <2>4, <2>9, <4>1, Ends
    <3> QED BY <2>5, <3>1, <3>2, Ends DEF PeersOK, NeverAgain
  <2>11. ChannelStep
    <3>1. Working(Lo)' = 0 BY <2>4, <2>5, Ends DEF Working
    <3> QED BY <2>1, <2>3, <2>4, <3>1, ChannelDrops, Ends
  <2> QED BY <2>6, <2>7, <2>8, <2>10, <2>11 DEF PeersOK
<1>2. CASE ~(n = Lo /\ InRoom(l, n) /\ hasOpenSignaling(n) /\ base = NoEntry /\ Fresh # {})
           /\ base = entry[n]
  <2>1. UNCHANGED <<peerVars, seen>> BY <1>2 DEF TryConnect
  <2> QED BY <2>1, Quiet, ChannelQuiet DEF peerVars
<1>3. CASE ~(n = Lo /\ InRoom(l, n) /\ hasOpenSignaling(n) /\ base = NoEntry /\ Fresh # {})
           /\ base # entry[n]
  <2>1. Cleanup(n, FALSE) BY <1>3 DEF TryConnect
  <2> QED BY <2>1, CleanupKeeps
<1> QED BY <1>1, <1>2, <1>3
-----------------------------------------------------------------------------
(* Offers and answers. *)

LEMMA OfferStep == ASSUME Inv, Offer PROVE Inv' /\ ChannelStep
<1>1. EntryOK /\ AuthedOK /\ TimerIsOfOffer /\ NeverAgain BY DEF Inv, PeersOK
<1>2. PICK s \in {"silent", "offered"} :
        /\ entry' = [entry EXCEPT ![Lo].step = s]
        /\ timers' = IF s = "silent" THEN timers ELSE timers \cup {entry[Lo].id}
  BY DEF Offer
<1>3. entry[Lo] \in Entries /\ entry[Lo].step = "new" BY <1>1, Ends DEF EntryOK, Offer
<1>4. entry[Lo].id \in Conns
  <2>1. entry[Lo].id # 0 BY <1>1, <1>3, Ends DEF EntryOK
  <2>2. entry[Lo].id \in 0..MaxConns BY <1>3 DEF Entries
  <2> QED BY <2>1, <2>2, MeshBoundAssumption DEF Conns
<1>5. PICK e \in Entries : e = [entry[Lo] EXCEPT !.step = s]
  BY <1>3 DEF Entries, Steps
<1>6. e.step = s /\ e.id = entry[Lo].id BY <1>3, <1>5 DEF Entries
<1>7. entry' = [entry EXCEPT ![Lo] = e] BY <1>1, <1>2, <1>5, Ends DEF EntryOK
<1>8. \A m \in Nodes : entry'[m] = IF m = Lo THEN e ELSE entry[m] BY <1>1, <1>7 DEF EntryOK
<1>9. UNCHANGED <<phase, gen, sockVars, again, authed, left, seen, faults>> BY DEF Offer
<1>10. timers = {} BY <1>1, <1>3 DEF TimerIsOfOffer
<1>11. RoomsOK' BY <1>9 DEF Inv, RoomsOK, sockVars
<1>12. NetOK'
  <2>1. Signal("offer", entry[Lo].id, 0) \in Sent BY <1>4 DEF Sent, Offers
  <2>2. Send(Lo, Signal("offer", entry[Lo].id, 0)) BY DEF Offer
  <2> QED BY <2>1, <2>2, SendTyped, Ends DEF Inv
<1>13. EntryOK'
  <2>1. entry' \in [Nodes -> Entries] BY <1>1, <1>7 DEF EntryOK
  <2>2. timers' \subseteq Conns BY <1>2, <1>4, <1>10
  <2>3. \A m \in Nodes : (entry'[m].id = 0) = (entry'[m].step = "none")
    <3>1. e.id # 0 /\ e.step # "none" BY <1>1, <1>3, <1>6, Ends DEF EntryOK
    <3> QED BY <1>1, <1>8, <3>1 DEF EntryOK
  <2>4. entry'[Lo].step # "got" /\ entry'[Hi].step \notin {"new", "silent", "offered"}
    BY <1>1, <1>6, <1>8, NodeAssumption, Ends DEF EntryOK
  <2> QED BY <1>1, <1>9, <2>1, <2>2, <2>3, <2>4 DEF EntryOK
<1>14. AuthedOK'
  <2>1. ~authed[Lo] BY <1>1, <1>3, Ends DEF AuthedOK
  <2> QED BY <1>1, <1>8, <1>9, <2>1 DEF AuthedOK
<1>15. TimerIsOfOffer' BY <1>2, <1>6, <1>8, <1>10, Ends DEF TimerIsOfOffer
<1>16. NeverAgain'
  BY <1>1, <1>3, <1>6, <1>8, <1>9, NodeAssumption, Ends DEF NeverAgain
<1>17. ChannelStep
  <2>1. \A m \in Nodes : Working(m)' = Working(m) BY <1>3, <1>6, <1>8 DEF Working
  <2>2. \A m \in Nodes : (entry'[m].step = "open") = (entry[m].step = "open")
    BY <1>3, <1>6, <1>8
  <2>3. End' = End /\ Up' = Up BY <2>1, <2>2 DEF End, Up
  <2> QED BY <1>9, <2>3 DEF ChannelStep
<1> QED BY <1>11, <1>12, <1>13, <1>14, <1>15, <1>16, <1>17 DEF Inv, PeersOK

LEMMA AnswerStep == ASSUME Inv, Answer PROVE Inv' /\ ChannelStep
<1>1. EntryOK /\ AuthedOK /\ TimerIsOfOffer /\ NeverAgain BY DEF Inv, PeersOK
<1>2. entry' = [entry EXCEPT ![Hi].step = "described"] BY DEF Answer
<1>3. entry[Hi] \in Entries /\ entry[Hi].step = "got" BY <1>1, Ends DEF EntryOK, Answer
<1>4. entry[Hi].id \in Conns
  <2>1. entry[Hi].id # 0 BY <1>1, <1>3, Ends DEF EntryOK
  <2>2. entry[Hi].id \in 0..MaxConns BY <1>3 DEF Entries
  <2> QED BY <2>1, <2>2, MeshBoundAssumption DEF Conns
<1>5. PICK e \in Entries : e = [entry[Hi] EXCEPT !.step = "described"]
  BY <1>3 DEF Entries, Steps
<1>6. e.step = "described" /\ e.id = entry[Hi].id BY <1>3, <1>5 DEF Entries
<1>7. entry' = [entry EXCEPT ![Hi] = e] BY <1>1, <1>2, <1>5, Ends DEF EntryOK
<1>8. \A m \in Nodes : entry'[m] = IF m = Hi THEN e ELSE entry[m] BY <1>1, <1>7 DEF EntryOK
<1>9. UNCHANGED <<phase, gen, sockVars, timers, again, authed, left, seen, faults>>
  BY DEF Answer
<1>10. RoomsOK' BY <1>9 DEF Inv, RoomsOK, sockVars
<1>11. NetOK'
  <2>1. gen[Hi] \in 0..MaxFaults BY Ends DEF Inv, RoomsOK
  <2>2. Signal("answer", entry[Hi].id, gen[Hi]) \in Sent BY <1>4, <2>1 DEF Sent, Answers
  <2>3. Send(Hi, Signal("answer", entry[Hi].id, gen[Hi])) BY DEF Answer
  <2> QED BY <2>2, <2>3, SendTyped, Ends DEF Inv
<1>12. EntryOK'
  <2>1. entry' \in [Nodes -> Entries] BY <1>1, <1>7 DEF EntryOK
  <2>2. \A m \in Nodes : (entry'[m].id = 0) = (entry'[m].step = "none")
    <3>1. e.id # 0 /\ e.step # "none" BY <1>1, <1>3, <1>6, Ends DEF EntryOK
    <3> QED BY <1>1, <1>8, <3>1 DEF EntryOK
  <2>3. entry'[Lo].step # "got" /\ entry'[Hi].step \notin {"new", "silent", "offered"}
    BY <1>1, <1>6, <1>8, NodeAssumption, Ends DEF EntryOK
  <2> QED BY <1>1, <1>9, <2>1, <2>2, <2>3 DEF EntryOK
<1>13. AuthedOK'
  <2>1. ~authed[Hi] BY <1>1, <1>3, Ends DEF AuthedOK
  <2> QED BY <1>1, <1>8, <1>9, <2>1 DEF AuthedOK
<1>14. TimerIsOfOffer' BY <1>1, <1>8, <1>9, NodeAssumption, Ends DEF TimerIsOfOffer
<1>15. NeverAgain' BY <1>1, <1>6, <1>8, <1>9, NodeAssumption, Ends DEF NeverAgain
<1>16. ChannelStep
  <2>1. \A m \in Nodes : Working(m)' = Working(m)
    BY <1>6, <1>8, NodeAssumption, Ends DEF Working
  <2>2. \A m \in Nodes : (entry'[m].step = "open") = (entry[m].step = "open")
    BY <1>3, <1>6, <1>8
  <2>3. End' = End /\ Up' = Up BY <2>1, <2>2 DEF End, Up
  <2> QED BY <1>9, <2>3 DEF ChannelStep
<1> QED BY <1>10, <1>11, <1>12, <1>13, <1>14, <1>15, <1>16 DEF Inv, PeersOK

LEMMA SignalTaken ==
    ASSUME Inv, NEW n \in Nodes, NEW u \in Urls, net[u][n] # <<>>, Head1(n, u).type # "peers",
           net' = Taken(n, u), seen' = [seen EXCEPT ![n] = @ \cup {Head1(n, u)}]
    PROVE  /\ NetOK'
           /\ seen' \in [Nodes -> SUBSET Messages]
           /\ \A m \in Nodes : seen[m] \subseteq seen'[m]
           /\ Head1(n, u) \in seen'[n]
           /\ \/ \E c \in Conns : Head1(n, u) = Signal("offer", c, 0)
              \/ \E c \in Conns, g \in 0..MaxFaults : Head1(n, u) = Signal("answer", c, g)
<1>1. Taken(n, u) \in [Urls -> [Nodes -> Seq(Sent)]] /\ Head1(n, u) \in Sent
  BY TakenTyped DEF Inv
<1>2. Head1(n, u) \in Messages BY <1>1, SentAreMessages
<1>3. seen \in [Nodes -> SUBSET Messages] BY DEF Inv, PeersOK, NeverAgain
<1>4. seen' \in [Nodes -> SUBSET Messages] /\ \A m \in Nodes : seen[m] \subseteq seen'[m]
      /\ Head1(n, u) \in seen'[n]
  BY <1>2, <1>3
<1>5. NetOK' BY <1>1 DEF NetOK
<1>6. Head1(n, u) \notin PeerLists BY DEF PeerLists, Peers
<1>7. Head1(n, u) \in Offers \cup Answers BY <1>1, <1>6 DEF Sent
<1>8. \/ \E c \in Conns : Head1(n, u) = Signal("offer", c, 0)
      \/ \E c \in Conns, g \in 0..MaxFaults : Head1(n, u) = Signal("answer", c, g)
  BY <1>7 DEF Offers, Answers
<1> QED BY <1>4, <1>5, <1>8

LEMMA SignalFields ==
    ASSUME NEW t, NEW c, NEW g
    PROVE  Signal(t, c, g).type = t /\ Signal(t, c, g).id = c /\ Signal(t, c, g).gen = g
BY DEF Signal

(* A signal whose connection is not taken up only adds to `seen'.            *)
LEMMA SeenKeeps ==
    ASSUME PeersOK, UNCHANGED peerVars, seen' \in [Nodes -> SUBSET Messages],
           \A m \in Nodes : seen[m] \subseteq seen'[m]
    PROVE  PeersOK' /\ ChannelStep
<1>1. UNCHANGED <<entry, timers, again, authed, left>> BY DEF peerVars
<1>2. EntryOK' /\ AuthedOK' /\ TimerIsOfOffer'
  BY <1>1 DEF PeersOK, EntryOK, AuthedOK, TimerIsOfOffer
<1>3. NeverAgain' BY <1>1, Ends DEF PeersOK, NeverAgain
<1> QED BY <1>1, <1>2, <1>3, ChannelQuiet DEF PeersOK

LEMMA ReceiveOfferStep ==
    ASSUME Inv, NEW u \in Urls, ReceiveOffer(u)
    PROVE  Inv' /\ ChannelStep
<1>1. PeersOK /\ EntryOK /\ AuthedOK /\ TimerIsOfOffer /\ NeverAgain BY DEF Inv, PeersOK
<1>2. PICK m : m = Head1(Hi, u) OBVIOUS
<1>3. /\ net[u][Hi] # <<>> /\ m.type = "offer"
      /\ net' = Taken(Hi, u) /\ seen' = [seen EXCEPT ![Hi] = @ \cup {m}]
      /\ UNCHANGED <<phase, gen, sockVars, timers, again, faults>>
  BY <1>2 DEF ReceiveOffer
<1>4. /\ NetOK' /\ seen' \in [Nodes -> SUBSET Messages]
      /\ \A n \in Nodes : seen[n] \subseteq seen'[n]
      /\ m \in seen'[Hi]
      /\ \/ \E c \in Conns : m = Signal("offer", c, 0)
         \/ \E c \in Conns, g \in 0..MaxFaults : m = Signal("answer", c, g)
  <2>1. Head1(Hi, u).type # "peers" /\ seen' = [seen EXCEPT ![Hi] = @ \cup {Head1(Hi, u)}]
    BY <1>2, <1>3
  <2>2. /\ NetOK' /\ seen' \in [Nodes -> SUBSET Messages]
        /\ \A n \in Nodes : seen[n] \subseteq seen'[n]
        /\ Head1(Hi, u) \in seen'[Hi]
        /\ \/ \E c \in Conns : Head1(Hi, u) = Signal("offer", c, 0)
           \/ \E c \in Conns, g \in 0..MaxFaults : Head1(Hi, u) = Signal("answer", c, g)
    BY <1>3, <2>1, SignalTaken, Ends
  <2> QED BY <1>2, <2>2
<1>5. PICK c \in Conns : m = Signal("offer", c, 0)
  <2>1. ASSUME NEW c \in Conns, NEW g \in 0..MaxFaults, m = Signal("answer", c, g)
        PROVE  FALSE
    BY <1>3, <2>1, SignalFields
  <2> QED BY <1>4, <2>1
<1>6. RoomsOK' BY <1>3 DEF Inv, RoomsOK, sockVars
<1>7. m.id = c BY <1>5, SignalFields
<1>8. CASE ~(m \notin seen[Hi] /\ entry[Hi].id # m.id)
  <2>1. UNCHANGED peerVars BY <1>2, <1>3, <1>8 DEF ReceiveOffer, peerVars
  <2> QED BY <1>1, <1>4, <1>6, <2>1, SeenKeeps DEF Inv
<1>9. CASE m \notin seen[Hi] /\ entry[Hi].id # m.id
  <2>1. PICK e : e = Responder(c) OBVIOUS
  <2>2. entry' = [entry EXCEPT ![Hi] = e] /\ left' = LeftBy(Hi)
        /\ authed' = [authed EXCEPT ![Hi] = FALSE]
    BY <1>2, <1>7, <1>9, <2>1 DEF ReceiveOffer
  <2>3. e \in Entries /\ e.id = c /\ e.step = "got" /\ c # 0
    <3>1. c \in 0..MaxConns /\ c # 0 /\ 0 \in 0..MaxFaults
      BY MeshBoundAssumption DEF Conns
    <3> QED BY <2>1, <3>1 DEF Responder, Entries, Steps
  <2>4. \A n \in Nodes : entry'[n] = IF n = Hi THEN e ELSE entry[n]
    BY <1>1, <2>2 DEF EntryOK
  <2>5. \A n \in Nodes : left'[n] = IF n = Hi THEN (left[Hi] \cup {Working(Hi)}) \ {0} ELSE left[n]
    BY <1>1, <2>2, LeftTyped, Ends
  <2>6. Working(Hi) = entry[Hi].id BY NodeAssumption DEF Working
  <2>7. EntryOK'
    <3>1. entry' \in [Nodes -> Entries] BY <1>1, <2>2, <2>3 DEF EntryOK
    <3>2. left' \in [Nodes -> SUBSET Conns] BY <1>1, <2>2, LeftTyped, Ends
    <3>3. \A n \in Nodes : (entry'[n].id = 0) = (entry'[n].step = "none")
      BY <1>1, <2>3, <2>4 DEF EntryOK
    <3>4. entry'[Lo].step # "got" /\ entry'[Hi].step \notin {"new", "silent", "offered"}
      BY <1>1, <2>3, <2>4, NodeAssumption, Ends DEF EntryOK
    <3> QED BY <1>1, <1>3, <3>1, <3>2, <3>3, <3>4 DEF EntryOK
  <2>8. AuthedOK'
    <3>1. authed' \in [Nodes -> BOOLEAN] BY <1>1, <2>2 DEF AuthedOK
    <3>2. \A n \in Nodes : authed'[n] = IF n = Hi THEN FALSE ELSE authed[n]
      BY <1>1, <2>2 DEF AuthedOK
    <3> QED BY <1>1, <2>4, <3>1, <3>2 DEF AuthedOK
  <2>9. TimerIsOfOffer' BY <1>1, <1>3, <2>4, NodeAssumption, Ends DEF TimerIsOfOffer
  <2>10. NeverAgain'
    <3>1. \A d \in left'[Hi] \cup {entry'[Hi].id} :
              d # 0 => d \in left[Hi] \cup {entry[Hi].id} \/ d = c
      BY <2>3, <2>4, <2>5, <2>6, Ends
    <3>2. \A d \in left'[Hi] \cup {entry'[Hi].id} : d # 0 => Signal("offer", d, 0) \in seen'[Hi]
      <4> SUFFICES ASSUME NEW d \in left'[Hi] \cup {entry'[Hi].id}, d # 0
                   PROVE  Signal("offer", d, 0) \in seen'[Hi]
        OBVIOUS
      <4>1. CASE d = c BY <1>4, <1>5, <4>1
      <4>2. CASE d \in left[Hi] \cup {entry[Hi].id} BY <1>1, <1>4, <4>2, Ends DEF NeverAgain
      <4> QED BY <3>1, <4>1, <4>2
    <3>3. left'[Lo] = left[Lo] /\ entry'[Lo] = entry[Lo]
      BY <2>4, <2>5, NodeAssumption, Ends
    <3> QED BY <1>1, <1>4, <3>2, <3>3 DEF NeverAgain
  <2>11. ChannelStep
    <3>1. c \notin left[Hi] \cup {Working(Hi)}
      BY <1>1, <1>5, <1>7, <1>9, <2>3, <2>6 DEF NeverAgain
    <3>2. Working(Hi)' = c BY <2>3, <2>4, NodeAssumption, Ends DEF Working
    <3> QED BY <1>1, <2>2, <2>3, <3>1, <3>2, ChannelTakes, Ends
  <2> QED BY <1>4, <1>6, <2>7, <2>8, <2>9, <2>10, <2>11 DEF Inv, PeersOK
<1> QED BY <1>8, <1>9

LEMMA ReceiveAnswerStep ==
    ASSUME Inv, NEW u \in Urls, ReceiveAnswer(u)
    PROVE  Inv' /\ ChannelStep
<1>1. PeersOK /\ EntryOK /\ AuthedOK /\ TimerIsOfOffer /\ NeverAgain BY DEF Inv, PeersOK
<1>2. PICK m : m = Head1(Lo, u) OBVIOUS
<1>3. /\ net[u][Lo] # <<>> /\ m.type = "answer"
      /\ net' = Taken(Lo, u) /\ seen' = [seen EXCEPT ![Lo] = @ \cup {m}]
      /\ UNCHANGED <<phase, gen, sockVars, again, authed, left, faults>>
  BY <1>2 DEF ReceiveAnswer
<1>4. /\ NetOK' /\ seen' \in [Nodes -> SUBSET Messages]
      /\ \A n \in Nodes : seen[n] \subseteq seen'[n]
      /\ \/ \E c \in Conns : m = Signal("offer", c, 0)
         \/ \E c \in Conns, g \in 0..MaxFaults : m = Signal("answer", c, g)
  <2>1. Head1(Lo, u).type # "peers" /\ seen' = [seen EXCEPT ![Lo] = @ \cup {Head1(Lo, u)}]
    BY <1>2, <1>3
  <2>2. /\ NetOK' /\ seen' \in [Nodes -> SUBSET Messages]
        /\ \A n \in Nodes : seen[n] \subseteq seen'[n]
        /\ \/ \E c \in Conns : Head1(Lo, u) = Signal("offer", c, 0)
           \/ \E c \in Conns, g \in 0..MaxFaults : Head1(Lo, u) = Signal("answer", c, g)
    BY <1>3, <2>1, SignalTaken, Ends
  <2> QED BY <1>2, <2>2
<1>5. PICK c \in Conns, g \in 0..MaxFaults : m = Signal("answer", c, g)
  <2>1. ASSUME NEW c \in Conns, m = Signal("offer", c, 0) PROVE FALSE
    BY <1>3, <2>1, SignalFields
  <2> QED BY <1>4, <2>1
<1>6. RoomsOK' BY <1>3 DEF Inv, RoomsOK, sockVars
<1>7. m.id = c /\ m.gen = g BY <1>5, SignalFields
<1>8. CASE ~(m \notin seen[Lo] /\ entry[Lo].id = m.id /\ entry[Lo].step = "offered")
  <2>1. UNCHANGED peerVars BY <1>2, <1>3, <1>8 DEF ReceiveAnswer, peerVars
  <2> QED BY <1>1, <1>4, <1>6, <2>1, SeenKeeps DEF Inv
<1>9. CASE m \notin seen[Lo] /\ entry[Lo].id = m.id /\ entry[Lo].step = "offered"
  <2>1. entry' = [entry EXCEPT ![Lo].step = "described", ![Lo].with = g] /\ timers' = {}
    BY <1>2, <1>7, <1>9 DEF ReceiveAnswer
  <2>2. entry[Lo] \in Entries BY <1>1, Ends DEF EntryOK
  <2>3. PICK e : e = [entry[Lo] EXCEPT !.step = "described", !.with = g] OBVIOUS
  <2>4. e \in Entries /\ e.id = c /\ e.step = "described" /\ c # 0
    <3>1. c # 0 BY MeshBoundAssumption DEF Conns
    <3>2. entry[Lo].id = c BY <1>7, <1>9
    <3> QED BY <2>2, <2>3, <3>1, <3>2 DEF Entries, Steps
  <2>5. entry' = [entry EXCEPT ![Lo] = e] BY <1>1, <2>1, <2>3, Ends DEF EntryOK
  <2>6. \A n \in Nodes : entry'[n] = IF n = Lo THEN e ELSE entry[n]
    BY <1>1, <2>5 DEF EntryOK
  <2>7. EntryOK'
    <3>1. entry' \in [Nodes -> Entries] BY <1>1, <2>4, <2>5 DEF EntryOK
    <3>2. \A n \in Nodes : (entry'[n].id = 0) = (entry'[n].step = "none")
      BY <1>1, <2>4, <2>6 DEF EntryOK
    <3>3. entry'[Lo].step # "got" /\ entry'[Hi].step \notin {"new", "silent", "offered"}
      BY <1>1, <2>4, <2>6, NodeAssumption, Ends DEF EntryOK
    <3> QED BY <1>1, <1>3, <2>1, <3>1, <3>2, <3>3 DEF EntryOK
  <2>8. AuthedOK'
    <3>1. ~authed[Lo] BY <1>1, <1>9, Ends DEF AuthedOK
    <3> QED BY <1>1, <1>3, <2>6, <3>1 DEF AuthedOK
  <2>9. TimerIsOfOffer' BY <2>1 DEF TimerIsOfOffer
  <2>10. NeverAgain'
    <3>1. left' = left /\ entry'[Hi] = entry[Hi] BY <1>3, <2>6, NodeAssumption, Ends
    <3>2. \A d \in left'[Hi] \cup {entry'[Hi].id} : d # 0 => Signal("offer", d, 0) \in seen'[Hi]
      BY <1>1, <1>4, <3>1, Ends DEF NeverAgain
    <3> QED BY <1>4, <2>4, <2>6, <3>2, Ends DEF NeverAgain
  <2>11. ChannelStep
    <3>1. Working(Lo) = 0 BY <1>9 DEF Working
    <3>2. c \notin left[Lo] BY <1>1, <1>7, <1>9 DEF NeverAgain
    <3>3. Working(Lo)' = c BY <2>4, <2>6, Ends DEF Working
    <3>4. left' = LeftBy(Lo)
      <4>1. left[Lo] \subseteq Conns /\ 0 \notin Conns
        BY <1>1, MeshBoundAssumption, Ends DEF EntryOK, Conns
      <4>2. (left[Lo] \cup {Working(Lo)}) \ {0} = left[Lo] BY <3>1, <4>1
      <4> QED BY <1>1, <1>3, <4>2 DEF LeftBy, EntryOK
    <3> QED BY <1>1, <2>4, <2>5, <3>1, <3>2, <3>3, <3>4, ChannelTakes, Ends
  <2> QED BY <1>4, <1>6, <2>7, <2>8, <2>9, <2>10, <2>11 DEF Inv, PeersOK
<1> QED BY <1>8, <1>9

LEMMA ReceivePeersStep ==
    ASSUME Inv, NEW n \in Nodes, NEW u \in Urls, ReceivePeers(n, u)
    PROVE  Inv' /\ ChannelStep
<1>1. net[u][n] # <<>> /\ Head1(n, u).type = "peers" /\ net' = Taken(n, u)
      /\ lists' = [lists EXCEPT ![n][u] = Head1(n, u).both]
      /\ UNCHANGED <<phase, gen, sock, joined, dead, seen, faults>>
  BY DEF ReceivePeers
<1>2. Taken(n, u) \in [Urls -> [Nodes -> Seq(Sent)]] /\ Head1(n, u) \in Sent
  BY <1>1, TakenTyped DEF Inv
<1>3. NetOK' BY <1>1, <1>2 DEF NetOK
<1>4. Head1(n, u).both \in BOOLEAN
  <2>1. Head1(n, u) \in Messages BY <1>2, SentAreMessages
  <2> QED BY <2>1 DEF Messages
<1>5. lists' \in [Nodes -> [Urls -> BOOLEAN]] BY <1>1, <1>4 DEF Inv, RoomsOK
<1>6. RoomsOK' BY <1>1, <1>5 DEF Inv, RoomsOK
<1>7. PICK l, base : TryConnect(n, l, base) BY DEF ReceivePeers
<1>8. PeersOK' /\ ChannelStep BY <1>1, <1>7, TryConnectKeeps DEF Inv
<1> QED BY <1>3, <1>6, <1>8 DEF Inv
-----------------------------------------------------------------------------
(* Timers and channels. *)

LEMMA InRoomIsBoolean == ASSUME NEW l, NEW n PROVE InRoom(l, n) \in BOOLEAN
BY DEF InRoom

LEMMA RoomsStay ==
    ASSUME Inv, UNCHANGED <<phase, gen, sockVars, net>>,
           \/ UNCHANGED faults
           \/ faults < MaxFaults /\ faults' = faults + 1
    PROVE  RoomsOK' /\ NetOK'
<1>1. faults' \in 0..MaxFaults /\ \A n \in Nodes : gen[n] <= faults'
  BY OneMoreFault DEF Inv, RoomsOK
<1> QED BY <1>1 DEF Inv, RoomsOK, NetOK, sockVars

LEMMA TimerStep ==
    ASSUME Inv, NEW c \in Conns, AnswerTimeout(c)
    PROVE  Inv' /\ ChannelStep
<1>1. UNCHANGED <<phase, gen, sockVars, net, seen>> BY DEF AnswerTimeout
<1>2. UNCHANGED faults \/ (faults < MaxFaults /\ faults' = faults + 1) BY DEF AnswerTimeout
<1>3. RoomsOK' /\ NetOK' BY <1>1, <1>2, RoomsStay
<1>4. CASE entry[Lo].step \in {"none", "open"}
  <2>1. timers' = timers \ {c} /\ UNCHANGED <<entry, again, authed, left, seen>>
    BY <1>1, <1>4 DEF AnswerTimeout
  <2>2. PeersOK'
    BY <2>1 DEF Inv, PeersOK, EntryOK, AuthedOK, TimerIsOfOffer, NeverAgain
  <2> QED BY <1>3, <2>1, <2>2, ChannelQuiet DEF Inv
<1>5. CASE entry[Lo].step \notin {"none", "open"}
  <2>1. Cleanup(Lo, InRoom(lists, Lo)) BY <1>5 DEF AnswerTimeout
  <2> QED BY <1>1, <1>3, <2>1, CleanupKeeps, InRoomIsBoolean, Ends DEF Inv
<1> QED BY <1>4, <1>5

LEMMA ReconnectStep == ASSUME Inv, Reconnect PROVE Inv' /\ ChannelStep
<1>1. UNCHANGED <<phase, gen, sockVars, net, seen, faults>> BY DEF Reconnect
<1>2. RoomsOK' /\ NetOK' BY <1>1, RoomsStay
<1>3. CASE TryConnect(Lo, lists, entry[Lo])
  BY <1>1, <1>2, <1>3, TryConnectKeeps, Ends DEF Inv
<1>4. CASE again' = FALSE /\ UNCHANGED <<entry, timers, authed, left>>
  <2>1. PeersOK'
    BY <1>1, <1>4 DEF Inv, PeersOK, EntryOK, AuthedOK, TimerIsOfOffer, NeverAgain
  <2> QED BY <1>2, <1>4, <2>1, ChannelQuiet DEF Inv
<1> QED BY <1>3, <1>4 DEF Reconnect

LEMMA HealthStep == ASSUME Inv, NEW n \in Nodes, Health(n) PROVE Inv' /\ ChannelStep
<1>1. UNCHANGED <<phase, gen, sockVars, net, seen, faults>> BY DEF Health
<1>2. RoomsOK' /\ NetOK' BY <1>1, RoomsStay
<1>3. PICK base : TryConnect(n, lists, base) BY DEF Health
<1> QED BY <1>1, <1>2, <1>3, TryConnectKeeps DEF Inv

LEMMA ClosesStep == ASSUME Inv, NEW n \in Nodes, ChannelCloses(n) PROVE Inv' /\ ChannelStep
<1>1. UNCHANGED <<phase, gen, sockVars, net, seen>> BY DEF ChannelCloses
<1>2. UNCHANGED faults \/ (faults < MaxFaults /\ faults' = faults + 1) BY DEF ChannelCloses
<1>3. RoomsOK' /\ NetOK' BY <1>1, <1>2, RoomsStay
<1>4. PICK r \in BOOLEAN : Cleanup(n, r)
  <2>1. (hasOpenSignaling(n) /\ InRoom(lists, n)) \in BOOLEAN BY InRoomIsBoolean
  <2> QED BY <2>1 DEF ChannelCloses
<1> QED BY <1>1, <1>3, <1>4, CleanupKeeps DEF Inv

LEMMA OpensStep == ASSUME Inv, NEW n \in Nodes, ChannelOpens(n) PROVE Inv' /\ ChannelStep
<1>1. EntryOK /\ AuthedOK /\ TimerIsOfOffer /\ NeverAgain BY DEF Inv, PeersOK
<1>2. /\ entry[n].step = "described" /\ Described(Other(n)) /\ ~Orphaned(n)
      /\ entry' = [entry EXCEPT ![n].step = "open"]
      /\ UNCHANGED <<phase, gen, sockVars, net, timers, again, authed, left, seen, faults>>
  BY Ends DEF ChannelOpens
<1>3. RoomsOK' /\ NetOK' BY <1>2, RoomsStay
<1>4. entry[n] \in Entries BY <1>1 DEF EntryOK
<1>5. PICK e \in Entries : e = [entry[n] EXCEPT !.step = "open"] BY <1>4 DEF Entries, Steps
<1>6. e.id = entry[n].id /\ e.step = "open" BY <1>4, <1>5 DEF Entries
<1>7. entry' = [entry EXCEPT ![n] = e] BY <1>1, <1>2, <1>5 DEF EntryOK
<1>8. \A m \in Nodes : entry'[m] = IF m = n THEN e ELSE entry[m] BY <1>1, <1>7 DEF EntryOK
<1>9. entry[n].id # 0 BY <1>1, <1>2 DEF EntryOK
<1>10. EntryOK'
  <2>1. entry' \in [Nodes -> Entries] BY <1>1, <1>7 DEF EntryOK
  <2>2. \A m \in Nodes : (entry'[m].id = 0) = (entry'[m].step = "none")
    BY <1>1, <1>6, <1>8, <1>9 DEF EntryOK
  <2>3. entry'[Lo].step # "got" /\ entry'[Hi].step \notin {"new", "silent", "offered"}
    BY <1>1, <1>6, <1>8, Ends DEF EntryOK
  <2> QED BY <1>1, <1>2, <2>1, <2>2, <2>3 DEF EntryOK
<1>11. AuthedOK' BY <1>1, <1>2, <1>6, <1>8 DEF AuthedOK
<1>12. TimerIsOfOffer'
  <2>1. CASE n = Lo
    <3>1. timers = {} BY <1>1, <1>2, <2>1 DEF TimerIsOfOffer
    <3> QED BY <1>2, <3>1 DEF TimerIsOfOffer
  <2>2. CASE n # Lo BY <1>1, <1>2, <1>8, <2>2, Ends DEF TimerIsOfOffer
  <2> QED BY <2>1, <2>2
<1>13. NeverAgain' BY <1>1, <1>2, <1>6, <1>8, Ends DEF NeverAgain
<1>14. ChannelStep
  <2>1. entry[Other(n)].id = entry[n].id BY <1>2 DEF Orphaned
  <2>2. \A o \in Nodes : Working(o) = entry[n].id
    <3>1. Working(n) = entry[n].id BY <1>2 DEF Working
    <3>2. Working(Other(n)) = entry[n].id BY <1>2, <2>1 DEF Working, Described
    <3>3. \A o \in Nodes : o = n \/ o = Other(n) BY Ends, NodeAssumption DEF Other
    <3> QED BY <3>1, <3>2, <3>3
  <2>3. \A m \in Nodes : Working(m)' = Working(m) BY <1>2, <1>6, <1>8 DEF Working
  <2>4. End' = End BY <2>3 DEF End
  <2>5. Up' = [Up EXCEPT ![n] = TRUE]
    <3>1. \A m \in Nodes : (entry'[m].step = "open") = IF m = n THEN TRUE ELSE entry[m].step = "open"
      BY <1>6, <1>8
    <3> QED BY <3>1 DEF Up
  <2>6. End[n] # 0 /\ \A o \in Nodes : End[o] = End[n] BY <1>9, <2>2 DEF End
  <2> QED BY <1>2, <2>4, <2>5, <2>6 DEF ChannelStep, Channel!Next, Channel!Open, End, Up
<1> QED BY <1>3, <1>10, <1>11, <1>12, <1>13, <1>14 DEF Inv, PeersOK

LEMMA AuthStep == ASSUME Inv, NEW n \in Nodes, Authenticate(n) PROVE Inv' /\ ChannelStep
<1>1. UNCHANGED <<phase, gen, sockVars, net, seen, faults>> /\ entry[n].step = "open"
  BY DEF Authenticate
<1>2. RoomsOK' /\ NetOK' BY <1>1, RoomsStay
<1>3. CASE authed' = [authed EXCEPT ![n] = TRUE] /\ UNCHANGED <<entry, timers, again, left>>
  <2>1. AuthedOK' BY <1>1, <1>3 DEF Inv, PeersOK, AuthedOK
  <2>2. PeersOK'
    BY <1>1, <1>3, <2>1 DEF Inv, PeersOK, EntryOK, TimerIsOfOffer, NeverAgain
  <2> QED BY <1>2, <1>3, <2>2, ChannelQuiet DEF Inv
<1>4. CASE Cleanup(n, FALSE) BY <1>1, <1>2, <1>4, CleanupKeeps DEF Inv
<1> QED BY <1>3, <1>4 DEF Authenticate

LEMMA GenerationGrows ==
    ASSUME RoomsOK, NEW n \in Nodes, faults < MaxFaults, faults' = faults + 1,
           gen' = [gen EXCEPT ![n] = @ + 1]
    PROVE  /\ gen' \in [Nodes -> 0..MaxFaults]
           /\ \A m \in Nodes : gen'[m] <= faults'
           /\ faults' \in 0..MaxFaults
<1>1. faults \in 0..MaxFaults /\ gen \in [Nodes -> 0..MaxFaults] /\ \A m \in Nodes : gen[m] <= faults
  BY DEF RoomsOK
<1>2. gen[n] + 1 \in 0..MaxFaults /\ gen[n] + 1 <= faults' BY <1>1, MeshBoundAssumption
<1>3. faults' \in 0..MaxFaults /\ \A m \in Nodes : gen[m] <= faults'
  BY <1>1, MeshBoundAssumption
<1> QED BY <1>1, <1>2, <1>3

LEMMA StopStep == ASSUME Inv, NEW n \in Nodes, Stop(n) PROVE Inv' /\ ChannelStep
<1>1. RoomsOK /\ NetOK /\ EntryOK /\ AuthedOK /\ TimerIsOfOffer /\ NeverAgain
  BY DEF Inv, PeersOK
<1>2. RoomsOK'
  <2>1. /\ gen' \in [Nodes -> 0..MaxFaults] /\ \A m \in Nodes : gen'[m] <= faults'
        /\ faults' \in 0..MaxFaults
    BY <1>1, GenerationGrows DEF Stop
  <2>2. sock' \in [Nodes -> [Urls -> {"none", "first", "connecting", "open", "retry"}]]
    BY <1>1 DEF Stop, RoomsOK
  <2>3. lists' \in [Nodes -> [Urls -> BOOLEAN]] BY <1>1 DEF Stop, RoomsOK
  <2>4. dead' \in [Urls -> SUBSET Nodes] BY <1>1 DEF Stop, RoomsOK
  <2>5. phase' \in [Nodes -> {"off", "starting", "up"}] /\ joined' = joined
    BY <1>1 DEF Stop, RoomsOK
  <2> QED BY <1>1, <2>1, <2>2, <2>3, <2>4, <2>5 DEF RoomsOK
<1>3. NetOK'
  <2>1. <<>> \in Seq(Sent) OBVIOUS
  <2>2. \A u \in Urls : [net[u] EXCEPT ![n] = <<>>] \in [Nodes -> Seq(Sent)]
    BY <1>1, <2>1 DEF NetOK
  <2> QED BY <2>2 DEF Stop, NetOK
<1>4. /\ entry' = [entry EXCEPT ![n] = NoEntry] /\ left' = [left EXCEPT ![n] = {}]
      /\ authed' = [authed EXCEPT ![n] = FALSE] /\ seen' = [seen EXCEPT ![n] = {}]
      /\ timers' = (IF n = Lo THEN {} ELSE timers) /\ again' = (again /\ n # Lo)
  BY DEF Stop
<1>5. \A m \in Nodes : entry'[m] = IF m = n THEN NoEntry ELSE entry[m]
  BY <1>1, <1>4 DEF EntryOK
<1>6. \A m \in Nodes : left'[m] = IF m = n THEN {} ELSE left[m]
  BY <1>1, <1>4 DEF EntryOK
<1>7. EntryOK'
  <2>1. entry' \in [Nodes -> Entries] BY <1>1, <1>4, NoEntryTyped DEF EntryOK
  <2>2. left' \in [Nodes -> SUBSET Conns] BY <1>1, <1>4 DEF EntryOK
  <2>3. \A m \in Nodes : (entry'[m].id = 0) = (entry'[m].step = "none")
    BY <1>1, <1>5, NoEntryTyped DEF EntryOK
  <2>4. entry'[Lo].step # "got" /\ entry'[Hi].step \notin {"new", "silent", "offered"}
    BY <1>1, <1>5, NoEntryTyped, Ends DEF EntryOK
  <2>5. timers' \subseteq Conns /\ again' \in BOOLEAN BY <1>1, <1>4 DEF EntryOK
  <2> QED BY <2>1, <2>2, <2>3, <2>4, <2>5 DEF EntryOK
<1>8. AuthedOK'
  <2>1. authed' \in [Nodes -> BOOLEAN] BY <1>1, <1>4 DEF AuthedOK
  <2>2. \A m \in Nodes : authed'[m] = IF m = n THEN FALSE ELSE authed[m]
    BY <1>1, <1>4 DEF AuthedOK
  <2> QED BY <1>1, <1>5, <2>1, <2>2 DEF AuthedOK
<1>9. TimerIsOfOffer' BY <1>1, <1>4, <1>5, Ends DEF TimerIsOfOffer
<1>10. NeverAgain'
  <2>1. seen' \in [Nodes -> SUBSET Messages] BY <1>1, <1>4 DEF NeverAgain
  <2>2. \A m \in Nodes : m # n => seen'[m] = seen[m] BY <1>1, <1>4 DEF NeverAgain
  <2>3. CASE n = Lo
    <3>1. entry'[Lo].step = "none" /\ entry'[Hi] = entry[Hi] /\ left'[Hi] = left[Hi]
          /\ seen'[Hi] = seen[Hi]
      BY <1>5, <1>6, <2>2, <2>3, NoEntryTyped, NodeAssumption, Ends
    <3> QED BY <1>1, <2>1, <3>1 DEF NeverAgain
  <2>4. CASE n = Hi
    <3>1. entry'[Hi].id = 0 /\ left'[Hi] = {} /\ entry'[Lo] = entry[Lo] /\ left'[Lo] = left[Lo]
      BY <1>5, <1>6, <2>4, NoEntryTyped, NodeAssumption, Ends
    <3> QED BY <1>1, <2>1, <3>1 DEF NeverAgain
  <2> QED BY <2>3, <2>4, Ends
<1>11. ChannelStep
  <2>1. \A m \in Nodes : Working(m)' = IF m = n THEN 0 ELSE Working(m)
    BY <1>5, NoEntryTyped DEF Working
  <2>2. End' = [End EXCEPT ![n] = 0] BY <2>1 DEF End
  <2>3. \A m \in Nodes : (entry'[m].step = "open") = IF m = n THEN FALSE ELSE entry[m].step = "open"
    BY <1>5, NoEntryTyped
  <2>4. Up' = [Up EXCEPT ![n] = FALSE] BY <2>3 DEF Up
  <2> QED BY <1>4, <2>2, <2>4 DEF ChannelStep, Channel!Next, Channel!Reload, End, Up
<1> QED BY <1>2, <1>3, <1>7, <1>8, <1>9, <1>10, <1>11 DEF Inv, PeersOK
-----------------------------------------------------------------------------
LEMMA StepInv == ASSUME Inv, [Next]_vars PROVE Inv' /\ ChannelStep
<1>1. ASSUME NEW n \in Nodes, NEW u \in Urls,
             \/ Opens(n, u) \/ Fails(n, u) \/ Closes(n, u) \/ Retries(n, u)
             \/ AddUrl(n, u) \/ ServerForgets(n, u)
      PROVE  Inv' /\ ChannelStep
  <2>1. RoomsOK' /\ NetOK' BY <1>1, SocketStep
  <2>2. UNCHANGED <<peerVars, seen>>
    BY <1>1 DEF Opens, Fails, Closes, Retries, AddUrl, ServerForgets
  <2> QED BY <2>1, <2>2, Quiet, ChannelQuiet DEF Inv, peerVars
<1>2. ASSUME NEW n \in Nodes, Start(n) \/ StartEnds(n) PROVE Inv' /\ ChannelStep
  <2>1. RoomsOK' /\ NetOK' BY <1>2, StartStep
  <2>2. UNCHANGED <<peerVars, seen>> BY <1>2 DEF Start, StartEnds
  <2> QED BY <2>1, <2>2, Quiet, ChannelQuiet DEF Inv, peerVars
<1>3. CASE UNCHANGED vars
  <2>1. RoomsOK' /\ NetOK' BY <1>3, RoomsStay DEF vars
  <2>2. UNCHANGED <<peerVars, seen>> BY <1>3 DEF vars
  <2> QED BY <2>1, <2>2, Quiet, ChannelQuiet DEF Inv, peerVars
<1> QED BY <1>1, <1>2, <1>3, StopStep, HealthStep, OpensStep, ClosesStep, AuthStep,
           ReceivePeersStep, OfferStep, AnswerStep, ReconnectStep, ReceiveOfferStep,
           ReceiveAnswerStep, TimerStep DEF Next

LEMMA Inductive == Spec => []Inv
<1>1. Inv /\ [Next]_vars => Inv' BY StepInv
<1> QED BY InitInv, <1>1, PTL DEF Spec

(* Every message, entry and timer has its type; only the lower node makes    *)
(* offers, and only a peer whose channel is open is authenticated.           *)
THEOREM TypeCorrect == Spec => []TypeOK
BY Inductive, InvImpliesTypes, PTL

(* The answer timer, which looks its peer up again when it fires             *)
(* (p2p-mesh.ts:948), is always that of the connection on offer.             *)
THEOREM TimerOfOffer == Spec => []TimerIsOfOffer
<1>1. Inv => TimerIsOfOffer BY DEF Inv, PeersOK
<1> QED BY Inductive, <1>1, PTL

LEMMA ListStep ==
    ASSUME Inv, NEW n \in Nodes, NEW u \in Urls, NEW v \in Urls \ {u},
           NEW m \in Nodes, NEW w \in Urls, ReceivePeers(m, w),
           entry[n].step = "open", lists'[n][u] # lists[n][u], lists[n][v]
    PROVE  entry'[n] = entry[n]
<1>1. lists' = [lists EXCEPT ![m][w] = Head1(m, w).both] /\ lists \in [Nodes -> [Urls -> BOOLEAN]]
  BY DEF ReceivePeers, Inv, RoomsOK
<1>2. m = n /\ w = u BY <1>1
<1>3. PICK now : now = [lists EXCEPT ![n][u] = Head1(n, u).both] OBVIOUS
<1>4. InRoom(lists, n) = TRUE BY DEF InRoom
<1>5. InRoom(now, n) = TRUE
  <2>1. now[n][v] = lists[n][v] BY <1>1, <1>3
  <2> QED BY <2>1 DEF InRoom
<1>6. TryConnect(n, now, IF InRoom(lists, n) # InRoom(now, n) THEN NoEntry ELSE entry[n])
  BY <1>2, <1>3 DEF ReceivePeers
<1>7. TryConnect(n, now, entry[n]) BY <1>4, <1>5, <1>6
<1>8. entry[n] # NoEntry BY DEF NoEntry
<1> QED BY <1>7, <1>8 DEF TryConnect, peerVars

LEMMA OtherStepsKeepLists ==
    ASSUME [Next]_vars
    PROVE  \/ UNCHANGED lists
           \/ \E n \in Nodes, u \in Urls : Closes(n, u)
           \/ \E n \in Nodes : Stop(n)
           \/ \E n \in Nodes, u \in Urls : ReceivePeers(n, u)
<1>1. ASSUME NEW n \in Nodes, NEW u \in Urls,
             Opens(n, u) \/ Fails(n, u) \/ Retries(n, u) \/ AddUrl(n, u) \/ ServerForgets(n, u)
      PROVE  UNCHANGED lists
  BY <1>1 DEF Opens, Fails, Retries, AddUrl, ServerForgets
<1>2. ASSUME NEW n \in Nodes, Start(n) \/ StartEnds(n) \/ Health(n) \/ ChannelOpens(n)
                              \/ ChannelCloses(n) \/ Authenticate(n)
      PROVE  UNCHANGED lists
  BY <1>2 DEF Start, StartEnds, Health, ChannelOpens, ChannelCloses, Authenticate, sockVars
<1>3. CASE Offer \/ Answer \/ Reconnect BY <1>3 DEF Offer, Answer, Reconnect, sockVars
<1>4. ASSUME NEW u \in Urls, ReceiveOffer(u) \/ ReceiveAnswer(u) PROVE UNCHANGED lists
  BY <1>4 DEF ReceiveOffer, ReceiveAnswer, sockVars
<1>5. ASSUME NEW c \in Conns, AnswerTimeout(c) PROVE UNCHANGED lists
  BY <1>5 DEF AnswerTimeout, sockVars
<1>6. CASE UNCHANGED vars BY <1>6 DEF vars, sockVars
<1> QED BY <1>1, <1>2, <1>3, <1>4, <1>5, <1>6 DEF Next

(* However many servers there are: a list of one of them, or the loss of     *)
(* its socket, leaves an open channel alone while another one lists the peer.*)
THEOREM ChannelSurvives == Spec => ChannelOutlivesServer
<1>1. ASSUME Inv, [Next]_vars, NEW n \in Nodes, NEW u \in Urls, NEW v \in Urls \ {u},
             entry[n].step = "open", lists'[n][u] # lists[n][u], lists[n][v], phase'[n] # "off"
      PROVE  entry'[n] = entry[n]
  <2>1. CASE UNCHANGED lists BY <1>1, <2>1
  <2>2. ASSUME NEW m \in Nodes, NEW w \in Urls, Closes(m, w) PROVE entry'[n] = entry[n]
    BY <2>2 DEF Closes, peerVars
  <2>3. ASSUME NEW m \in Nodes, Stop(m) PROVE entry'[n] = entry[n]
    <3>1. /\ phase \in [Nodes -> {"off", "starting", "up"}] /\ entry \in [Nodes -> Entries]
          /\ phase' = [phase EXCEPT ![m] = "off"] /\ entry' = [entry EXCEPT ![m] = NoEntry]
      BY <1>1, <2>3 DEF Inv, RoomsOK, PeersOK, EntryOK, Stop
    <3>2. m # n BY <1>1, <3>1
    <3> QED BY <3>1, <3>2
  <2>4. ASSUME NEW m \in Nodes, NEW w \in Urls, ReceivePeers(m, w) PROVE entry'[n] = entry[n]
    BY <1>1, <2>4, ListStep
  <2> QED BY <1>1, <2>1, <2>2, <2>3, <2>4, OtherStepsKeepLists
<1>2. Inv /\ [Next]_vars =>
        [\A n \in Nodes, u \in Urls :
            /\ entry[n].step = "open"
            /\ lists'[n][u] # lists[n][u]
            /\ \E v \in Urls \ {u} : lists[n][v]
            /\ phase'[n] # "off"
            => entry'[n] = entry[n]]_vars
  BY <1>1
<1> QED BY <1>2, Inductive, PTL DEF Spec, ChannelOutlivesServer

(* The mesh implements the pair of channel ends PeerChannel promises.        *)
THEOREM ImplementsPeerChannel == Spec => ChannelSpec
<1>1. Init => Channel!Init
  <2> SUFFICES ASSUME Init PROVE Channel!Init OBVIOUS
  <2>1. \A n \in Nodes : entry[n] = NoEntry BY DEF Init
  <2>2. \A n \in Nodes : Working(n) = 0 /\ (entry[n].step = "open") = FALSE
    BY <2>1, NoEntryTyped DEF Working
  <2>3. left = [n \in Nodes |-> {}] BY DEF Init
  <2> QED BY <2>2, <2>3 DEF Channel!Init
<1>2. Inv /\ [Next]_vars => [Channel!Next]_<<End, Up, left>> BY StepInv DEF ChannelStep
<1>3. Inv /\ [Next]_vars =>
        [Channel!Next]_<<[n \in Nodes |-> Working(n)], [n \in Nodes |-> entry[n].step = "open"], left>>
  BY <1>2 DEF End, Up
<1> QED BY <1>1, <1>3, Inductive, PTL DEF Spec, ChannelSpec, Channel!Spec
===============================================================================
