------------------------------ MODULE GroupMesh ------------------------------
(***************************************************************************)
(* How two browsers of a group come to share a data channel                *)
(* (apps/web/src/lib/p2p-mesh.ts): sockets to several signaling servers,   *)
(* the peer lists they send, offers and answers relayed over every server  *)
(* both are on, the timers that retry, and what tears a channel down.      *)
(*                                                                         *)
(* A server is what SignalingRooms shows it to be: it lists the node whose *)
(* connection joined last and tells every open member of each change.  A   *)
(* connection is the id its initiator gave it; ICE candidates, which follow*)
(* an offer or an answer, belong to the RTC connection and are left to it: *)
(* once both ends have the other's description it opens or fails.          *)
(***************************************************************************)
EXTENDS Integers, Sequences

CONSTANTS
    Lo, Hi,         \* the two browsers; the lower node id makes the offers
    Urls,           \* signaling servers
    Known,          \* node -> the servers its mesh is started with
    Keyed,          \* nodes whose memberPublicKeys has the other's key
    MaxConns,       \* bound on connections
    MaxFaults       \* bound on meshes that are stopped, sockets that fail or close,
                    \* connections that break, and answer timers that are faster
                    \* than the answer

ASSUME NodeAssumption == Lo # Hi
ASSUME KnownAssumption == Known \in [{Lo, Hi} -> SUBSET Urls] /\ Keyed \subseteq {Lo, Hi}
ASSUME MeshBoundAssumption == MaxConns \in Nat /\ MaxFaults \in Nat

Nodes == {Lo, Hi}
Other(n) == IF n = Lo THEN Hi ELSE Lo
Conns == 1..MaxConns

VARIABLES
    phase,      \* node -> "off", "starting" (start awaits its sockets) or "up"
    gen,        \* node -> how many meshes it has stopped
    sock,       \* node -> url -> "none", "first" and "connecting" (the initial
                \* and a later attempt), "open", "retry" (reconnect timer armed)
    lists,      \* node -> url -> the other is in roomPeersBySignal
    joined,     \* url -> nodes the server lists
    dead,       \* url -> those of them whose close event is still queued
    net,        \* url -> node -> messages on the way to the node
    entry,      \* node -> its PeerEntry of the other
    timers,     \* connections of Lo whose answer timer is armed
    again,      \* Lo's reconnect timer is armed
    seen,       \* node -> seenSignalIds
    authed,     \* node -> the other is in `authenticated'
    faults,
    left        \* history: node -> connections its mesh has left

sockVars == <<sock, lists, joined, dead>>
peerVars == <<entry, timers, again, authed, left>>
vars == <<phase, gen, sockVars, net, peerVars, seen, faults>>

NoEntry == [id |-> 0, step |-> "none", with |-> 0]
Steps == {"none", "new", "silent", "offered", "got", "described", "open"}
Peers(b) == [type |-> "peers", id |-> 0, gen |-> 0, both |-> b]
Signal(type, c, g) == [type |-> type, id |-> c, gen |-> g, both |-> FALSE]
Messages == [type : {"peers", "offer", "answer"}, id : 0..MaxConns, gen : 0..MaxFaults, both : BOOLEAN]
Entries == [id : 0..MaxConns, step : Steps, with : 0..MaxFaults]

Init ==
    /\ phase = [n \in Nodes |-> "off"]
    /\ gen = [n \in Nodes |-> 0]
    /\ sock = [n \in Nodes |-> [u \in Urls |-> "none"]]
    /\ lists = [n \in Nodes |-> [u \in Urls |-> FALSE]]
    /\ joined = [u \in Urls |-> {}]
    /\ dead = [u \in Urls |-> {}]
    /\ net = [u \in Urls |-> [n \in Nodes |-> <<>>]]
    /\ entry = [n \in Nodes |-> NoEntry]
    /\ timers = {} /\ again = FALSE
    /\ seen = [n \in Nodes |-> {}]
    /\ authed = [n \in Nodes |-> FALSE]
    /\ faults = 0
    /\ left = [n \in Nodes |-> {}]

hasOpenSignaling(n) == \E u \in Urls : sock[n][u] = "open"
InRoom(l, n) == \E u \in Urls : l[n][u]     \* n has the other in currentRoomPeers
-----------------------------------------------------------------------------
(* Connections *)

(* The other browser has or may still get something of connection c.       *)
Heard(c) ==
    \/ entry[Hi].id = c \/ \E m \in seen[Hi] : m.id = c
    \/ \E u \in Urls, n \in Nodes : \E i \in DOMAIN net[u][n] : net[u][n][i].id = c

(* createConnectionId gives an id that is new to everyone.  An id of which *)
(* nobody has heard, and which went with its entry, is as good as new, so  *)
(* that attempts to reach nobody do not use up the ids.                    *)
Fresh == {c \in Conns : ~Heard(c) /\ c \notin left[Lo] \cup {entry[Lo].id}}
NewId == CHOOSE c \in Fresh : TRUE

(* The connection n works on; the initiator once it has an answer.         *)
Working(n) ==
    IF n = Lo /\ entry[n].step \in {"new", "silent", "offered"} THEN 0 ELSE entry[n].id

LeftBy(n) == [left EXCEPT ![n] = (@ \cup {Working(n)}) \ {0}]

(* Mutant: an entry is dropped with its answer timer still running.        *)
CleanupKeepsTimer(n, rearm) ==
    /\ entry' = [entry EXCEPT ![n] = NoEntry]
    /\ again' = IF n = Lo THEN rearm ELSE again
    /\ authed' = [authed EXCEPT ![n] = FALSE]
    /\ left' = LeftBy(n)
    /\ UNCHANGED timers

(* cleanupPeer, then what the caller does with the reconnect timer.        *)
Cleanup(n, rearm) ==
    /\ entry' = [entry EXCEPT ![n] = NoEntry]
    /\ timers' = IF n = Lo THEN {} ELSE timers
    /\ again' = IF n = Lo THEN rearm ELSE again
    /\ authed' = [authed EXCEPT ![n] = FALSE]
    /\ left' = LeftBy(n)

(* tryConnectPeer and connectPeer, with l the lists and base the entry of  *)
(* this moment; only the initiator makes an entry of its own accord.       *)
TryConnect(n, l, base) ==
    IF n = Lo /\ InRoom(l, n) /\ hasOpenSignaling(n) /\ base = NoEntry /\ Fresh # {}
    THEN /\ entry' = [entry EXCEPT ![n] = [id |-> NewId, step |-> "new", with |-> 0]]
         /\ timers' = {} /\ again' = FALSE
         /\ authed' = [authed EXCEPT ![n] = FALSE]
         /\ left' = LeftBy(n)
    ELSE IF base = entry[n] THEN UNCHANGED peerVars ELSE Cleanup(n, FALSE)

(* The other end of n's connection is gone for good.                       *)
Orphaned(n) ==
    LET o == Other(n) IN
    /\ entry[n].step \in {"described", "open"}
    /\ \/ entry[o].id # entry[n].id
       \/ n = Lo /\ entry[n].with # gen[Hi]

Described(n) == entry[n].step \in {"described", "open"}
-----------------------------------------------------------------------------
(* Signaling sockets *)

(* The server tells every member with an open connection who is there.     *)
Told(queues, u, j, d) ==
    [queues EXCEPT ![u] = [n \in Nodes |->
        IF n \in j \ d THEN Append(queues[u][n], Peers(j = Nodes)) ELSE queues[u][n]]]

(* start: one attempt per URL, all at once.                                *)
Start(n) ==
    /\ phase[n] = "off"
    /\ phase' = [phase EXCEPT ![n] = "starting"]
    /\ sock' = [sock EXCEPT ![n] = [u \in Urls |-> IF u \in Known[n] THEN "first" ELSE "none"]]
    /\ UNCHANGED <<gen, lists, joined, dead, net, peerVars, seen, faults>>

(* When the last first attempt has ended: up if one of them succeeded; a   *)
(* start that fails leaves nothing running.                                *)
StartEnds(n) ==
    /\ phase[n] = "starting"
    /\ \A u \in Urls : sock[n][u] # "first"
    /\ phase' = [phase EXCEPT ![n] = IF \A u \in Urls : sock[n][u] = "none" THEN "off" ELSE "up"]
    /\ UNCHANGED <<gen, sockVars, net, peerVars, seen, faults>>

Opens(n, u) ==
    LET j == joined[u] \cup {n}
        d == dead[u] \ {n}
    IN  /\ sock[n][u] \in {"first", "connecting"}
        /\ sock' = [sock EXCEPT ![n][u] = "open"]
        /\ joined' = [joined EXCEPT ![u] = j]
        /\ dead' = [dead EXCEPT ![u] = d]
        /\ net' = Told(net, u, j, d)
        /\ UNCHANGED <<phase, gen, lists, peerVars, seen, faults>>

(* An attempt fails; only a later one schedules the next.                  *)
Fails(n, u) ==
    /\ sock[n][u] \in {"first", "connecting"} /\ faults < MaxFaults
    /\ sock' = [sock EXCEPT ![n][u] = IF @ = "first" THEN "none" ELSE "retry"]
    /\ faults' = faults + 1
    /\ UNCHANGED <<phase, gen, lists, joined, dead, net, peerVars, seen>>

(* onclose: the socket's list goes, without anyone being cleaned up.       *)
Closes(n, u) ==
    /\ sock[n][u] = "open" /\ faults < MaxFaults
    /\ sock' = [sock EXCEPT ![n][u] = "retry"]
    /\ lists' = [lists EXCEPT ![n][u] = FALSE]
    /\ dead' = [dead EXCEPT ![u] = @ \cup {n}]
    /\ net' = [net EXCEPT ![u][n] = <<>>]
    /\ faults' = faults + 1
    /\ UNCHANGED <<phase, gen, joined, peerVars, seen>>

Retries(n, u) ==
    /\ sock[n][u] = "retry"
    /\ sock' = [sock EXCEPT ![n][u] = "connecting"]
    /\ UNCHANGED <<phase, gen, lists, joined, dead, net, peerVars, seen, faults>>

(* addSignalingUrls on the running mesh: the one way back for a URL whose  *)
(* first attempt failed, too.  A URL that has a socket is left alone.      *)
AddUrl(n, u) ==
    /\ phase[n] = "up" /\ sock[n][u] = "none"
    /\ sock' = [sock EXCEPT ![n][u] = "connecting"]
    /\ UNCHANGED <<phase, gen, lists, joined, dead, net, peerVars, seen, faults>>

(* The server's close event of a connection that is still listed.          *)
ServerForgets(n, u) ==
    /\ n \in dead[u]
    /\ joined' = [joined EXCEPT ![u] = @ \ {n}]
    /\ dead' = [dead EXCEPT ![u] = @ \ {n}]
    /\ net' = Told(net, u, joined[u] \ {n}, dead[u] \ {n})
    /\ UNCHANGED <<phase, gen, sock, lists, peerVars, seen, faults>>

(* stop, or the page goes: the mesh is gone and a new one may start.       *)
Stop(n) ==
    /\ phase[n] # "off" /\ faults < MaxFaults
    /\ phase' = [phase EXCEPT ![n] = "off"]
    /\ gen' = [gen EXCEPT ![n] = @ + 1]
    /\ sock' = [sock EXCEPT ![n] = [u \in Urls |-> "none"]]
    /\ lists' = [lists EXCEPT ![n] = [u \in Urls |-> FALSE]]
    /\ dead' = [u \in Urls |-> IF sock[n][u] = "open" THEN dead[u] \cup {n} ELSE dead[u]]
    /\ net' = [u \in Urls |-> [net[u] EXCEPT ![n] = <<>>]]
    /\ entry' = [entry EXCEPT ![n] = NoEntry]
    /\ timers' = IF n = Lo THEN {} ELSE timers
    /\ again' = (again /\ n # Lo)
    /\ authed' = [authed EXCEPT ![n] = FALSE]
    /\ left' = [left EXCEPT ![n] = {}]
    /\ seen' = [seen EXCEPT ![n] = {}]
    /\ faults' = faults + 1
    /\ UNCHANGED joined
-----------------------------------------------------------------------------
(* Peer lists and signals *)

Head1(n, u) == Head(net[u][n])
Taken(n, u) == [net EXCEPT ![u][n] = Tail(@)]

(* Mutant: a list is compared with the last one of the same server.        *)
PeersOfOneServer(n, u) ==
    LET now == [lists EXCEPT ![n][u] = Head1(n, u).both]
        base == IF lists[n][u] # now[n][u] THEN NoEntry ELSE entry[n]
    IN  /\ net[u][n] # <<>> /\ Head1(n, u).type = "peers"
        /\ net' = Taken(n, u)
        /\ lists' = now
        /\ TryConnect(n, now, base)
        /\ UNCHANGED <<phase, gen, sock, joined, dead, seen, faults>>

(* A "peers" message: whoever left the room or is new in it is cleaned up, *)
(* and whoever is in it is connected to.                                   *)
ReceivePeers(n, u) ==
    LET now == [lists EXCEPT ![n][u] = Head1(n, u).both]
        base == IF InRoom(lists, n) # InRoom(now, n) THEN NoEntry ELSE entry[n]
    IN  /\ net[u][n] # <<>> /\ Head1(n, u).type = "peers"
        /\ net' = Taken(n, u)
        /\ lists' = now
        /\ TryConnect(n, now, base)
        /\ UNCHANGED <<phase, gen, sock, joined, dead, seen, faults>>

(* signalingSocketsForPeer: the servers that list the peer, else all open. *)
SocketsFor(n) ==
    LET open == {u \in Urls : sock[n][u] = "open"}
        good == {u \in open : lists[n][u]}
    IN  IF good # {} THEN good ELSE open

(* sendSignal: over each of them; a server drops it if the other is gone.  *)
Send(n, m) ==
    net' = [u \in Urls |->
        IF u \in SocketsFor(n) /\ Other(n) \in joined[u] \ dead[u]
        THEN [net[u] EXCEPT ![Other(n)] = Append(@, m)] ELSE net[u]]

(* Mutant: no timer waits for the answer.                                  *)
OfferWithoutTimer ==
    /\ entry[Lo].step = "new"
    /\ Send(Lo, Signal("offer", entry[Lo].id, 0))
    /\ entry' = [entry EXCEPT ![Lo].step = IF SocketsFor(Lo) = {} THEN "silent" ELSE "offered"]
    /\ UNCHANGED <<phase, gen, sockVars, timers, again, authed, left, seen, faults>>

(* The offer is ready; without a socket it is lost and no timer is armed.  *)
Offer ==
    /\ entry[Lo].step = "new"
    /\ Send(Lo, Signal("offer", entry[Lo].id, 0))
    /\ entry' = [entry EXCEPT ![Lo].step = IF SocketsFor(Lo) = {} THEN "silent" ELSE "offered"]
    /\ timers' = IF SocketsFor(Lo) = {} THEN timers ELSE timers \cup {entry[Lo].id}
    /\ UNCHANGED <<phase, gen, sockVars, again, authed, left, seen, faults>>

Responder(c) == [id |-> c, step |-> "got", with |-> 0]

(* Mutant: a signal that comes over a second server is taken again.        *)
ReceiveOfferAgain(u) ==
    LET m == Head1(Hi, u) IN
    /\ net[u][Hi] # <<>> /\ m.type = "offer"
    /\ net' = Taken(Hi, u)
    /\ seen' = [seen EXCEPT ![Hi] = @ \cup {m}]
    /\ IF entry[Hi].id # m.id
       THEN /\ entry' = [entry EXCEPT ![Hi] = Responder(m.id)]
            /\ authed' = [authed EXCEPT ![Hi] = FALSE]
            /\ left' = LeftBy(Hi)
       ELSE UNCHANGED <<entry, authed, left>>
    /\ UNCHANGED <<phase, gen, sockVars, timers, again, faults>>

(* An offer of another connection replaces what is there; one that was     *)
(* seen already, over another server, is dropped.                          *)
ReceiveOffer(u) ==
    LET m == Head1(Hi, u) IN
    /\ net[u][Hi] # <<>> /\ m.type = "offer"
    /\ net' = Taken(Hi, u)
    /\ seen' = [seen EXCEPT ![Hi] = @ \cup {m}]
    /\ IF m \notin seen[Hi] /\ entry[Hi].id # m.id
       THEN /\ entry' = [entry EXCEPT ![Hi] = Responder(m.id)]
            /\ authed' = [authed EXCEPT ![Hi] = FALSE]
            /\ left' = LeftBy(Hi)
       ELSE UNCHANGED <<entry, authed, left>>
    /\ UNCHANGED <<phase, gen, sockVars, timers, again, faults>>

Answer ==
    /\ entry[Hi].step = "got"
    /\ Send(Hi, Signal("answer", entry[Hi].id, gen[Hi]))
    /\ entry' = [entry EXCEPT ![Hi].step = "described"]
    /\ UNCHANGED <<phase, gen, sockVars, timers, again, authed, left, seen, faults>>

(* An answer counts for the connection it names, and stops its timer; a    *)
(* second one, which a reloaded responder may send, is refused by WebRTC.  *)
ReceiveAnswer(u) ==
    LET m == Head1(Lo, u) IN
    /\ net[u][Lo] # <<>> /\ m.type = "answer"
    /\ net' = Taken(Lo, u)
    /\ seen' = [seen EXCEPT ![Lo] = @ \cup {m}]
    /\ IF m \notin seen[Lo] /\ entry[Lo].id = m.id /\ entry[Lo].step = "offered"
       THEN /\ entry' = [entry EXCEPT ![Lo].step = "described", ![Lo].with = m.gen]
            /\ timers' = {}
       ELSE UNCHANGED <<entry, timers>>
    /\ UNCHANGED <<phase, gen, sockVars, again, authed, left, faults>>
-----------------------------------------------------------------------------
(* Timers and channels *)

(* Something of connection c that leads to its answer is still on its way. *)
AnswerDue(c) ==
    \/ entry[Hi].id = c /\ entry[Hi].step = "got"
    \/ \E u \in Urls, n \in Nodes : \E i \in DOMAIN net[u][n] :
           net[u][n][i].type \in {"offer", "answer"} /\ net[u][n][i].id = c

(* ANSWER_TIMEOUT_MS of the timer armed for c: it looks the peer up again  *)
(* and gives up whatever it finds, unless that is open.                    *)
AnswerTimeout(c) ==
    /\ c \in timers
    /\ AnswerDue(c) => faults < MaxFaults
    /\ faults' = IF AnswerDue(c) THEN faults + 1 ELSE faults
    /\ IF entry[Lo].step \in {"none", "open"}
       THEN timers' = timers \ {c} /\ UNCHANGED <<entry, again, authed, left>>
       ELSE Cleanup(Lo, InRoom(lists, Lo))
    /\ UNCHANGED <<phase, gen, sockVars, net, seen>>

(* RECONNECT timer of 250 ms after a drop or an unanswered offer.          *)
Reconnect ==
    /\ again
    /\ IF InRoom(lists, Lo) /\ hasOpenSignaling(Lo) /\ entry[Lo] = NoEntry /\ Fresh # {}
       THEN TryConnect(Lo, lists, entry[Lo])
       ELSE again' = FALSE /\ UNCHANGED <<entry, timers, authed, left>>
    /\ UNCHANGED <<phase, gen, sockVars, net, seen, faults>>

(* runHealthCheck: a channel that has been silent is given up, then        *)
(* whoever is in the room is connected to.                                 *)
Health(n) ==
    LET base == IF entry[n].step = "open" /\ Orphaned(n) THEN NoEntry ELSE entry[n]
    IN  /\ phase[n] = "up"
        /\ TryConnect(n, lists, base)
        /\ UNCHANGED <<phase, gen, sockVars, net, seen, faults>>

ChannelOpens(n) ==
    /\ entry[n].step = "described" /\ Described(Other(n)) /\ ~Orphaned(Lo) /\ ~Orphaned(Hi)
    /\ entry' = [entry EXCEPT ![n].step = "open"]
    /\ UNCHANGED <<phase, gen, sockVars, net, timers, again, authed, left, seen, faults>>

(* "close": ICE gave up, or the other end is gone.                         *)
ChannelCloses(n) ==
    /\ \/ Orphaned(n) /\ UNCHANGED faults
       \/ Described(n) /\ ~Orphaned(n) /\ faults < MaxFaults /\ faults' = faults + 1
    /\ Cleanup(n, hasOpenSignaling(n) /\ InRoom(lists, n))
    /\ UNCHANGED <<phase, gen, sockVars, net, seen>>

(* The other's AuthEnvelope: without its key the peer is cleaned up.       *)
Authenticate(n) ==
    /\ ~authed[n]
    /\ \A o \in Nodes : entry[o].step = "open" /\ ~Orphaned(o)
    /\ IF n \in Keyed
       THEN authed' = [authed EXCEPT ![n] = TRUE] /\ UNCHANGED <<entry, timers, again, left>>
       ELSE Cleanup(n, FALSE)
    /\ UNCHANGED <<phase, gen, sockVars, net, seen, faults>>

Next ==
    \/ \E n \in Nodes :
          \/ Start(n) \/ StartEnds(n) \/ Stop(n) \/ Health(n)
          \/ ChannelOpens(n) \/ ChannelCloses(n) \/ Authenticate(n)
          \/ \E u \in Urls :
                \/ Opens(n, u) \/ Fails(n, u) \/ Closes(n, u) \/ Retries(n, u)
                \/ AddUrl(n, u) \/ ServerForgets(n, u) \/ ReceivePeers(n, u)
    \/ Offer \/ Answer \/ Reconnect
    \/ \E u \in Urls : ReceiveOffer(u) \/ ReceiveAnswer(u)
    \/ \E c \in Conns : AnswerTimeout(c)

Spec == Init /\ [][Next]_vars

(* Timers fire, sockets settle, servers and WebRTC deliver; what users do, *)
(* faults and an early answer timer are never owed.                        *)
Fairness ==
    /\ \A n \in Nodes :
          /\ WF_vars(StartEnds(n)) /\ WF_vars(Health(n)) /\ WF_vars(ChannelOpens(n))
          /\ WF_vars(Orphaned(n) /\ ChannelCloses(n)) /\ WF_vars(Authenticate(n))
          /\ \A u \in Urls :
                /\ WF_vars(Opens(n, u)) /\ WF_vars(Retries(n, u))
                /\ WF_vars(ServerForgets(n, u)) /\ WF_vars(ReceivePeers(n, u))
    /\ WF_vars(Offer) /\ WF_vars(Answer) /\ WF_vars(Reconnect)
    /\ \A u \in Urls : WF_vars(ReceiveOffer(u)) /\ WF_vars(ReceiveAnswer(u))
    /\ \A c \in Conns : WF_vars(~AnswerDue(c) /\ AnswerTimeout(c))

FairSpec == Spec /\ Fairness
-----------------------------------------------------------------------------
(* Only the lower node makes offers, and only a peer whose channel is open *)
(* is in `authenticated'.                                                  *)
TypeOK ==
    /\ phase \in [Nodes -> {"off", "starting", "up"}]
    /\ gen \in [Nodes -> 0..MaxFaults]
    /\ sock \in [Nodes -> [Urls -> {"none", "first", "connecting", "open", "retry"}]]
    /\ lists \in [Nodes -> [Urls -> BOOLEAN]]
    /\ joined \in [Urls -> SUBSET Nodes] /\ dead \in [Urls -> SUBSET Nodes]
    /\ net \in [Urls -> [Nodes -> Seq(Messages)]]
    /\ entry \in [Nodes -> Entries]
    /\ \A n \in Nodes : (entry[n].id = 0) = (entry[n].step = "none")
    /\ entry[Lo].step # "got" /\ entry[Hi].step \notin {"new", "silent", "offered"}
    /\ \A n \in Nodes : authed[n] => entry[n].step = "open"
    /\ timers \subseteq Conns /\ again \in BOOLEAN
    /\ seen \in [Nodes -> SUBSET Messages]
    /\ authed \in [Nodes -> BOOLEAN]
    /\ faults \in 0..MaxFaults
    /\ left \in [Nodes -> SUBSET Conns]

(* The answer timer that is armed belongs to the connection being offered: *)
(* although it looks its peer up again when it fires, it never gives up a  *)
(* newer attempt.                                                          *)
TimerIsOfOffer == \A c \in timers : entry[Lo].id = c /\ entry[Lo].step = "offered"

(* Losing one signaling server, or getting its list anew, never tears down *)
(* an open channel to a peer that another server still lists.              *)
ChannelOutlivesServer ==
    [][\A n \in Nodes, u \in Urls :
          /\ entry[n].step = "open"
          /\ lists'[n][u] # lists[n][u]
          /\ \E v \in Urls \ {u} : lists[n][v]
          /\ phase'[n] # "off"
          => entry'[n] = entry[n]]_vars

(* The mesh implements the abstract pair of channel ends.                  *)
Channel == INSTANCE PeerChannel WITH
    Ids <- Conns, NoId <- 0,
    end <- [n \in Nodes |-> Working(n)],
    up <- [n \in Nodes |-> entry[n].step = "open"]
ChannelSpec == Channel!Spec

(* Once both meshes stay up with a server they both keep trying, and       *)
(* faults have ended, the pair gets a channel on which both ends           *)
(* authenticated each other, and keeps it.                                 *)
Reachable ==
    /\ \A n \in Nodes : phase[n] = "up"
    /\ \E u \in Urls : \A n \in Nodes : sock[n][u] # "none"
Linked == \A n \in Nodes : entry[n].step = "open" /\ entry[n].id = entry[Lo].id /\ authed[n]
PeersMeet == <>[]Reachable => <>[]Linked
==============================================================================
