----------------------------- MODULE MeshContext -----------------------------
(***************************************************************************)
(* Which mesh runs while a user moves between group pages: the effect of   *)
(* GroupPage.tsx that starts and stops the mesh, the one active mesh of    *)
(* lib/mesh-context.ts with its token, the first sockets of each mesh, and *)
(* the signaling servers these sockets meet (SignalingRooms).  Every call  *)
(* of the effect is a run of its own, with a mesh of its own; whatever     *)
(* follows an await is a later step.  How an open mesh keeps its sockets   *)
(* and finds its peers is in GroupMesh.                                    *)
(***************************************************************************)
EXTENDS Integers

CONSTANTS
    MaxRuns,       \* bound on the calls of the effect
    MaxFailures,   \* bound on requests and connection attempts that fail
    Group,         \* run -> the group its page shows
    Urls,          \* signaling servers
    Default,       \* the server every mesh uses (defaultSignalingUrl)
    Me             \* this browser's node id

Runs == 1..MaxRuns
ASSUME RunAssumption == MaxRuns \in Nat /\ MaxFailures \in Nat /\ DOMAIN Group = Runs
ASSUME DefaultAssumption == Default \in Urls
ASSUME NodeAssumption == Me # 0

VARIABLES
    \* the page
    current,       \* the run whose effect is mounted; 0 away from group pages
    known,         \* meshSignalingUrls: servers the page has learned of
    pc,            \* run -> "new", "listing" (awaits listMembers), "starting"
                   \* (awaits startGroupMesh) or "over"
    aborted,       \* run -> its effect was cleaned up
    owned,         \* run -> ownsStartedMesh
    failures,
    \* mesh-context
    active,        \* the run whose mesh is active; 0 for null
    activeToken,   \* the run whose token equals activeToken; 0 when it moved on
    \* the meshes
    mesh,          \* run -> "none", "starting", "up" or "stopped"
    sock,          \* run -> url -> "none", "first" (start waits for it), "later",
                   \* "open", "failed" or "closed"
    \* the servers
    conn, nodeId, rooms, members, view

pageVars == <<current, known, pc, aborted, owned, failures>>
contextVars == <<active, activeToken>>
meshVars == <<mesh, sock>>
serverVars == <<conn, nodeId, rooms, members, view>>
vars == <<pageVars, contextVars, meshVars, serverVars>>

Groups == {Group[e] : e \in Runs}

NoSocket == <<0, Default>>

(* The servers have nothing in common: a room of one is a room with its    *)
(* url, which only sockets to that url join.                               *)
Servers == INSTANCE SignalingRooms WITH
    Clients <- Runs \X Urls, Nodes <- {Me}, Rooms <- Urls \X Groups,
    Identities <- [c \in Runs \X Urls |-> {Me}],
    NoClient <- NoSocket, NoNode <- 0, relayed <- {}

Init ==
    /\ current = 0 /\ known = {Default}
    /\ pc = [e \in Runs |-> "new"]
    /\ aborted = [e \in Runs |-> FALSE]
    /\ owned = [e \in Runs |-> FALSE]
    /\ failures = 0
    /\ active = 0 /\ activeToken = 0
    /\ mesh = [e \in Runs |-> "none"]
    /\ sock = [e \in Runs |-> [u \in Urls |-> "none"]]
    /\ Servers!Init
-----------------------------------------------------------------------------
(* mesh-context.ts *)

(* The sockets of run e after mesh.stop(): the open ones are closed.       *)
Stopped(e) == [u \in Urls |-> IF sock[e][u] = "open" THEN "closed" ELSE "none"]

StopMesh(e) ==
    IF e = 0 THEN UNCHANGED meshVars
    ELSE /\ mesh' = [mesh EXCEPT ![e] = "stopped"]
         /\ sock' = [sock EXCEPT ![e] = Stopped(e)]

(* stopGroupMesh with the token of run e: does nothing unless it is the    *)
(* active one.                                                             *)
stopGroupMesh(e) ==
    IF e # activeToken THEN UNCHANGED <<contextVars, meshVars>>
    ELSE /\ StopMesh(active)
         /\ active' = 0
         /\ activeToken' = 0

First(e) == [u \in Urls |-> IF u \in known THEN "first" ELSE "none"]

(* startGroupMesh up to its await: an active mesh for the same group is    *)
(* handed out; any other is stopped, and the new one starts its sockets.   *)
startGroupMesh(e) ==
    IF active # 0 /\ Group[active] = Group[e]
    THEN /\ pc' = [pc EXCEPT ![e] = "over"]
         /\ UNCHANGED <<contextVars, meshVars>>
    ELSE LET stopped == IF active = 0 THEN mesh ELSE [mesh EXCEPT ![active] = "stopped"]
             closed == IF active = 0 THEN sock ELSE [sock EXCEPT ![active] = Stopped(active)]
         IN  /\ mesh' = [stopped EXCEPT ![e] = "starting"]
             /\ sock' = [closed EXCEPT ![e] = First(e)]
             /\ active' = 0
             /\ activeToken' = e
             /\ pc' = [pc EXCEPT ![e] = "starting"]
-----------------------------------------------------------------------------
(* The page *)

(* Mutant: the effect only marks itself as cleaned up.                     *)
CleanupKeepsMesh ==
    /\ aborted' = [e \in Runs |-> aborted[e] \/ e = current]
    /\ UNCHANGED <<contextVars, meshVars>>

(* The cleanup of the mounted effect.                                      *)
Cleanup ==
    /\ aborted' = [e \in Runs |-> aborted[e] \/ e = current]
    /\ IF current # 0 /\ owned[current] THEN stopGroupMesh(current)
       ELSE UNCHANGED <<contextVars, meshVars>>

(* The effect runs anew: a page opens, the user retries, another group or  *)
(* another control plane is shown.                                         *)
Run(e) ==
    /\ pc[e] = "new" /\ \A d \in Runs : d < e => pc[d] # "new"
    /\ Cleanup
    /\ current' = e
    /\ pc' = [pc EXCEPT ![e] = "listing"]
    /\ UNCHANGED <<known, owned, failures, serverVars>>

LeavePage ==
    /\ current # 0
    /\ Cleanup
    /\ current' = 0
    /\ UNCHANGED <<known, pc, owned, failures, serverVars>>

(* The settings page, where no effect is mounted, dissolves a group and    *)
(* stops whatever is active; it matters only to a mesh that still starts.  *)
Dissolve ==
    /\ current = 0 /\ activeToken # 0
    /\ stopGroupMesh(activeToken)
    /\ UNCHANGED <<pageVars, serverVars>>

(* Mutant: the effect does not look whether it was cleaned up meanwhile.   *)
MembersIgnoresAbort(e) ==
    /\ pc[e] = "listing"
    /\ startGroupMesh(e)
    /\ UNCHANGED <<current, known, aborted, owned, failures, serverVars>>

(* listMembers answers; the effect may have been cleaned up meanwhile.     *)
Members(e) ==
    /\ pc[e] = "listing"
    /\ IF aborted[e]
       THEN pc' = [pc EXCEPT ![e] = "over"] /\ UNCHANGED <<contextVars, meshVars>>
       ELSE startGroupMesh(e)
    /\ UNCHANGED <<current, known, aborted, owned, failures, serverVars>>

MembersFail(e) ==
    /\ pc[e] = "listing" /\ failures < MaxFailures
    /\ failures' = failures + 1
    /\ pc' = [pc EXCEPT ![e] = "over"]
    /\ UNCHANGED <<current, known, aborted, owned, contextVars, meshVars, serverVars>>

Settled(e) == pc[e] = "starting" /\ \A u \in Urls : sock[e][u] # "first"

(* Mutant: a superseded mesh takes over, and no stop has its token.        *)
StartedTakesOver(e) ==
    /\ Settled(e) /\ \E u \in Urls : sock[e][u] = "open"
    /\ pc' = [pc EXCEPT ![e] = "over"]
    /\ owned' = [owned EXCEPT ![e] = TRUE]
    /\ IF activeToken = e /\ aborted[e]
       THEN /\ mesh' = [mesh EXCEPT ![e] = "stopped"]
            /\ sock' = [sock EXCEPT ![e] = Stopped(e)]
            /\ active' = 0 /\ activeToken' = 0
       ELSE /\ mesh' = [mesh EXCEPT ![e] = "up"]
            /\ active' = e
            /\ UNCHANGED <<activeToken, sock>>
    /\ UNCHANGED <<current, known, aborted, failures, serverVars>>

(* mesh.start() is fulfilled, startGroupMesh returns, and the effect goes  *)
(* on, with nothing in between: a superseded mesh is stopped by the one,   *)
(* the mesh of a cleaned-up effect by the other.                           *)
Started(e) ==
    /\ Settled(e) /\ \E u \in Urls : sock[e][u] = "open"
    /\ pc' = [pc EXCEPT ![e] = "over"]
    /\ IF activeToken # e \/ aborted[e]
       THEN /\ mesh' = [mesh EXCEPT ![e] = "stopped"]
            /\ sock' = [sock EXCEPT ![e] = Stopped(e)]
            /\ owned' = [owned EXCEPT ![e] = activeToken = e]
            /\ active' = IF activeToken = e THEN 0 ELSE active
            /\ activeToken' = IF activeToken = e THEN 0 ELSE activeToken
       ELSE /\ mesh' = [mesh EXCEPT ![e] = "up"]
            /\ active' = e
            /\ owned' = [owned EXCEPT ![e] = TRUE]
            /\ UNCHANGED <<activeToken, sock>>
    /\ UNCHANGED <<current, known, aborted, failures, serverVars>>

(* Mutant: a start that fails moves the token on, whoever has it.          *)
StartFailsMovesToken(e) ==
    /\ Settled(e) /\ \A u \in Urls : sock[e][u] # "open"
    /\ pc' = [pc EXCEPT ![e] = "over"]
    /\ mesh' = [mesh EXCEPT ![e] = "none"]
    /\ sock' = [sock EXCEPT ![e] = [u \in Urls |-> "none"]]
    /\ activeToken' = 0
    /\ UNCHANGED <<current, known, aborted, owned, failures, active, serverVars>>

(* No server could be reached; the mesh is dropped as it is.               *)
StartFails(e) ==
    /\ Settled(e) /\ \A u \in Urls : sock[e][u] # "open"
    /\ pc' = [pc EXCEPT ![e] = "over"]
    /\ mesh' = [mesh EXCEPT ![e] = "none"]
    /\ sock' = [sock EXCEPT ![e] = [u \in Urls |-> "none"]]
    /\ activeToken' = IF activeToken = e THEN 0 ELSE activeToken
    /\ UNCHANGED <<current, known, aborted, owned, failures, active, serverVars>>

(* Discovery has a new server, which the page passes on to the active mesh *)
(* together with all it knew before.                                       *)
Learn(u) ==
    /\ u \notin known
    /\ known' = known \cup {u}
    /\ sock' = IF active = 0 THEN sock
               ELSE [sock EXCEPT ![active] = [v \in Urls |->
                   IF v \in known' /\ @[v] \in {"none", "failed"} THEN "later" ELSE @[v]]]
    /\ UNCHANGED <<current, pc, aborted, owned, failures, contextVars, mesh, serverVars>>
-----------------------------------------------------------------------------
(* Sockets and servers *)

Room(e, u) == <<u, Group[e]>>

(* onopen, and with it the join message.                                   *)
Opens(e, u) ==
    /\ sock[e][u] \in {"first", "later"}
    /\ sock' = [sock EXCEPT ![e][u] = "open"]
    /\ Servers!Connect(<<e, u>>)
    /\ UNCHANGED <<pageVars, contextVars, mesh>>

Fails(e, u) ==
    /\ sock[e][u] = "first" /\ failures < MaxFailures
    /\ sock' = [sock EXCEPT ![e][u] = "failed"]
    /\ failures' = failures + 1
    /\ UNCHANGED <<current, known, pc, aborted, owned, contextVars, mesh, serverVars>>

Joins(e, u) ==
    /\ rooms[<<e, u>>] = {} /\ nodeId[<<e, u>>] = 0
    /\ Servers!Join(<<e, u>>, Room(e, u), Me)
    /\ UNCHANGED <<pageVars, contextVars, meshVars>>

(* The server gets the close of a stopped mesh, after its join.            *)
Drops(e, u) ==
    /\ sock[e][u] = "closed" /\ nodeId[<<e, u>>] = Me
    /\ Servers!Drop(<<e, u>>)
    /\ UNCHANGED <<pageVars, contextVars, meshVars>>

Disconnects(e, u) ==
    /\ Servers!Disconnect(<<e, u>>)
    /\ UNCHANGED <<pageVars, contextVars, meshVars>>

User == LeavePage \/ Dissolve \/ (\E e \in Runs : Run(e)) \/ (\E u \in Urls : Learn(u))

Progress ==
    \E e \in Runs :
        \/ Members(e) \/ MembersFail(e) \/ Started(e) \/ StartFails(e)
        \/ \E u \in Urls :
              \/ Opens(e, u) \/ Fails(e, u)
              \/ Joins(e, u) \/ Drops(e, u) \/ Disconnects(e, u)

Next == User \/ Progress

Spec == Init /\ [][Next]_vars

(* Requests and connection attempts end, and servers handle what they get; *)
(* each happens once, so that all of it happens if only something always   *)
(* does.  The user is not forced to do anything.                           *)
Fairness == WF_vars(Progress)

FairSpec == Spec /\ Fairness
-----------------------------------------------------------------------------
TypeOK ==
    /\ failures \in 0..MaxFailures
    /\ current \in 0..MaxRuns /\ active \in 0..MaxRuns
    /\ known \subseteq Urls /\ Default \in known
    /\ pc \in [Runs -> {"new", "listing", "starting", "over"}]
    /\ aborted \in [Runs -> BOOLEAN] /\ owned \in [Runs -> BOOLEAN]
    /\ activeToken \in 0..MaxRuns
    /\ mesh \in [Runs -> {"none", "starting", "up", "stopped"}]
    /\ sock \in [Runs -> [Urls -> {"none", "first", "later", "open", "failed", "closed"}]]
    /\ \A e \in Runs : (mesh[e] = "starting") = (pc[e] = "starting")
    /\ active # 0 => active = activeToken /\ mesh[active] = "up"
    /\ Servers!TypeOK

(* However starts, stops and cleanups overtake each other, the active mesh *)
(* is the one of the page that is shown, and no other mesh runs on.        *)
ActiveMatchesPage ==
    /\ active # 0 => active = current
    /\ \A e \in Runs : mesh[e] = "up" => e = active

(* A running mesh is stopped by the cleanup of its own effect and by       *)
(* nothing else: no late stop of an earlier one hits it.                   *)
RunsUntilLeft ==
    [][\A e \in Runs : mesh[e] = "up" /\ mesh'[e] # "up" => aborted'[e]]_vars

(* A page that stays gets its mesh, whatever earlier starts and stops are  *)
(* still on their way, unless the members or every server failed it.       *)
PageGetsMesh ==
    \A e \in Runs :
        <>[](current = e) =>
            <>[](active = e \/ (pc[e] = "over" /\ mesh[e] = "none"))

(* Once the user has left for good, no server goes on listing the node.    *)
LeftIsUnlisted ==
    <>[](current = 0) =>
        <>[](\A u \in Urls, g \in Groups : members[<<u, g>>][Me] = NoSocket)

(* While a mesh runs, every server the page has learned of gets a socket.  *)
LearnedUrlsReachMesh ==
    \A e \in Runs, u \in Urls :
        mesh[e] = "up" /\ u \in known ~> sock[e][u] # "none" \/ mesh[e] # "up"

(* The server lists the node while its page stays and its mesh runs.       *)
ActiveMeshIsListed ==
    \A e \in Runs :
        <>[](active = e /\ sock[e][Default] = "open") =>
            <>[](members[Room(e, Default)][Me] # NoSocket)
==============================================================================
