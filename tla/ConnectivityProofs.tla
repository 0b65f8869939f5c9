------------------------- MODULE ConnectivityProofs -------------------------
(* Proofs about what a browser connects through: for any number of calls of  *)
(* the effect, groups and servers, the active mesh and the server entries    *)
(* its sockets leave; for any hosts and ids, the neighbours the LAN agent    *)
(* lists.                                                                    *)
EXTENDS MeshContext, LanDiscovery, TLAPS

-----------------------------------------------------------------------------
(* One mesh, that of the page                                                *)

PageTyped ==
    /\ current \in 0..MaxRuns
    /\ known \subseteq Urls /\ Default \in known
    /\ pc \in [Runs -> {"new", "listing", "starting", "over"}]
    /\ aborted \in [Runs -> BOOLEAN] /\ owned \in [Runs -> BOOLEAN]
    /\ failures \in 0..MaxFailures

MeshTyped ==
    /\ active \in 0..MaxRuns /\ activeToken \in 0..MaxRuns
    /\ mesh \in [Runs -> {"none", "starting", "up", "stopped"}]
    /\ sock \in [Runs -> [Urls -> {"none", "first", "later", "open", "failed", "closed"}]]

(* The mounted effect is the only one that has begun and is not cleaned up.  *)
OneEffect ==
    /\ \A e \in Runs : aborted[e] => pc[e] # "new"
    /\ \A e \in Runs : pc[e] # "new" /\ ~aborted[e] => e = current
    /\ current # 0 => pc[current] # "new" /\ ~aborted[current]

(* A mesh becomes active at the end of its start, for an effect that is      *)
(* mounted and from then on has the token and the duty to stop it.           *)
OneMesh ==
    /\ active # 0 => /\ active = current /\ active = activeToken
                     /\ pc[active] = "over" /\ owned[active] /\ mesh[active] = "up"
    /\ \A e \in Runs : mesh[e] = "up" => e = active
    /\ \A e \in Runs : owned[e] /\ ~aborted[e] => e = active
    /\ \A e \in Runs : mesh[e] = "starting" <=> pc[e] = "starting"

Inv == PageTyped /\ MeshTyped /\ OneEffect /\ OneMesh

LEMMA InitInv == Init => Inv
BY RunAssumption, DefaultAssumption
DEF Init, Inv, PageTyped, MeshTyped, OneEffect, OneMesh, Runs

(* The cleanup marks the effect that was mounted.                             *)
LEMMA CleanupMarks ==
  ASSUME Inv, Cleanup
  PROVE  /\ aborted' \in [Runs -> BOOLEAN]
         /\ \A e \in Runs : aborted'[e] <=> aborted[e] \/ e = current
<1>1. aborted' = [e \in Runs |-> aborted[e] \/ e = current]
  BY DEF Cleanup
<1>2. \A e \in Runs : (aborted[e] \/ e = current) \in BOOLEAN
  OBVIOUS
<1>3. aborted' \in [Runs -> BOOLEAN]
  BY <1>1, <1>2, Zenon
<1>4. \A e \in Runs : aborted'[e] <=> aborted[e] \/ e = current
  BY <1>1, Zenon
<1>5. QED
  BY <1>3, <1>4

(* The cleanup of the mounted effect stops the mesh that is active: it       *)
(* belongs to that effect, and no start has taken its token.                 *)
LEMMA CleanupStops ==
  ASSUME Inv, Cleanup
  PROVE  /\ MeshTyped'
         /\ active' = 0
         /\ \A e \in Runs : mesh'[e] # "up"
         /\ \A e \in Runs : mesh'[e] = "starting" <=> mesh[e] = "starting"
<1> USE RunAssumption DEF Runs
<1>1. CASE active = 0
  <2>1. ~(current # 0 /\ owned[current])
    BY <1>1 DEF Inv, PageTyped, OneEffect, OneMesh
  <2>2. UNCHANGED <<contextVars, meshVars>>
    BY <2>1 DEF Cleanup
  <2>3. QED
    BY <1>1, <2>2 DEF Cleanup, Inv, MeshTyped, OneMesh, contextVars, meshVars
<1>2. CASE active # 0
  <2>1. active = current /\ owned[current] /\ current = activeToken /\ current \in Runs
    BY <1>2 DEF Inv, MeshTyped, OneMesh
  <2>2. /\ mesh' = [mesh EXCEPT ![active] = "stopped"]
        /\ sock' = [sock EXCEPT ![active] = Stopped(active)]
        /\ active' = 0 /\ activeToken' = 0
    BY <1>2, <2>1 DEF Cleanup, stopGroupMesh, StopMesh
  <2>3. Stopped(active) \in [Urls -> {"none", "first", "later", "open", "failed", "closed"}]
    BY DEF Stopped
  <2>4. MeshTyped'
    BY <1>2, <2>1, <2>2, <2>3 DEF Inv, MeshTyped
  <2>5. QED
    BY <1>2, <2>1, <2>2, <2>4 DEF Cleanup, Inv, MeshTyped, OneMesh
<1>3. QED
  BY <1>1, <1>2

(* A start that goes on finds no active mesh: whoever mounted its effect has *)
(* stopped it.                                                               *)
LEMMA StartFindsNone ==
  ASSUME Inv, NEW e \in Runs, pc[e] = "listing", ~aborted[e], startGroupMesh(e)
  PROVE  /\ active = 0 /\ active' = 0 /\ activeToken' = e
         /\ pc' = [pc EXCEPT ![e] = "starting"]
         /\ mesh' = [mesh EXCEPT ![e] = "starting"]
         /\ sock' = [sock EXCEPT ![e] = First(e)]
<1>1. active = 0
  BY DEF Inv, OneEffect, OneMesh
<1>2. QED
  BY <1>1 DEF startGroupMesh

LEMMA UserKeepsInv == Inv /\ User => Inv'
<1> USE RunAssumption DEF Runs
<1> SUFFICES ASSUME Inv, User PROVE Inv'
  OBVIOUS
<1>1. ASSUME NEW e \in Runs, Run(e) PROVE Inv'
  <2>1. /\ Cleanup /\ pc[e] = "new" /\ current' = e
        /\ pc' = [pc EXCEPT ![e] = "listing"]
        /\ UNCHANGED <<known, owned, failures>>
    BY <1>1 DEF Run
  <2>2. PageTyped'
    BY <2>1, CleanupMarks DEF Inv, PageTyped
  <2>3. OneEffect'
    BY <2>1, CleanupMarks DEF Inv, PageTyped, OneEffect
  <2>4. OneMesh'
    BY <2>1, <2>3, CleanupMarks, CleanupStops DEF Inv, PageTyped, OneEffect, OneMesh
  <2>5. QED
    BY <2>1, <2>2, <2>3, <2>4, CleanupStops DEF Inv
<1>2. CASE LeavePage
  <2>1. Cleanup /\ current' = 0 /\ UNCHANGED <<known, pc, owned, failures>>
    BY <1>2 DEF LeavePage
  <2>2. PageTyped'
    BY <2>1, CleanupMarks DEF Inv, PageTyped
  <2>3. OneEffect'
    BY <2>1, CleanupMarks DEF Inv, PageTyped, OneEffect
  <2>4. OneMesh'
    BY <2>1, <2>3, CleanupMarks, CleanupStops DEF Inv, PageTyped, OneEffect, OneMesh
  <2>5. QED
    BY <2>1, <2>2, <2>3, <2>4, CleanupStops DEF Inv
<1>3. CASE Dissolve
  <2>1. active = 0 /\ active' = 0 /\ activeToken' = 0 /\ UNCHANGED <<pageVars, meshVars>>
    BY <1>3 DEF Dissolve, stopGroupMesh, StopMesh, Inv, OneMesh
  <2>2. QED
    BY <2>1 DEF Inv, PageTyped, MeshTyped, OneEffect, OneMesh, pageVars, meshVars
<1>4. ASSUME NEW u \in Urls, Learn(u) PROVE Inv'
  <2>1. sock' \in [Runs -> [Urls -> {"none", "first", "later", "open", "failed", "closed"}]]
    <3>1. CASE active = 0
      BY <1>4, <3>1 DEF Learn, Inv, MeshTyped
    <3>2. CASE active # 0
      <4>1. sock' = [sock EXCEPT ![active] = [v \in Urls |->
                 IF v \in known' /\ sock[active][v] \in {"none", "failed"}
                 THEN "later" ELSE sock[active][v]]]
        BY <1>4, <3>2 DEF Learn
      <4>2. active \in Runs
        BY <3>2 DEF Inv, MeshTyped
      <4>3. QED
        BY <4>1, <4>2 DEF Inv, MeshTyped
    <3>3. QED
      BY <3>1, <3>2
  <2>2. QED
    BY <1>4, <2>1 DEF Learn, Inv, PageTyped, MeshTyped, OneEffect, OneMesh, contextVars
<1>5. QED
  BY <1>1, <1>2, <1>3, <1>4 DEF User

(* Sockets and servers leave the page and its meshes alone.                  *)
LEMMA SocketStepKeepsInv ==
  ASSUME Inv, NEW e \in Runs, NEW u \in Urls,
         \/ Opens(e, u) \/ Fails(e, u) \/ Joins(e, u)
         \/ Drops(e, u) \/ Disconnects(e, u)
  PROVE  Inv'
<1> USE RunAssumption DEF Runs
<1>1. /\ UNCHANGED <<current, known, pc, aborted, owned, active, activeToken, mesh>>
      /\ failures' = failures \/ (failures < MaxFailures /\ failures' = failures + 1)
      /\ \/ sock' = sock
         \/ sock' = [sock EXCEPT ![e][u] = "open"]
         \/ sock' = [sock EXCEPT ![e][u] = "failed"]
  BY DEF Opens, Fails, Joins, Drops, Disconnects, pageVars, contextVars, meshVars
<1>2. sock' \in [Runs -> [Urls -> {"none", "first", "later", "open", "failed", "closed"}]]
  <2>1. sock[e] \in [Urls -> {"none", "first", "later", "open", "failed", "closed"}]
    BY DEF Inv, MeshTyped
  <2>2. ASSUME NEW w \in {"open", "failed"}, sock' = [sock EXCEPT ![e][u] = w]
        PROVE  sock' \in [Runs -> [Urls ->
                   {"none", "first", "later", "open", "failed", "closed"}]]
    <3>1. [sock[e] EXCEPT ![u] = w] \in
              [Urls -> {"none", "first", "later", "open", "failed", "closed"}]
      BY <2>1
    <3>2. sock' = [sock EXCEPT ![e] = [sock[e] EXCEPT ![u] = w]]
      BY <2>2
    <3>3. QED
      BY <3>1, <3>2 DEF Inv, MeshTyped
  <2>3. QED
    BY <1>1, <2>2 DEF Inv, MeshTyped
<1>3. failures' \in 0..MaxFailures
  BY <1>1 DEF Inv, PageTyped
<1>4. QED
  BY <1>1, <1>2, <1>3 DEF Inv, PageTyped, MeshTyped, OneEffect, OneMesh

LEMMA RunStepKeepsInv ==
  ASSUME Inv, NEW e \in Runs,
         Members(e) \/ MembersFail(e) \/ Started(e) \/ StartFails(e)
  PROVE  Inv'
<1> USE RunAssumption DEF Runs
<1>0. \A d \in Runs : Stopped(d) \in
          [Urls -> {"none", "first", "later", "open", "failed", "closed"}]
  BY DEF Stopped, Inv, MeshTyped
<1>1. CASE Members(e) /\ aborted[e]
  BY <1>1 DEF Members, contextVars, meshVars,
              Inv, PageTyped, MeshTyped, OneEffect, OneMesh
<1>2. CASE Members(e) /\ ~aborted[e]
  <2>1. /\ pc[e] = "listing" /\ startGroupMesh(e)
        /\ UNCHANGED <<current, known, aborted, owned, failures>>
    BY <1>2 DEF Members
  <2>2. First(e) \in [Urls -> {"none", "first", "later", "open", "failed", "closed"}]
    BY DEF First
  <2>3. /\ active = 0 /\ active' = 0 /\ activeToken' = e
        /\ pc' = [pc EXCEPT ![e] = "starting"]
        /\ mesh' = [mesh EXCEPT ![e] = "starting"]
        /\ sock' = [sock EXCEPT ![e] = First(e)]
    BY <1>2, <2>1, StartFindsNone
  <2>4. PageTyped' /\ MeshTyped'
    BY <2>1, <2>2, <2>3 DEF Inv, PageTyped, MeshTyped
  <2>5. OneEffect' /\ OneMesh'
    BY <2>1, <2>3 DEF Inv, PageTyped, MeshTyped, OneEffect, OneMesh
  <2>6. QED
    BY <2>4, <2>5 DEF Inv
<1>3. CASE MembersFail(e)
  BY <1>3 DEF MembersFail, contextVars, meshVars,
              Inv, PageTyped, MeshTyped, OneEffect, OneMesh
<1>4. CASE StartFails(e)
  <2>1. /\ pc[e] = "starting"
        /\ pc' = [pc EXCEPT ![e] = "over"]
        /\ mesh' = [mesh EXCEPT ![e] = "none"]
        /\ sock' = [sock EXCEPT ![e] = [u \in Urls |-> "none"]]
        /\ activeToken' = IF activeToken = e THEN 0 ELSE activeToken
        /\ UNCHANGED <<current, known, aborted, owned, failures, active>>
    BY <1>4 DEF StartFails, Settled
  <2>2. PageTyped' /\ MeshTyped'
    BY <2>1 DEF Inv, PageTyped, MeshTyped
  <2>3. OneEffect' /\ OneMesh'
    BY <2>1 DEF Inv, PageTyped, MeshTyped, OneEffect, OneMesh
  <2>4. QED
    BY <2>2, <2>3 DEF Inv
<1>5. CASE Started(e) /\ (activeToken # e \/ aborted[e])
  <2>1. /\ pc[e] = "starting"
        /\ pc' = [pc EXCEPT ![e] = "over"]
        /\ mesh' = [mesh EXCEPT ![e] = "stopped"]
        /\ sock' = [sock EXCEPT ![e] = Stopped(e)]
        /\ active' = IF activeToken = e THEN 0 ELSE active
        /\ activeToken' = IF activeToken = e THEN 0 ELSE activeToken
        /\ UNCHANGED <<current, known, aborted, failures>>
    BY <1>5 DEF Started, Settled
  <2>2. owned' = [owned EXCEPT ![e] = (activeToken = e)]
    BY <1>5 DEF Started
  <2>3. owned' \in [Runs -> BOOLEAN] /\ (owned'[e] <=> activeToken = e)
        /\ \A d \in Runs \ {e} : owned'[d] = owned[d]
    <3>1. owned \in [Runs -> BOOLEAN] /\ (activeToken = e) \in BOOLEAN
      BY DEF Inv, PageTyped
    <3>2. QED
      BY <2>2, <3>1, Zenon
  <2>4. PageTyped' /\ MeshTyped'
    BY <1>0, <2>1, <2>3 DEF Inv, PageTyped, MeshTyped
  <2>5. active # e
    BY <2>1 DEF Inv, OneMesh
  <2>6. OneEffect'
    BY <2>1 DEF Inv, PageTyped, MeshTyped, OneEffect, OneMesh
  <2>7. OneMesh'
    BY <1>5, <2>1, <2>3, <2>5 DEF Inv, PageTyped, MeshTyped, OneEffect, OneMesh
  <2>8. QED
    BY <2>4, <2>6, <2>7 DEF Inv
<1>6. CASE Started(e) /\ activeToken = e /\ ~aborted[e]
  <2>1. /\ pc[e] = "starting"
        /\ pc' = [pc EXCEPT ![e] = "over"]
        /\ mesh' = [mesh EXCEPT ![e] = "up"]
        /\ active' = e
        /\ owned' = [owned EXCEPT ![e] = TRUE]
        /\ UNCHANGED <<current, known, aborted, failures, activeToken, sock>>
    BY <1>6 DEF Started, Settled
  <2>2. PageTyped' /\ MeshTyped'
    BY <2>1 DEF Inv, PageTyped, MeshTyped
  <2>3. e = current /\ active = 0
    BY <1>6, <2>1 DEF Inv, OneEffect, OneMesh
  <2>4. OneEffect' /\ OneMesh'
    BY <1>6, <2>1, <2>3 DEF Inv, PageTyped, MeshTyped, OneEffect, OneMesh
  <2>5. QED
    BY <2>2, <2>4 DEF Inv
<1>7. QED
  BY <1>1, <1>2, <1>3, <1>4, <1>5, <1>6

LEMMA InvIsInductive == Inv /\ [Next]_vars => Inv'
<1>1. CASE UNCHANGED vars
  BY <1>1 DEF vars, pageVars, contextVars, meshVars,
              Inv, PageTyped, MeshTyped, OneEffect, OneMesh
<1>2. CASE Next
  BY <1>2, UserKeepsInv, RunStepKeepsInv, SocketStepKeepsInv DEF Next, Progress
<1>3. QED
  BY <1>1, <1>2

LEMMA InvHolds == Spec => []Inv
BY InitInv, InvIsInductive, PTL DEF Spec

(* However starts, stops and cleanups of any number of pages overtake each   *)
(* other, the active mesh is that of the page that is shown, and no other    *)
(* mesh runs on.                                                             *)
THEOREM MeshMatchesPage == Spec => []ActiveMatchesPage
<1>1. Inv => ActiveMatchesPage
  BY DEF Inv, OneMesh, ActiveMatchesPage
<1>2. QED
  BY <1>1, InvHolds, PTL

(* A mesh that runs is stopped by the cleanup of its own effect only: no     *)
(* late stop of an earlier page, no other group's start and no failure.      *)
THEOREM MeshRunsUntilLeft == Spec => RunsUntilLeft
<1>1. Inv /\ [Next]_vars =>
          [\A e \in Runs : mesh[e] = "up" /\ mesh'[e] # "up" => aborted'[e]]_vars
  <2> SUFFICES ASSUME Inv, Next, NEW e \in Runs, mesh[e] = "up", mesh'[e] # "up"
               PROVE  aborted'[e]
    OBVIOUS
  <2>0. e = active /\ active # 0 /\ e = current /\ pc[e] = "over"
    BY RunAssumption DEF Inv, OneMesh, Runs
  <2>1. ASSUME NEW d \in Runs, Run(d) PROVE aborted'[e]
    BY <2>0, <2>1, CleanupMarks DEF Run
  <2>2. CASE LeavePage
    BY <2>0, <2>2, CleanupMarks DEF LeavePage
  <2>3. ASSUME NEW d \in Runs, Members(d) PROVE aborted'[e]
    <3>1. CASE aborted[d]
      BY <2>3, <3>1 DEF Members, meshVars
    <3>2. CASE ~aborted[d]
      BY <2>0, <2>3, <3>2, StartFindsNone DEF Members
    <3>3. QED
      BY <3>1, <3>2
  <2>4. ASSUME NEW d \in Runs, Started(d) \/ StartFails(d) PROVE aborted'[e]
    <3>1. d # e /\ \E w \in {"none", "stopped", "up"} : mesh' = [mesh EXCEPT ![d] = w]
      BY <2>0, <2>4 DEF Started, StartFails, Settled
    <3>2. QED
      BY <3>1 DEF Inv, MeshTyped
  <2>5. CASE Dissolve
    BY <2>0, <2>5, RunAssumption DEF Dissolve, Runs
  <2>6. CASE mesh' = mesh
    BY <2>6
  <2>7. QED
    BY <2>1, <2>2, <2>3, <2>4, <2>5, <2>6
    DEF Next, User, Progress, Learn, MembersFail, Opens, Fails, Joins, Drops,
        Disconnects, meshVars
<1>2. QED
  BY <1>1, InvHolds, PTL DEF Spec, RunsUntilLeft

-----------------------------------------------------------------------------
(* The servers behind the meshes                                             *)

(* What is proved of a registry of any clients, for the sockets of all runs  *)
(* as the clients of all servers.                                            *)
Registry == INSTANCE SignalingRoomsProofs WITH
    Clients <- Runs \X Urls, Nodes <- {Me}, Rooms <- Urls \X Groups,
    Identities <- [c \in Runs \X Urls |-> {Me}],
    NoClient <- NoSocket, NoNode <- 0, relayed <- {}

LEMMA RegistryAssumptions ==
  /\ NoSocket \notin Runs \X Urls
  /\ 0 \notin {Me}
  /\ [c \in Runs \X Urls |-> {Me}] \in [Runs \X Urls -> SUBSET {Me}]
BY NodeAssumption, RunAssumption DEF NoSocket, Runs

(* Whatever the page and its meshes do, the servers see what clients of the  *)
(* registry do: every step is one of the registry or leaves it alone.        *)
THEOREM ServersAreRegistries == Spec => Registry!Spec
<1>1. Init => Registry!Init
  BY DEF Init, Servers!Init, Registry!Init
<1>2. [Next]_vars => [Registry!Next]_(Registry!vars)
  <2> SUFFICES ASSUME [Next]_vars PROVE Registry!Next \/ UNCHANGED Registry!vars
    OBVIOUS
  <2>1. ASSUME NEW e \in Runs, NEW u \in Urls, Opens(e, u)
        PROVE  Registry!Next
    <3>1. Registry!Connect(<<e, u>>)
      BY <2>1 DEF Opens, Servers!Connect, Registry!Connect
    <3>2. QED
      BY <3>1 DEF Registry!Next
  <2>2. ASSUME NEW e \in Runs, NEW u \in Urls, Joins(e, u)
        PROVE  Registry!Next
    <3>1. Registry!Join(<<e, u>>, Room(e, u), Me)
      BY <2>2 DEF Joins, Servers!Join, Servers!Without, Servers!Broadcast, Servers!Present,
                  Servers!Listening, Registry!Join, Registry!Without, Registry!Broadcast,
                  Registry!Present, Registry!Listening
    <3>2. Room(e, u) \in Urls \X Groups /\ <<e, u>> \in Runs \X Urls
      BY DEF Room, Groups
    <3>3. QED
      BY <3>1, <3>2 DEF Registry!Next
  <2>3. ASSUME NEW e \in Runs, NEW u \in Urls, Drops(e, u)
        PROVE  Registry!Next
    <3>1. Registry!Drop(<<e, u>>)
      BY <2>3 DEF Drops, Servers!Drop, Registry!Drop
    <3>2. QED
      BY <3>1 DEF Registry!Next
  <2>4. ASSUME NEW e \in Runs, NEW u \in Urls, Disconnects(e, u)
        PROVE  Registry!Next
    <3>1. Registry!Disconnect(<<e, u>>)
      BY <2>4 DEF Disconnects, Servers!Disconnect, Servers!Without, Servers!Broadcast,
                  Servers!Present, Registry!Disconnect, Registry!Without,
                  Registry!Broadcast, Registry!Present
    <3>2. QED
      BY <3>1 DEF Registry!Next
  <2>5. CASE UNCHANGED serverVars
    BY <2>5 DEF serverVars, Registry!vars
  <2>6. QED
    BY <2>1, <2>2, <2>3, <2>4, <2>5
    DEF Next, User, Progress, Run, LeavePage, Dissolve, Learn, Members, MembersFail,
        Started, StartFails, Fails, vars
<1>3. QED
  BY <1>1, <1>2, PTL DEF Spec, Registry!Spec

(* So a node is listed only under a connection that goes by it, has joined   *)
(* the room and has not been closed, whatever meshes come and go.            *)
THEOREM ServersStayConsistent == Spec => []Registry!RegistryConsistent
BY ServersAreRegistries, RegistryAssumptions, Registry!RegistryIsConsistent, PTL

(* How far a socket has come on both of its sides.                           *)
SocketOK(e, u) ==
    /\ rooms[<<e, u>>] \subseteq {Room(e, u)}
    /\ conn[<<e, u>>] # "new" <=> sock[e][u] \in {"open", "closed"}
    /\ conn[<<e, u>>] \in {"closing", "closed"} => sock[e][u] = "closed"
    /\ sock[e][u] \in {"first", "later", "open"} => mesh[e] \in {"starting", "up"}
    /\ sock[e][u] = "closed" => mesh[e] = "stopped"
    /\ sock[e][u] # "none" => mesh[e] # "none"
    /\ mesh[e] # "none" => pc[e] \in {"starting", "over"}

SocketsOK == \A e \in Runs, u \in Urls : SocketOK(e, u)

(* Under a room of a server the node is listed for a mesh of that group that *)
(* starts or runs and has a socket to that server, or that was stopped and   *)
(* whose close the server has not handled: for no other group's.             *)
EntriesAreOfMeshes ==
    \A u \in Urls, g \in Groups :
        LET s == members[<<u, g>>][Me] IN
        s # NoSocket =>
            /\ s[2] = u /\ Group[s[1]] = g
            /\ \/ sock[s[1]][u] = "open" /\ mesh[s[1]] \in {"starting", "up"}
               \/ sock[s[1]][u] = "closed" /\ conn[s] # "closed"

(* Stopping a mesh that has not been stopped before closes what is open.     *)
LEMMA StopKeepsSockets ==
  ASSUME Inv, SocketsOK, NEW d \in Runs, mesh[d] \in {"starting", "up"},
         mesh' = [mesh EXCEPT ![d] = "stopped"],
         sock' = [sock EXCEPT ![d] = Stopped(d)],
         \A e \in Runs : pc[e] \in {"starting", "over"} => pc'[e] \in {"starting", "over"},
         UNCHANGED serverVars
  PROVE  SocketsOK'
<1> SUFFICES ASSUME NEW e \in Runs, NEW u \in Urls PROVE SocketOK(e, u)'
  BY DEF SocketsOK
<1>1. SocketOK(e, u)
  BY DEF SocketsOK
<1>2. CASE e = d
  <2>1. mesh'[e] = "stopped" /\ sock'[e][u] = IF sock[e][u] = "open" THEN "closed" ELSE "none"
    BY <1>2 DEF Inv, MeshTyped, Stopped
  <2>2. QED
    BY <1>1, <1>2, <2>1 DEF SocketOK, serverVars, Room
<1>3. CASE e # d
  <2>1. mesh'[e] = mesh[e] /\ sock'[e] = sock[e]
    BY <1>3 DEF Inv, MeshTyped
  <2>2. QED
    BY <1>1, <2>1 DEF SocketOK, serverVars, Room
<1>4. QED
  BY <1>2, <1>3

LEMMA SocketsStart == Init => SocketsOK
BY DEF Init, SocketsOK, SocketOK, Servers!Init

LEMMA SocketStepKeepsSockets ==
  ASSUME Inv, Registry!TypeOK, SocketsOK, NEW d \in Runs, NEW v \in Urls,
         \/ Opens(d, v) \/ Fails(d, v) \/ Joins(d, v)
         \/ Drops(d, v) \/ Disconnects(d, v)
  PROVE  SocketsOK'
<1> SUFFICES ASSUME NEW e \in Runs, NEW u \in Urls PROVE SocketOK(e, u)'
  BY DEF SocketsOK
<1>0. SocketOK(e, u) /\ SocketOK(d, v)
  BY DEF SocketsOK
<1>1. UNCHANGED <<mesh, pc>> /\ Room(e, u)' = Room(e, u)
  BY DEF Opens, Fails, Joins, Drops, Disconnects, meshVars, pageVars, Room
<1>2. /\ sock[e] \in [Urls -> {"none", "first", "later", "open", "failed", "closed"}]
      /\ sock[d] \in [Urls -> {"none", "first", "later", "open", "failed", "closed"}]
  BY DEF Inv, MeshTyped
<1>3. /\ conn \in [Runs \X Urls -> {"new", "open", "closing", "closed"}]
      /\ rooms \in [Runs \X Urls -> SUBSET (Urls \X Groups)]
      /\ nodeId \in [Runs \X Urls -> {Me} \cup {0}]
  BY DEF Registry!TypeOK
<1>4. CASE Opens(d, v)
  <2>1. /\ sock[d][v] \in {"first", "later"} /\ sock' = [sock EXCEPT ![d][v] = "open"]
        /\ conn' = [conn EXCEPT ![<<d, v>>] = "open"] /\ rooms' = rooms
    BY <1>4 DEF Opens, Servers!Connect
  <2>2. CASE e = d /\ u = v
    <3>1. sock'[e][u] = "open" /\ conn'[<<e, u>>] = "open"
      BY <1>2, <1>3, <2>1, <2>2 DEF Inv, MeshTyped
    <3>2. mesh[e] \in {"starting", "up"}
      BY <1>0, <2>1, <2>2 DEF SocketOK, Inv, MeshTyped
    <3>3. QED
      BY <1>0, <1>1, <2>1, <3>1, <3>2 DEF SocketOK
  <2>3. CASE ~(e = d /\ u = v)
    <3>1. sock'[e][u] = sock[e][u] /\ conn'[<<e, u>>] = conn[<<e, u>>]
      BY <1>2, <1>3, <2>1, <2>3 DEF Inv, MeshTyped
    <3>2. QED
      BY <1>0, <1>1, <2>1, <3>1 DEF SocketOK
  <2>4. QED
    BY <2>2, <2>3
<1>5. CASE Fails(d, v)
  <2>1. /\ sock[d][v] = "first" /\ sock' = [sock EXCEPT ![d][v] = "failed"]
        /\ conn' = conn /\ rooms' = rooms
    BY <1>5 DEF Fails, serverVars
  <2>2. sock'[e][u] = IF e = d /\ u = v THEN "failed" ELSE sock[e][u]
    BY <1>2, <2>1 DEF Inv, MeshTyped
  <2>3. QED
    BY <1>0, <1>1, <2>1, <2>2 DEF SocketOK
<1>6. CASE Joins(d, v)
  <2>1. rooms[<<d, v>>] = {} /\ nodeId[<<d, v>>] = 0 /\ conn' = conn /\ sock' = sock
    BY <1>6 DEF Joins, Servers!Join, meshVars
  <2>2. rooms' = [rooms EXCEPT ![<<d, v>>] = @ \cup {Room(d, v)}]
    BY <1>6, <2>1 DEF Joins, Servers!Join
  <2>3. rooms'[<<e, u>>] \subseteq {Room(e, u)}
    BY <1>0, <1>3, <2>1, <2>2 DEF SocketOK
  <2>4. QED
    BY <1>0, <1>1, <2>1, <2>3 DEF SocketOK
<1>7. CASE Drops(d, v)
  <2>1. /\ sock[d][v] = "closed" /\ sock' = sock /\ rooms' = rooms
        /\ conn' = [conn EXCEPT ![<<d, v>>] = "closing"]
    BY <1>7 DEF Drops, Servers!Drop, meshVars
  <2>2. conn'[<<e, u>>] = IF e = d /\ u = v THEN "closing" ELSE conn[<<e, u>>]
    BY <1>3, <2>1
  <2>3. QED
    BY <1>0, <1>1, <2>1, <2>2 DEF SocketOK
<1>8. CASE Disconnects(d, v)
  <2>1. /\ conn[<<d, v>>] = "closing" /\ sock' = sock
        /\ conn' = [conn EXCEPT ![<<d, v>>] = "closed"]
        /\ rooms' = [rooms EXCEPT ![<<d, v>>] = {}]
    BY <1>8 DEF Disconnects, Servers!Disconnect, meshVars
  <2>2. conn'[<<e, u>>] = IF e = d /\ u = v THEN "closed" ELSE conn[<<e, u>>]
    BY <1>3, <2>1
  <2>3. rooms'[<<e, u>>] \subseteq rooms[<<e, u>>]
    BY <1>3, <2>1
  <2>4. QED
    BY <1>0, <1>1, <2>1, <2>2, <2>3 DEF SocketOK
<1>9. QED
  BY <1>4, <1>5, <1>6, <1>7, <1>8

(* The steps of the page and of starts: whatever stops a mesh stops it once. *)
LEMMA PageStepKeepsSockets ==
  ASSUME Inv, SocketsOK,
         \/ User
         \/ \E e \in Runs : Members(e) \/ MembersFail(e) \/ Started(e) \/ StartFails(e)
  PROVE  SocketsOK'
<1>1. ASSUME UNCHANGED <<meshVars, serverVars>>,
             \A e \in Runs : pc[e] \in {"starting", "over"} => pc'[e] \in {"starting", "over"}
      PROVE  SocketsOK'
  <2> SUFFICES ASSUME NEW e \in Runs, NEW u \in Urls PROVE SocketOK(e, u)'
    BY DEF SocketsOK
  <2>1. SocketOK(e, u)
    BY DEF SocketsOK
  <2>2. /\ mesh'[e] = mesh[e] /\ sock'[e][u] = sock[e][u]
        /\ rooms'[<<e, u>>] = rooms[<<e, u>>] /\ conn'[<<e, u>>] = conn[<<e, u>>]
    BY <1>1 DEF meshVars, serverVars
  <2>3. QED
    BY <1>1, <2>1, <2>2 DEF SocketOK, Room
<1>2. ASSUME Cleanup, UNCHANGED serverVars,
             \A e \in Runs : pc[e] \in {"starting", "over"} => pc'[e] \in {"starting", "over"}
      PROVE  SocketsOK'
  <2>1. CASE UNCHANGED meshVars
    BY <1>1, <1>2, <2>1
  <2>2. CASE ~UNCHANGED meshVars
    <3>1. /\ active # 0
          /\ mesh' = [mesh EXCEPT ![active] = "stopped"]
          /\ sock' = [sock EXCEPT ![active] = Stopped(active)]
      BY <1>2, <2>2 DEF Cleanup, stopGroupMesh, StopMesh, meshVars
    <3>2. active \in Runs /\ mesh[active] = "up"
      BY <3>1, RunAssumption DEF Inv, MeshTyped, OneMesh, Runs
    <3>3. QED
      BY <1>2, <3>1, <3>2, StopKeepsSockets
  <2>3. QED
    BY <2>1, <2>2
<1>3. ASSUME NEW d \in Runs, Run(d) PROVE SocketsOK'
  <2>1. \A e \in Runs : pc[e] \in {"starting", "over"} => pc'[e] \in {"starting", "over"}
    BY <1>3 DEF Run, Inv, PageTyped
  <2>2. QED
    BY <1>2, <1>3, <2>1 DEF Run
<1>4. CASE LeavePage
  BY <1>2, <1>4 DEF LeavePage
<1>5. CASE Dissolve
  <2>1. active = 0
    BY <1>5 DEF Dissolve, Inv, OneMesh
  <2>2. UNCHANGED <<meshVars, serverVars, pc>>
    BY <1>5, <2>1 DEF Dissolve, stopGroupMesh, StopMesh, pageVars
  <2>3. QED
    BY <1>1, <2>2
<1>6. ASSUME NEW v \in Urls, Learn(v) PROVE SocketsOK'
  <2>1. /\ UNCHANGED <<pc, mesh, serverVars>>
        /\ \/ sock' = sock
           \/ /\ active \in Runs /\ mesh[active] = "up"
              /\ sock' = [sock EXCEPT ![active] = [w \in Urls |->
                    IF w \in known' /\ sock[active][w] \in {"none", "failed"}
                    THEN "later" ELSE sock[active][w]]]
    BY <1>6, RunAssumption DEF Learn, Inv, MeshTyped, OneMesh, Runs
  <2>2. CASE sock' = sock
    BY <1>1, <2>1, <2>2 DEF meshVars
  <2>3. CASE sock' # sock
    <3> SUFFICES ASSUME NEW e \in Runs, NEW u \in Urls PROVE SocketOK(e, u)'
      BY DEF SocketsOK
    <3>1. SocketOK(e, u)
      BY DEF SocketsOK
    <3>2. \/ sock'[e][u] = sock[e][u]
          \/ sock'[e][u] = "later" /\ sock[e][u] \in {"none", "failed"} /\ mesh[e] = "up"
      BY <2>1, <2>3 DEF Inv, MeshTyped
    <3>3. pc[e] = "over" \/ mesh[e] # "up"
      BY <3>1 DEF SocketOK, Inv, OneMesh
    <3>4. QED
      BY <2>1, <3>1, <3>2, <3>3 DEF SocketOK, serverVars, Room
  <2>4. QED
    BY <2>2, <2>3
<1>7. ASSUME NEW d \in Runs, Members(d) PROVE SocketsOK'
  <2>1. CASE aborted[d]
    <3>1. UNCHANGED <<meshVars, serverVars>> /\ pc' = [pc EXCEPT ![d] = "over"]
      BY <1>7, <2>1 DEF Members
    <3>2. QED
      BY <1>1, <3>1 DEF Inv, PageTyped
  <2>2. CASE ~aborted[d]
    <3>1. /\ pc[d] = "listing" /\ UNCHANGED serverVars
          /\ pc' = [pc EXCEPT ![d] = "starting"]
          /\ mesh' = [mesh EXCEPT ![d] = "starting"]
          /\ sock' = [sock EXCEPT ![d] = First(d)]
      BY <1>7, <2>2, StartFindsNone DEF Members
    <3> SUFFICES ASSUME NEW e \in Runs, NEW u \in Urls PROVE SocketOK(e, u)'
      BY DEF SocketsOK
    <3>2. SocketOK(e, u)
      BY DEF SocketsOK
    <3>3. CASE e = d
      <4>1. /\ sock'[e][u] \in {"none", "first"} /\ mesh'[e] = "starting"
            /\ pc'[e] = "starting"
        BY <3>1, <3>3 DEF First, Inv, MeshTyped, PageTyped
      <4>2. sock[e][u] = "none"
        BY <3>1, <3>2, <3>3 DEF SocketOK
      <4>3. QED
        BY <3>1, <3>2, <4>1, <4>2 DEF SocketOK, serverVars, Room
    <3>4. CASE e # d
      <4>1. sock'[e] = sock[e] /\ mesh'[e] = mesh[e] /\ pc'[e] = pc[e]
        BY <3>1, <3>4 DEF Inv, MeshTyped, PageTyped
      <4>2. QED
        BY <3>1, <3>2, <4>1 DEF SocketOK, serverVars, Room
    <3>5. QED
      BY <3>3, <3>4
  <2>3. QED
    BY <2>1, <2>2
<1>8. ASSUME NEW d \in Runs, MembersFail(d) PROVE SocketsOK'
  <2>1. UNCHANGED <<meshVars, serverVars>> /\ pc' = [pc EXCEPT ![d] = "over"]
    BY <1>8 DEF MembersFail
  <2>2. QED
    BY <1>1, <2>1 DEF Inv, PageTyped
<1>9. ASSUME NEW d \in Runs, Started(d) PROVE SocketsOK'
  <2>1. /\ pc[d] = "starting" /\ mesh[d] = "starting" /\ UNCHANGED serverVars
        /\ pc' = [pc EXCEPT ![d] = "over"]
        /\ \/ mesh' = [mesh EXCEPT ![d] = "stopped"] /\ sock' = [sock EXCEPT ![d] = Stopped(d)]
           \/ mesh' = [mesh EXCEPT ![d] = "up"] /\ sock' = sock
    BY <1>9 DEF Started, Settled, Inv, OneMesh
  <2>2. \A e \in Runs : pc[e] \in {"starting", "over"} => pc'[e] \in {"starting", "over"}
    BY <2>1 DEF Inv, PageTyped
  <2>3. CASE mesh' = [mesh EXCEPT ![d] = "stopped"] /\ sock' = [sock EXCEPT ![d] = Stopped(d)]
    BY <2>1, <2>2, <2>3, StopKeepsSockets
  <2>4. CASE mesh' = [mesh EXCEPT ![d] = "up"] /\ sock' = sock
    <3>1. \A e \in Runs : mesh'[e] = IF e = d THEN "up" ELSE mesh[e]
      BY <2>4 DEF Inv, MeshTyped
    <3>2. QED
      <4> SUFFICES ASSUME NEW e \in Runs, NEW u \in Urls PROVE SocketOK(e, u)'
        BY DEF SocketsOK
      <4>1. SocketOK(e, u)
        BY DEF SocketsOK
      <4>2. QED
        BY <2>1, <2>2, <2>4, <3>1, <4>1 DEF SocketOK, serverVars, Room
  <2>5. QED
    BY <2>1, <2>3, <2>4
<1>10. ASSUME NEW d \in Runs, StartFails(d) PROVE SocketsOK'
  <2>1. /\ pc[d] = "starting" /\ mesh[d] = "starting" /\ UNCHANGED serverVars
        /\ pc' = [pc EXCEPT ![d] = "over"]
        /\ \A u \in Urls : sock[d][u] # "open"
        /\ mesh' = [mesh EXCEPT ![d] = "none"]
        /\ sock' = [sock EXCEPT ![d] = [u \in Urls |-> "none"]]
    BY <1>10 DEF StartFails, Settled, Inv, OneMesh
  <2> SUFFICES ASSUME NEW e \in Runs, NEW u \in Urls PROVE SocketOK(e, u)'
    BY DEF SocketsOK
  <2>2. SocketOK(e, u)
    BY DEF SocketsOK
  <2>3. CASE e = d
    <3>1. sock'[e][u] = "none" /\ mesh'[e] = "none" /\ sock[e][u] \notin {"open", "closed"}
      BY <2>1, <2>2, <2>3 DEF SocketOK, Inv, MeshTyped
    <3>2. QED
      BY <2>1, <2>2, <3>1 DEF SocketOK, serverVars, Room
  <2>4. CASE e # d
    <3>1. sock'[e] = sock[e] /\ mesh'[e] = mesh[e] /\ pc'[e] = pc[e]
      BY <2>1, <2>4 DEF Inv, MeshTyped, PageTyped
    <3>2. QED
      BY <2>1, <2>2, <3>1 DEF SocketOK, serverVars, Room
  <2>5. QED
    BY <2>3, <2>4
<1>11. QED
  BY <1>3, <1>4, <1>5, <1>6, <1>7, <1>8, <1>9, <1>10 DEF User

LEMMA SocketsHold == Spec => []SocketsOK
<1>1. Inv /\ Registry!TypeOK /\ SocketsOK /\ [Next]_vars => SocketsOK'
  <2> SUFFICES ASSUME Inv, Registry!TypeOK, SocketsOK, [Next]_vars PROVE SocketsOK'
    OBVIOUS
  <2>1. CASE Next
    BY <2>1, PageStepKeepsSockets, SocketStepKeepsSockets DEF Next, Progress
  <2>2. CASE UNCHANGED vars
    <3> SUFFICES ASSUME NEW e \in Runs, NEW u \in Urls PROVE SocketOK(e, u)'
      BY DEF SocketsOK
    <3>1. SocketOK(e, u)
      BY DEF SocketsOK
    <3>2. QED
      BY <2>2, <3>1 DEF SocketOK, vars, pageVars, meshVars, serverVars, Room
  <2>3. QED
    BY <2>1, <2>2
<1>2. Spec => []Registry!TypeOK
  BY ServersAreRegistries, RegistryAssumptions, Registry!TypeCorrect, PTL
<1>3. QED
  BY <1>1, <1>2, SocketsStart, InvHolds, PTL DEF Spec

(* Page, meshes, sockets and registries keep their types.                    *)
THEOREM TypeCorrect == Spec => []TypeOK
<1>1. Inv /\ Registry!TypeOK => TypeOK
  <2> SUFFICES ASSUME Inv, Registry!TypeOK PROVE TypeOK
    OBVIOUS
  <2>1. Servers!TypeOK
    BY DEF Servers!TypeOK, Registry!TypeOK
  <2>2. \A e \in Runs : (mesh[e] = "starting") = (pc[e] = "starting")
    BY DEF Inv, OneMesh
  <2>3. active # 0 => active = activeToken /\ mesh[active] = "up"
    BY DEF Inv, OneMesh
  <2>4. QED
    BY <2>1, <2>2, <2>3 DEF Inv, PageTyped, MeshTyped, TypeOK
<1>2. Spec => []Registry!TypeOK
  BY ServersAreRegistries, RegistryAssumptions, Registry!TypeCorrect, PTL
<1>3. QED
  BY <1>1, <1>2, InvHolds, PTL

(* However meshes supersede each other, what a server lists is of a mesh for *)
(* that group and with a socket to that server: an earlier group's room      *)
(* never gets an entry of a later mesh, and an entry left behind is one      *)
(* whose close is on its way.                                                *)
THEOREM ServersListMeshes == Spec => []EntriesAreOfMeshes
<1>1. Registry!TypeOK /\ Registry!RegistryConsistent /\ SocketsOK => EntriesAreOfMeshes
  <2> SUFFICES ASSUME Registry!TypeOK, Registry!RegistryConsistent, SocketsOK,
                      NEW u \in Urls, NEW g \in Groups,
                      members[<<u, g>>][Me] # NoSocket
               PROVE  LET s == members[<<u, g>>][Me] IN
                      /\ s[2] = u /\ Group[s[1]] = g
                      /\ \/ sock[s[1]][u] = "open" /\ mesh[s[1]] \in {"starting", "up"}
                         \/ sock[s[1]][u] = "closed" /\ conn[s] # "closed"
    BY DEF EntriesAreOfMeshes
  <2> DEFINE s == members[<<u, g>>][Me]
  <2>1. s \in Runs \X Urls
    BY DEF Registry!TypeOK
  <2>2. PICK e \in Runs, v \in Urls : s = <<e, v>>
    BY <2>1
  <2>3. conn[<<e, v>>] \in {"open", "closing"} /\ <<u, g>> \in rooms[<<e, v>>]
    BY <2>2 DEF Registry!RegistryConsistent
  <2>4. SocketOK(e, v)
    BY DEF SocketsOK
  <2>5. u = v /\ Group[e] = g
    BY <2>3, <2>4 DEF SocketOK, Room
  <2>6. QED
    BY <2>2, <2>3, <2>4, <2>5 DEF SocketOK
<1>2. Spec => []Registry!TypeOK
  BY ServersAreRegistries, RegistryAssumptions, Registry!TypeCorrect, PTL
<1>3. QED
  BY <1>1, <1>2, SocketsHold, ServersStayConsistent, PTL

-----------------------------------------------------------------------------
(* Neighbours                                                                *)

LEMMA NeighbourFacts ==
  /\ Here \in Hosts /\ Others \subseteq Hosts /\ Probed \subseteq Others
  /\ \A h \in Hosts : BootId[h] \in Ids /\ AccountId[h] \in Ids
  /\ BootId \in [Hosts -> Ids]
  /\ "none" \notin Ids
  /\ NoEntry \in [source : Sources, host : Hosts]
<1>1. Here \in Hosts /\ Others \subseteq Hosts /\ Probed \subseteq Others
  BY HostAssumption DEF Hosts
<1>2. \A h \in Hosts : BootId[h] \in Ids /\ AccountId[h] \in Ids
  BY DEF Ids
<1>3. QED
  BY <1>1, <1>2, IdAssumption, NoneAssumption DEF NoEntry, Sources

(* An entry is replaced as a whole or stays.                                 *)
LEMMA UpsertEntry ==
  ASSUME NEW l \in [Ids -> [source : Sources, host : Hosts]],
         NEW k \in Ids, NEW h \in Hosts, NEW source \in {"manual", "mdns", "probe"}
  PROVE  /\ upsert(l, k, h, source) \in [Ids -> [source : Sources, host : Hosts]]
         /\ \A j \in Ids \ {k} : upsert(l, k, h, source)[j] = l[j]
         /\ upsert(l, k, h, source)[k].source =
                IF l[k].source = "manual" /\ source # "manual" THEN "manual" ELSE source
<1>1. [source |-> source, host |-> h] \in [source : Sources, host : Hosts]
  BY DEF Sources
<1>2. QED
  BY <1>1 DEF upsert

LEMMA LanInitTyped == LanInit => LanTypeOK
<1> SUFFICES ASSUME LanInit PROVE LanTypeOK
  OBVIOUS
<1>1. alive \in [Hosts -> BOOLEAN]
  BY DEF LanInit
<1>2. uid \in [Hosts -> Ids] /\ restarts \in 0..MaxRestarts
  BY NeighbourFacts, RestartAssumption DEF LanInit
<1>3. /\ services \in [Hosts -> Ids \cup {"none"}]
      /\ list \in [Ids -> [source : Sources, host : Hosts]]
  BY NeighbourFacts DEF LanInit
<1>4. /\ probing = "none" /\ found = {} /\ link = FALSE /\ seen = {}
  BY DEF LanInit
<1>5. QED
  BY <1>1, <1>2, <1>3, <1>4 DEF LanTypeOK

(* A list that is sent leaves the page's memory a set of hosts.              *)
LEMMA EmitTyped ==
  ASSUME LanTypeOK, NEW l \in [Ids -> [source : Sources, host : Hosts]], Emit(l)
  PROVE  seen' \subseteq Hosts /\ link' = link
<1>1. Listed(l) \subseteq Hosts
  BY DEF Listed
<1>2. QED
  BY <1>1 DEF Emit, LanTypeOK

(* Entries of a probe that ends.                                             *)
LEMMA ProbeEndEntries ==
  ASSUME LanTypeOK, ProbeEnd
  PROVE  /\ list' \in [Ids -> [source : Sources, host : Hosts]]
         /\ \A k \in Ids :
                \/ list'[k] = list[k]
                \/ list'[k].source = "probe" /\ list[k].source # "manual"
<1> DEFINE new(k) ==
        IF \E h \in Hosts : <<k, h>> \in found
        THEN upsert(list, k, CHOOSE h \in Hosts : <<k, h>> \in found, "probe")[k]
        ELSE list[k]
<1>1. list' = [k \in Ids |-> new(k)]
  BY DEF ProbeEnd
<1>2. list \in [Ids -> [source : Sources, host : Hosts]]
  BY DEF LanTypeOK
<1>3. ASSUME NEW k \in Ids
      PROVE  /\ new(k) \in [source : Sources, host : Hosts]
             /\ \/ new(k) = list[k]
                \/ new(k).source = "probe" /\ list[k].source # "manual"
  <2>1. CASE \E h \in Hosts : <<k, h>> \in found
    <3> DEFINE h == CHOOSE g \in Hosts : <<k, g>> \in found
    <3>1. h \in Hosts
      BY <2>1
    <3>2. new(k) = upsert(list, k, h, "probe")[k]
      BY <2>1
    <3>3. upsert(list, k, h, "probe") \in [Ids -> [source : Sources, host : Hosts]]
      BY <1>2, <3>1, UpsertEntry
    <3>4. upsert(list, k, h, "probe")[k] = list[k]
             \/ (upsert(list, k, h, "probe")[k].source = "probe" /\ list[k].source # "manual")
      BY <1>2, <3>1 DEF upsert
    <3>5. QED
      BY <3>2, <3>3, <3>4
  <2>2. CASE ~\E h \in Hosts : <<k, h>> \in found
    BY <1>2, <2>2
  <2>3. QED
    BY <2>1, <2>2
<1> HIDE DEF new
<1>4. QED
  BY <1>1, <1>3

LEMMA LanStepTyped == LanTypeOK /\ [LanNext]_lanVars => LanTypeOK'
<1> USE NeighbourFacts
<1> SUFFICES ASSUME LanTypeOK, [LanNext]_lanVars PROVE LanTypeOK'
  OBVIOUS
<1>0. /\ list \in [Ids -> [source : Sources, host : Hosts]]
      /\ uid \in [Hosts -> Ids] /\ services \in [Hosts -> Ids \cup {"none"}]
      /\ alive \in [Hosts -> BOOLEAN]
  BY DEF LanTypeOK
<1>1. CASE Connect
  <2>1. Listed(list) \subseteq Hosts
    BY <1>0 DEF Listed
  <2>2. QED
    BY <1>1, <2>1 DEF Connect, LanTypeOK, hostVars
<1>2. CASE Disconnect
  BY <1>2 DEF Disconnect, LanTypeOK, hostVars
<1>3. CASE Fetch
  <2>1. Listed(list) \subseteq Hosts
    BY <1>0 DEF Listed
  <2>2. QED
    BY <1>3, <2>1 DEF Fetch, LanTypeOK, hostVars
<1>4. CASE Probe
  BY <1>4 DEF Probe, LanTypeOK, hostVars, heardVars
<1>5. ASSUME NEW h \in Probed, ProbeReply(h) PROVE LanTypeOK'
  BY <1>5 DEF ProbeReply, LanTypeOK, hostVars, heardVars
<1>6. CASE ProbeEnd
  <2>1. list' \in [Ids -> [source : Sources, host : Hosts]]
    BY <1>6, ProbeEndEntries
  <2>2. seen' \subseteq Hosts /\ link' = link
    BY <1>6, <2>1, EmitTyped DEF ProbeEnd, heardVars, LanTypeOK
  <2>3. QED
    BY <1>6, <2>1, <2>2 DEF ProbeEnd, LanTypeOK, hostVars
<1>7. ASSUME NEW h \in Hosts, Up(h) PROVE LanTypeOK'
  <2>1. services' \in [Hosts -> Ids \cup {"none"}]
    BY <1>0, <1>7 DEF Up
  <2>2. list' \in [Ids -> [source : Sources, host : Hosts]]
    <3>1. uid[h] \in Ids
      BY <1>0
    <3>2. upsert(list, uid[h], h, "mdns") \in [Ids -> [source : Sources, host : Hosts]]
      BY <1>0, <3>1, UpsertEntry
    <3>3. list' = list \/ list' = upsert(list, uid[h], h, "mdns")
      BY <1>7 DEF Up
    <3>4. QED
      BY <1>0, <3>2, <3>3
  <2>3. seen' \subseteq Hosts /\ link' = link
    BY <1>7, <2>2, EmitTyped DEF Up, heardVars, LanTypeOK
  <2>4. QED
    BY <1>7, <2>1, <2>2, <2>3 DEF Up, LanTypeOK, hostVars
<1>8. ASSUME NEW h \in Hosts, Down(h) PROVE LanTypeOK'
  <2>1. services' \in [Hosts -> Ids \cup {"none"}]
    BY <1>0, <1>8 DEF Down
  <2>2. list' \in [Ids -> [source : Sources, host : Hosts]]
    <3>1. list' = list \/ list' = [list EXCEPT ![services[h]] = NoEntry]
      BY <1>8 DEF Down
    <3>2. QED
      BY <1>0, <3>1
  <2>3. seen' \subseteq Hosts /\ link' = link
    BY <1>8, <2>2, EmitTyped DEF Down, heardVars, LanTypeOK
  <2>4. QED
    BY <1>8, <2>1, <2>2, <2>3 DEF Down, LanTypeOK, hostVars
<1>9. ASSUME NEW h \in Others, registerManual(h) PROVE LanTypeOK'
  <2>1. list' \in [Ids -> [source : Sources, host : Hosts]]
    <3>1. uid[h] \in Ids /\ h \in Hosts
      BY <1>0
    <3>2. upsert(list, uid[h], h, "manual") \in [Ids -> [source : Sources, host : Hosts]]
      BY <1>0, <3>1, UpsertEntry
    <3>3. QED
      BY <1>9, <3>2 DEF registerManual
  <2>2. seen' \subseteq Hosts /\ link' = link
    BY <1>9, <2>1, EmitTyped DEF registerManual
  <2>3. QED
    BY <1>9, <2>1, <2>2 DEF registerManual, LanTypeOK, hostVars
<1>10. ASSUME NEW h \in Hosts, setLocalNodeId(h) PROVE LanTypeOK'
  <2>1. seen' \subseteq Hosts /\ link' = link
    BY <1>0, <1>10, EmitTyped DEF setLocalNodeId, heardVars, LanTypeOK
  <2>2. QED
    BY <1>0, <1>10, <2>1 DEF setLocalNodeId, LanTypeOK
<1>11. ASSUME NEW h \in Hosts, Goes(h) PROVE LanTypeOK'
  <2>1. alive' \in [Hosts -> BOOLEAN] /\ restarts' \in 0..MaxRestarts
    BY <1>0, <1>11, RestartAssumption DEF Goes, LanTypeOK
  <2>2. CASE h = Here
    <3>1. /\ services' = [o \in Hosts |-> "none"] /\ list' = [k \in Ids |-> NoEntry]
          /\ probing' = "none" /\ found' = {} /\ link' = FALSE
          /\ uid' = uid /\ seen' = seen
      BY <1>11, <2>2 DEF Goes
    <3>2. services' \in [Hosts -> Ids \cup {"none"}]
      BY <3>1
    <3>3. list' \in [Ids -> [source : Sources, host : Hosts]]
      BY <3>1
    <3>4. QED
      BY <2>1, <3>1, <3>2, <3>3 DEF LanTypeOK
  <2>3. CASE h # Here
    <3>1. alive'[Here] = alive[Here]
      BY <1>0, <1>11, <2>3 DEF Goes
    <3>2. UNCHANGED <<uid, services, list, probing, found, link, seen>>
      BY <1>11, <2>3 DEF Goes
    <3>3. QED
      BY <2>1, <3>1, <3>2 DEF LanTypeOK
  <2>4. QED
    BY <2>2, <2>3
<1>12. ASSUME NEW h \in Hosts, Boots(h) PROVE LanTypeOK'
  <2>1. alive' \in [Hosts -> BOOLEAN] /\ (alive[Here] => alive'[Here])
    BY <1>0, <1>12 DEF Boots
  <2>2. QED
    BY <1>0, <1>12, <2>1 DEF Boots, LanTypeOK, heardVars
<1>13. CASE UNCHANGED lanVars
  BY <1>13 DEF lanVars, hostVars, heardVars, LanTypeOK
<1>14. QED
  BY <1>1, <1>2, <1>3, <1>4, <1>5, <1>6, <1>7, <1>8, <1>9, <1>10, <1>11, <1>12, <1>13
  DEF LanNext

(* Agent, list and page keep their types.                                    *)
THEOREM NeighboursTyped == LanSpec => []LanTypeOK
BY LanInitTyped, LanStepTyped, PTL DEF LanSpec

(* What one step does to list and services, in four ways: entries stay or    *)
(* come from a probe or the user; a service is heard of; a service goes, with*)
(* its entry if mDNS made it; the agent starts over.                         *)
ListKeeps ==
    /\ services' = services
    /\ \A k \in Ids :
          \/ list'[k] = list[k]
          \/ list'[k].source = "manual"
          \/ list'[k].source = "probe" /\ list[k].source # "manual"

ListHears(h) ==
    /\ services[h] = "none" /\ services' = [services EXCEPT ![h] = uid[h]]
    /\ \/ uid[h] = uid[Here] /\ list' = list
       \/ list' = upsert(list, uid[h], h, "mdns")

ListLoses(h) ==
    /\ services[h] # "none" /\ services' = [services EXCEPT ![h] = "none"]
    /\ \/ list[services[h]].source = "mdns" /\ list' = [list EXCEPT ![services[h]] = NoEntry]
       \/ list[services[h]].source # "mdns" /\ list' = list

ListRestarts ==
    /\ services' = [h \in Hosts |-> "none"] /\ list' = [k \in Ids |-> NoEntry]
    /\ ~alive'[Here]

LEMMA ListSteps ==
  ASSUME LanTypeOK, [LanNext]_lanVars
  PROVE  \/ ListKeeps \/ ListRestarts
         \/ \E h \in Hosts : ListHears(h) \/ ListLoses(h)
<1> USE NeighbourFacts
<1>0. /\ list \in [Ids -> [source : Sources, host : Hosts]]
      /\ uid \in [Hosts -> Ids] /\ services \in [Hosts -> Ids \cup {"none"}]
      /\ alive \in [Hosts -> BOOLEAN]
  BY DEF LanTypeOK
<1>1. ASSUME services' = services, list' = list PROVE ListKeeps
  BY <1>1 DEF ListKeeps
<1>2. ASSUME ProbeEnd PROVE ListKeeps
  <2>1. services' = services
    BY <1>2 DEF ProbeEnd
  <2>2. \A k \in Ids :
            \/ list'[k] = list[k]
            \/ list'[k].source = "probe" /\ list[k].source # "manual"
    BY <1>2, ProbeEndEntries
  <2>3. QED
    BY <2>1, <2>2 DEF ListKeeps
<1>3. ASSUME NEW h \in Hosts, Up(h) PROVE ListHears(h)
  BY <1>3 DEF Up, ListHears
<1>4. ASSUME NEW h \in Hosts, Down(h) PROVE ListLoses(h)
  BY <1>4 DEF Down, ListLoses
<1>5. ASSUME NEW h \in Others, registerManual(h) PROVE ListKeeps
  <2>1. uid[h] \in Ids /\ h \in Hosts
    BY <1>0
  <2>2. /\ \A k \in Ids \ {uid[h]} : upsert(list, uid[h], h, "manual")[k] = list[k]
        /\ upsert(list, uid[h], h, "manual")[uid[h]].source = "manual"
    BY <1>0, <2>1 DEF upsert
  <2>3. list' = upsert(list, uid[h], h, "manual") /\ services' = services
    BY <1>5 DEF registerManual
  <2>4. \A k \in Ids : list'[k] = list[k] \/ list'[k].source = "manual"
    BY <2>2, <2>3
  <2>5. QED
    BY <2>3, <2>4 DEF ListKeeps
<1>6. ASSUME NEW h \in Hosts, Goes(h) PROVE (services' = services /\ list' = list) \/ ListRestarts
  BY <1>0, <1>6 DEF Goes, ListRestarts
<1>7. CASE Connect \/ Disconnect \/ Fetch \/ Probe
  BY <1>1, <1>7 DEF Connect, Disconnect, Fetch, Probe
<1>8. CASE \E h \in Probed : ProbeReply(h)
  BY <1>1, <1>8 DEF ProbeReply
<1>9. CASE \E h \in Hosts : setLocalNodeId(h) \/ Boots(h)
  BY <1>1, <1>9 DEF setLocalNodeId, Boots
<1>10. CASE UNCHANGED lanVars
  BY <1>1, <1>10 DEF lanVars
<1>11. QED
  BY <1>1, <1>2, <1>3, <1>4, <1>5, <1>6, <1>7, <1>8, <1>9, <1>10 DEF LanNext

(* An entry from mDNS has its service: only hearing of a service makes one,  *)
(* and only the service's end takes the service away.                        *)
LEMMA MdnsStep ==
  LanTypeOK /\ MdnsEntriesHaveService /\ [LanNext]_lanVars => MdnsEntriesHaveService'
<1> SUFFICES ASSUME LanTypeOK, MdnsEntriesHaveService, [LanNext]_lanVars,
                    NEW k \in Ids, list'[k].source = "mdns"
             PROVE  \E h \in Hosts : services'[h] = k
  BY DEF MdnsEntriesHaveService
<1>0. /\ list \in [Ids -> [source : Sources, host : Hosts]]
      /\ uid \in [Hosts -> Ids] /\ services \in [Hosts -> Ids \cup {"none"}]
  BY DEF LanTypeOK
<1>1. CASE ListKeeps
  BY <1>1 DEF ListKeeps, MdnsEntriesHaveService
<1>2. CASE ListRestarts
  BY <1>2 DEF ListRestarts, NoEntry
<1>3. ASSUME NEW h \in Hosts, ListHears(h) PROVE \E o \in Hosts : services'[o] = k
  <2>1. CASE k = uid[h]
    BY <1>0, <1>3, <2>1 DEF ListHears
  <2>2. CASE k # uid[h]
    <3>1. list'[k] = list[k]
      BY <1>0, <1>3, <2>2 DEF ListHears, upsert
    <3>2. PICK o \in Hosts : services[o] = k
      BY <3>1 DEF MdnsEntriesHaveService
    <3>3. o # h
      BY <1>3, <3>2, NeighbourFacts DEF ListHears
    <3>4. QED
      BY <1>0, <1>3, <3>2, <3>3 DEF ListHears
  <2>3. QED
    BY <2>1, <2>2
<1>4. ASSUME NEW h \in Hosts, ListLoses(h) PROVE \E o \in Hosts : services'[o] = k
  <2>1. k # services[h] /\ list'[k] = list[k]
    BY <1>0, <1>4 DEF ListLoses, NoEntry
  <2>2. PICK o \in Hosts : services[o] = k
    BY <2>1 DEF MdnsEntriesHaveService
  <2>3. QED
    BY <1>0, <1>4, <2>1, <2>2 DEF ListLoses
<1>5. QED
  BY <1>1, <1>2, <1>3, <1>4, ListSteps

(* Every entry from mDNS has its service, so that its goodbye removes it.    *)
THEOREM EntriesEndWithServices == LanSpec => []MdnsEntriesHaveService
<1>1. LanInit => MdnsEntriesHaveService
  BY DEF LanInit, MdnsEntriesHaveService, NoEntry
<1>2. QED
  BY <1>1, MdnsStep, NeighboursTyped, PTL DEF LanSpec

(* Neither mDNS nor a probe takes what the user entered; only a restart does.*)
THEOREM ManualEntriesStay == LanSpec => ManualStays
<1>1. LanTypeOK /\ [LanNext]_lanVars =>
        [\A k \in Ids : list[k].source = "manual" =>
            list'[k].source = "manual" \/ ~alive'[Here]]_lanVars
  <2> SUFFICES ASSUME LanTypeOK, [LanNext]_lanVars,
                      NEW k \in Ids, list[k].source = "manual"
               PROVE  list'[k].source = "manual" \/ ~alive'[Here]
    OBVIOUS
  <2>0. /\ list \in [Ids -> [source : Sources, host : Hosts]]
        /\ uid \in [Hosts -> Ids]
    BY DEF LanTypeOK
  <2>1. CASE ListKeeps \/ ListRestarts
    BY <2>1 DEF ListKeeps, ListRestarts
  <2>2. ASSUME NEW h \in Hosts, ListHears(h) \/ ListLoses(h) PROVE list'[k].source = "manual"
    BY <2>0, <2>2 DEF ListHears, ListLoses, upsert
  <2>3. QED
    BY <2>1, <2>2, ListSteps
<1>2. QED
  BY <1>1, NeighboursTyped, PTL DEF LanSpec, ManualStays

(* A host goes by the id it was started with or by that of its user.         *)
OwnId(h) == {BootId[h], AccountId[h]}
OwnIds ==
    \A h \in Hosts : /\ uid[h] \in OwnId(h)
                    /\ services[h] \in OwnId(h) \cup {"none"}

LEMMA OwnIdsStep == LanTypeOK /\ OwnIds /\ [LanNext]_lanVars => OwnIds'
<1> SUFFICES ASSUME LanTypeOK, OwnIds, [LanNext]_lanVars, NEW h \in Hosts
             PROVE  /\ uid'[h] \in OwnId(h)
                    /\ services'[h] \in OwnId(h) \cup {"none"}
  BY DEF OwnIds, OwnId
<1>0. /\ uid \in [Hosts -> Ids] /\ services \in [Hosts -> Ids \cup {"none"}]
      /\ uid[h] \in OwnId(h) /\ services[h] \in OwnId(h) \cup {"none"}
  BY DEF LanTypeOK, OwnIds
<1>1. uid'[h] \in OwnId(h)
  <2>1. CASE uid' = uid
    BY <1>0, <2>1
  <2>2. ASSUME NEW o \in Hosts, setLocalNodeId(o) \/ Boots(o) PROVE uid'[h] \in OwnId(h)
    BY <1>0, <2>2 DEF setLocalNodeId, Boots, OwnId
  <2>3. ASSUME NEW o \in Hosts, Up(o) \/ Down(o) \/ Goes(o) PROVE uid' = uid
    BY <2>3 DEF Up, Down, Goes, hostVars
  <2>4. CASE Connect \/ Disconnect \/ Fetch \/ Probe \/ ProbeEnd
    BY <2>1, <2>4 DEF Connect, Disconnect, Fetch, Probe, ProbeEnd, hostVars
  <2>5. CASE (\E o \in Probed : ProbeReply(o)) \/ \E o \in Others : registerManual(o)
    BY <2>1, <2>5 DEF ProbeReply, registerManual, hostVars
  <2>6. CASE UNCHANGED lanVars
    BY <2>1, <2>6 DEF lanVars, hostVars
  <2>7. QED
    BY <2>1, <2>2, <2>3, <2>4, <2>5, <2>6 DEF LanNext
<1>2. services'[h] \in OwnId(h) \cup {"none"}
  <2>1. CASE ListKeeps \/ ListRestarts
    BY <1>0, <2>1 DEF ListKeeps, ListRestarts
  <2>2. ASSUME NEW o \in Hosts, ListHears(o) \/ ListLoses(o)
        PROVE  services'[h] \in OwnId(h) \cup {"none"}
    BY <1>0, <2>2 DEF ListHears, ListLoses
  <2>3. QED
    BY <2>1, <2>2, ListSteps
<1>3. QED
  BY <1>1, <1>2

LEMMA OwnIdsHold == LanSpec => []OwnIds
<1>1. LanInit => OwnIds
  BY NeighbourFacts DEF LanInit, OwnIds, OwnId
<1>2. QED
  BY <1>1, OwnIdsStep, NeighboursTyped, PTL DEF LanSpec

LEMMA ServicesListedStep ==
  ASSUME DistinctNeighbours
  PROVE  LanTypeOK /\ OwnIds /\ ServicesAreListed /\ [LanNext]_lanVars => ServicesAreListed'
<1> SUFFICES ASSUME LanTypeOK, OwnIds, ServicesAreListed, [LanNext]_lanVars,
                    NEW h \in Others, services'[h] # "none", services'[h] \notin OwnId(Here)
             PROVE  list'[services'[h]].source # "none"
  BY DEF ServicesAreListed, OwnId
<1> USE NeighbourFacts
<1>0. /\ list \in [Ids -> [source : Sources, host : Hosts]]
      /\ uid \in [Hosts -> Ids] /\ services \in [Hosts -> Ids \cup {"none"}]
      /\ h \in Hosts
  BY DEF LanTypeOK
<1>1. services[h] # "none" /\ services[h] \notin OwnId(Here) => list[services[h]].source # "none"
  BY DEF ServicesAreListed, OwnId
<1>2. CASE ListKeeps
  <2>1. services'[h] = services[h] /\ services[h] \in Ids /\ list[services[h]].source # "none"
    BY <1>0, <1>1, <1>2 DEF ListKeeps
  <2>2. QED
    BY <1>2, <2>1 DEF ListKeeps
<1>3. CASE ListRestarts
  BY <1>0, <1>3 DEF ListRestarts
<1>4. ASSUME NEW o \in Hosts, ListHears(o) PROVE list'[services'[h]].source # "none"
  <2>1. uid[o] \in Ids
    BY <1>0
  <2>2. CASE o = h
    <3>1. services'[h] = uid[h] /\ uid[h] # uid[Here]
      BY <1>0, <1>4, <2>2 DEF ListHears, OwnIds
    <3>2. list' = upsert(list, uid[h], h, "mdns")
      BY <1>4, <2>2, <3>1 DEF ListHears
    <3>3. QED
      BY <1>0, <2>1, <2>2, <3>1, <3>2, UpsertEntry
  <2>3. CASE o # h
    <3>1. services'[h] = services[h] /\ services[h] \in Ids /\ list[services[h]].source # "none"
      BY <1>0, <1>1, <1>4, <2>3 DEF ListHears
    <3>2. list' = list \/ list' = upsert(list, uid[o], o, "mdns")
      BY <1>4 DEF ListHears
    <3>3. upsert(list, uid[o], o, "mdns")[services[h]].source \in {"mdns", list[services[h]].source}
      BY <1>0, <2>1, <3>1 DEF upsert
    <3>4. QED
      BY <3>1, <3>2, <3>3
  <2>4. QED
    BY <2>2, <2>3
<1>5. ASSUME NEW o \in Hosts, ListLoses(o) PROVE list'[services'[h]].source # "none"
  <2>1. o # h
    BY <1>0, <1>5 DEF ListLoses
  <2>2. services'[h] = services[h] /\ services[h] \in Ids /\ list[services[h]].source # "none"
    BY <1>0, <1>1, <1>5, <2>1 DEF ListLoses
  <2>3. services[o] # services[h]
    <3>1. services[h] \in OwnId(h) /\ services[o] \in OwnId(o)
      BY <1>0, <1>5, <2>2 DEF OwnIds, ListLoses
    <3>2. CASE o = Here
      BY <2>2, <3>1, <3>2
    <3>3. CASE o # Here
      <4>1. o \in Others
        BY <3>3 DEF Hosts
      <4>2. OwnId(h) \cap OwnId(o) = {}
        BY <2>1, <4>1 DEF DistinctNeighbours, OwnId
      <4>3. QED
        BY <3>1, <4>2
    <3>4. QED
      BY <3>2, <3>3
  <2>4. list'[services[h]] = list[services[h]]
    BY <1>0, <1>5, <2>2, <2>3 DEF ListLoses
  <2>5. QED
    BY <2>2, <2>4
<1>6. QED
  BY <1>2, <1>3, <1>4, <1>5, ListSteps

(* Where no two neighbours are of one user, each service has its entry: no   *)
(* probe, no manual entry and no goodbye of another service takes it away.   *)
THEOREM ServicesStayListed ==
  ASSUME DistinctNeighbours
  PROVE  LanSpec => []ServicesAreListed
<1>1. LanInit => ServicesAreListed
  BY NeighbourFacts DEF LanInit, ServicesAreListed
<1>2. QED
  BY <1>1, ServicesListedStep, OwnIdsHold, NeighboursTyped, PTL DEF LanSpec
==============================================================================
