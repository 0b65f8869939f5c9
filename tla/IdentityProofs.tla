---------------------------- MODULE IdentityProofs ----------------------------
(* Who one is, proved for any number of users, tabs, calls, restarts and     *)
(* messages. Accounts: no node is two users', and the private key in the     *)
(* browser is the one of the session beside it. Tokens: the published key is *)
(* the one that signs, and one outcome ends a handshake.                     *)
EXTENDS Accounts, Tokens, TLAPS

(* What every call under way may rely on when its answer comes late.         *)
CallOK(c) ==
    /\ c.kind \in {"register", "login"} => c.user \in Users
    /\ c.phase = "checked" => c.kind = "register"
    /\ c.phase \in {"sent", "checked"} \/ c.kind = "rename" => c.node = NoNode
    /\ c.phase = "created" => c.kind \in {"register", "login"} /\ c.node # NoNode
    /\ c.phase = "stored" => c.kind = "rename" /\ c.user \in Users
    /\ c.phase = "answered" /\ c.kind # "rename" => c.node # NoNode
    /\ c.phase = "answered" /\ c.kind \in {"register", "login"} =>
          c.session # 0 /\ sessions[c.session].user = c.user
    /\ c.node # NoNode => c.user \in registered /\ users[c.user].node = c.node

CallsOK == \A c \in calls : CallOK(c)

Inv == TypeOK /\ NodesAreOwn /\ KeyIsOfSession /\ CallsOK

LEMMA NobodysNode == NoUser.node = -1 /\ -1 \notin Nat
BY DEF NoUser, NoNode

LEMMA SessionOfCall ==
    ASSUME NEW c \in Calls
    PROVE  c.session \in Nat
<1>1. c.session \in 0..MaxSessions BY DEF Calls
<1> QED BY <1>1, BoundAssumption

(* A user is registered exactly when it has a node.                          *)
LEMMA HasNode ==
    ASSUME TypeOK, NEW u \in Users
    PROVE  (u \in registered => users[u].node \in Nat) /\ (u \notin registered => users[u].node = -1)
<1>1. users[u] \in [node : Nodes, name : Names] \cup {NoUser} BY DEF TypeOK
<1>2. CASE users[u] = NoUser BY <1>2, NobodysNode DEF registered
<1>3. CASE users[u] \in [node : Nodes, name : Names]
  <2>1. users[u].node \in Nat BY <1>3 DEF Nodes
  <2>2. users[u] # NoUser BY <2>1, NobodysNode
  <2> QED BY <2>1, <2>2 DEF registered
<1> QED BY <1>1, <1>2, <1>3

LEMMA InitInv == Init => Inv
<1> SUFFICES ASSUME Init PROVE Inv OBVIOUS
<1> DEFINE One == [node |-> 1, name |-> ""]
<1>0. PICK u0 \in Users : users \in {[u \in Users |-> NoUser],
                                   [u \in Users |-> IF u = u0 THEN One ELSE NoUser]}
  BY DEF Init
<1>1. users \in [Users -> [node : Nodes, name : Names] \cup {NoUser}]
  <2>1. One \in [node : Nodes, name : Names] BY DEF Nodes, Names
  <2> QED BY <1>0, <2>1
<1>2. fresh = 1 /\ \A u \in Users : users[u].node <= fresh
  <2>1. fresh = 1 BY DEF Init
  <2>2. One.node <= 1 OBVIOUS
  <2>3. NoUser.node <= 1 BY NobodysNode
  <2>4. \A u \in Users : users[u] = One \/ users[u] = NoUser BY <1>0
  <2> HIDE DEF One
  <2> QED BY <2>1, <2>2, <2>3, <2>4
<1>3. TypeOK
  <2>1. sessions = <<>> BY DEF Init
  <2>2. sessions \in Seq([user : registered, valid : BOOLEAN]) /\ Len(sessions) = 0
    BY <2>1
  <2>3. members \in [Users -> Names] /\ page \in [Tabs -> {"auth", "app"}]
    BY DEF Init, Names
  <2>4. calls = {} /\ made = 0 /\ token = 0 BY DEF Init
  <2>5. token \in 0..Len(sessions) /\ Len(sessions) <= MaxSessions
    BY <2>2, <2>4, BoundAssumption
  <2>6. calls \subseteq Calls /\ made \in 0..MaxCalls /\ \A c \in calls : c.session <= Len(sessions)
    BY <2>4, BoundAssumption
  <2>7. account \in Accounts \cup {NoAccount} /\ migrated \in BOOLEAN /\ fresh \in Nat
    BY DEF Init
  <2> QED BY <1>1, <1>2, <2>2, <2>3, <2>5, <2>6, <2>7 DEF TypeOK
<1>4. NodesAreOwn
  <2>1. \A u, v \in registered : users[u].node = users[v].node => u = v
    BY DEF Init, registered, NoUser, NoNode
  <2> QED BY <2>1 DEF Init, NodesAreOwn
<1> QED BY <1>3, <1>4 DEF Init, Inv, KeyIsOfSession, CallsOK

LEMMA LenTyped ==
    ASSUME TypeOK
    PROVE  Len(sessions) \in Nat
<1> DEFINE S == [user : registered, valid : BOOLEAN]
<1>1. sessions \in Seq(S) BY DEF TypeOK
<1> HIDE DEF S
<1> QED BY <1>1

LEMMA SessionTyped ==
    ASSUME TypeOK, NEW s \in 1..Len(sessions)
    PROVE  sessions[s].user \in registered /\ sessions[s].valid \in BOOLEAN
<1> DEFINE S == [user : registered, valid : BOOLEAN]
<1>1. sessions \in Seq(S) BY DEF TypeOK
<1>2. sessions[s] \in S
  <2> HIDE DEF S
  <2> QED BY <1>1
<1> QED BY <1>2

(* What the server must leave to those who were answered before: users stay  *)
(* registered with their node, and sessions stay their users'.               *)
ServerKeeps ==
    /\ registered \subseteq registered'
    /\ \A u \in registered : users'[u].node = users[u].node
    /\ Len(sessions) \in Nat /\ Len(sessions') \in Nat /\ Len(sessions) <= Len(sessions')
    /\ \A s \in 1..Len(sessions) : sessions'[s].user = sessions[s].user

LEMMA CallKept ==
    ASSUME TypeOK, ServerKeeps, NEW c \in calls, CallOK(c)
    PROVE  CallOK(c)'
<1>1. c.session \in 0..MaxSessions /\ c.session <= Len(sessions) BY DEF TypeOK, Calls
<1>2. c.session # 0 => c.session \in 1..Len(sessions) BY <1>1 DEF TypeOK
<1> QED BY <1>2 DEF ServerKeeps, CallOK

LEMMA AccountKept ==
    ASSUME TypeOK, ServerKeeps, KeyIsOfSession, UNCHANGED <<token, account>>
    PROVE  KeyIsOfSession'
<1> SUFFICES ASSUME account # NoAccount PROVE KeyIsOfSession'
  BY DEF KeyIsOfSession
<1>1. token \in 1..Len(sessions) BY DEF KeyIsOfSession, TypeOK
<1>2. account.user \in Users /\ account.node \in Nat /\ account.key \in Nat
  BY DEF TypeOK, Accounts, Nodes
<1>3. account.user \in registered
  BY <1>2, HasNode DEF KeyIsOfSession
<1>4. sessions[token].user \in registered
  BY <1>1, SessionTyped
<1> QED BY <1>1, <1>3, <1>4 DEF KeyIsOfSession, ServerKeeps

(* A step that only replaces or ends a call.                                 *)
LEMMA ServerSame ==
    ASSUME TypeOK, UNCHANGED <<users, sessions>>
    PROVE  ServerKeeps
BY DEF ServerKeeps, TypeOK, registered

LEMMA CallsKept ==
    ASSUME Inv, ServerKeeps,
           NEW d, d \in Calls, CallOK(d)', d.session <= Len(sessions'),
           calls' \subseteq calls \cup {d}
    PROVE  CallsOK' /\ calls' \subseteq Calls
           /\ \A c \in calls' : c.session <= Len(sessions') /\ (c.node # NoNode => users'[c.user].node = c.node)
<1>1. \A c \in calls : CallOK(c)' BY CallKept DEF Inv, CallsOK
<1>2. \A c \in calls : c.session <= Len(sessions')
  <2> SUFFICES ASSUME NEW c \in calls PROVE c.session <= Len(sessions') OBVIOUS
  <2>1. c \in Calls /\ c.session <= Len(sessions) BY DEF Inv, TypeOK
  <2>2. c.session \in Nat BY <2>1, SessionOfCall
  <2> QED BY <2>1, <2>2 DEF ServerKeeps
<1>3. \A c \in calls' : c \in calls \/ c = d OBVIOUS
<1>4. CallsOK' BY <1>1, <1>3 DEF CallsOK
<1>5. \A c \in calls' : c.node # NoNode => users'[c.user].node = c.node
  BY <1>4 DEF CallsOK, CallOK
<1>6. calls' \subseteq Calls BY <1>3 DEF Inv, TypeOK
<1> QED BY <1>2, <1>3, <1>4, <1>5, <1>6
-----------------------------------------------------------------------------
(* The server's part of the type invariant.                                  *)
ServerTyped ==
    /\ users \in [Users -> [node : Nodes, name : Names] \cup {NoUser}]
    /\ fresh \in Nat /\ \A u \in Users : users[u].node <= fresh
    /\ members \in [Users -> Names]
    /\ sessions \in Seq([user : registered, valid : BOOLEAN]) /\ Len(sessions) <= MaxSessions

NodesDiffer == \A u, v \in registered : users[u].node = users[v].node => u = v

(* A step of the server that moves one call on.                              *)
LEMMA CallMoves ==
    ASSUME Inv, NEW d \in Calls, CallOK(d)', d.session <= Len(sessions'),
           calls' \subseteq calls \cup {d},
           ServerKeeps, ServerTyped', NodesDiffer', UNCHANGED <<browser, made>>
    PROVE  Inv'
<1>1. CallsOK' /\ calls' \subseteq Calls
      /\ \A c \in calls' : c.session <= Len(sessions') /\ (c.node # NoNode => users'[c.user].node = c.node)
  BY CallsKept
<1>2. token' \in 0..Len(sessions')
  <2>1. token \in 0..Len(sessions) BY DEF Inv, TypeOK
  <2> QED BY <2>1 DEF browser, ServerKeeps
<1>3. TypeOK' BY <1>1, <1>2 DEF ServerTyped, Inv, TypeOK, browser
<1>4. NodesAreOwn' BY <1>1 DEF NodesDiffer, NodesAreOwn
<1>5. KeyIsOfSession' BY AccountKept DEF Inv, browser
<1> QED BY <1>1, <1>3, <1>4, <1>5 DEF Inv

(* Such a step that leaves users and sessions alone.                         *)
LEMMA CallChanges ==
    ASSUME Inv, NEW c \in calls, NEW d \in Calls, CallOK(d), d.session = c.session,
           calls' \subseteq calls \cup {d}, members' \in [Users -> Names],
           UNCHANGED <<users, fresh, sessions, browser, made>>
    PROVE  Inv'
<1>1. ServerKeeps BY ServerSame DEF Inv
<1>2. ServerTyped' BY DEF ServerTyped, Inv, TypeOK, registered
<1>3. NodesDiffer' BY DEF Inv, NodesAreOwn, NodesDiffer, registered
<1>4. CallOK(d)' BY DEF CallOK, registered
<1>5. d.session <= Len(sessions') BY DEF Inv, TypeOK
<1> QED BY <1>1, <1>2, <1>3, <1>4, <1>5, CallMoves

LEMMA Counts ==
    ASSUME NEW a \in 0..MaxCalls, a < MaxCalls
    PROVE  a + 1 \in 1..MaxCalls /\ a + 1 \in 0..MaxCalls
BY BoundAssumption

LEMMA TokenBound ==
    ASSUME TypeOK
    PROVE  token \in 0..MaxSessions /\ token <= Len(sessions)
<1>1. Len(sessions) \in Nat BY LenTyped
<1>2. token \in 0..Len(sessions) /\ Len(sessions) <= MaxSessions BY DEF TypeOK
<1> QED BY <1>1, <1>2, BoundAssumption

(* A new call knows nothing yet.                                             *)
LEMMA CallMade ==
    ASSUME Inv, NEW t \in Tabs, NEW kind \in Kinds, NEW u \in Users \cup {""},
           NEW name \in Names, NEW legacy \in BOOLEAN,
           kind \in {"register", "login"} => u \in Users,
           Call(t, kind, u, name, legacy),
           UNCHANGED <<server, token, account, migrated>>,
           page' \in [Tabs -> {"auth", "app"}]
    PROVE  Inv'
<1>0. PICK d : d = [id |-> made + 1, tab |-> t, kind |-> kind, phase |-> "sent", user |-> u,
                   session |-> token, legacy |-> legacy, name |-> name, node |-> NoNode]
  OBVIOUS
<1>1. token \in 0..MaxSessions /\ token <= Len(sessions) BY TokenBound DEF Inv
<1>2. made + 1 \in 1..MaxCalls /\ made' \in 0..MaxCalls
  <2>1. made \in 0..MaxCalls BY DEF Inv, TypeOK
  <2>2. made < MaxCalls /\ made' = made + 1 BY DEF Call
  <2> QED BY <2>1, <2>2, Counts
<1>3. d \in Calls BY <1>0, <1>1, <1>2 DEF Calls, Phases
<1>4. ServerKeeps BY ServerSame DEF Inv, server
<1>5. CallOK(d)' BY <1>0 DEF CallOK
<1>6. d.session <= Len(sessions') BY <1>0, <1>1 DEF server
<1>7. calls' \subseteq calls \cup {d} BY <1>0 DEF Call
<1>8. CallsOK' /\ calls' \subseteq Calls
      /\ \A c \in calls' : c.session <= Len(sessions') /\ (c.node # NoNode => users'[c.user].node = c.node)
  BY <1>3, <1>4, <1>5, <1>6, <1>7, CallsKept
<1>9. TypeOK' BY <1>2, <1>8 DEF Inv, TypeOK, server, registered
<1>10. NodesAreOwn' BY <1>8 DEF Inv, NodesAreOwn, server, registered
<1>11. KeyIsOfSession' BY <1>4, AccountKept DEF Inv
<1> QED BY <1>8, <1>9, <1>10, <1>11 DEF Inv

(* An answer is used: the call is gone, the server does not move.            *)
LEMMA CallEnds ==
    ASSUME Inv, NEW c \in calls, Ends(c), UNCHANGED <<server, made>>,
           token' \in 0..Len(sessions), account' \in Accounts \cup {NoAccount},
           migrated' \in BOOLEAN, page' \in [Tabs -> {"auth", "app"}],
           KeyIsOfSession'
    PROVE  Inv'
<1>1. ServerKeeps BY ServerSame DEF Inv, server
<1>2. c \in Calls /\ c.session <= Len(sessions') BY DEF Inv, TypeOK, server
<1>3. CallOK(c)' BY <1>1, CallKept DEF Inv, CallsOK
<1>4. calls' \subseteq calls \cup {c} BY DEF Ends
<1>5. CallsOK' /\ calls' \subseteq Calls
      /\ \A d \in calls' : d.session <= Len(sessions') /\ (d.node # NoNode => users'[d.user].node = d.node)
  BY <1>1, <1>2, <1>3, <1>4, CallsKept
<1>6. TypeOK' BY <1>5 DEF Inv, TypeOK, server, registered
<1>7. NodesAreOwn' BY <1>5 DEF Inv, NodesAreOwn, server, registered
<1> QED BY <1>5, <1>6, <1>7 DEF Inv
-----------------------------------------------------------------------------
LEMMA RegisterCheckKeeps ==
    ASSUME Inv, NEW c \in calls, RegisterCheck(c)
    PROVE  Inv'
<1> DEFINE d == [c EXCEPT !.phase = "checked"]
<1>1. c \in Calls /\ CallOK(c) BY DEF Inv, TypeOK, CallsOK
<1>2. d \in Calls /\ d.session = c.session BY <1>1 DEF Calls, Phases
<1>3. CallOK(d) BY <1>1 DEF RegisterCheck, CallOK, Calls
<1>4. calls' \subseteq calls \cup {d} BY DEF RegisterCheck, To
<1>5. members' \in [Users -> Names] /\ UNCHANGED <<users, fresh, sessions, browser, made>>
  BY DEF RegisterCheck, server, Inv, TypeOK
<1> HIDE DEF d
<1> QED BY <1>2, <1>3, <1>4, <1>5, CallChanges

LEMMA UserTyped ==
    ASSUME TypeOK, NEW u \in registered
    PROVE  u \in Users /\ users[u].node \in Nodes /\ users[u].name \in Names
<1>1. u \in Users BY DEF registered
<1>2. users[u] \in [node : Nodes, name : Names] BY <1>1 DEF TypeOK, registered
<1> QED BY <1>1, <1>2

(* login and me answer with a registered user's node.                        *)
LEMMA AnswerIsUsers ==
    ASSUME Inv, NEW c \in Calls, NEW u \in registered, NEW phase \in {"created", "answered"},
           phase = "created" => c.kind = "login" /\ u = c.user,
           phase = "answered" => c.kind = "me",
           NEW d, d = [c EXCEPT !.phase = phase, !.user = u, !.node = users[u].node,
                                !.name = users[u].name]
    PROVE  d \in Calls /\ CallOK(d) /\ d.session = c.session
<1>1. u \in Users /\ users[u].node \in Nodes /\ users[u].name \in Names
  BY UserTyped DEF Inv
<1>2. users[u].node # NoNode
  <2>1. NoNode \notin Nat BY NobodysNode DEF NoUser
  <2> QED BY <1>1, <2>1 DEF Nodes
<1>3. d \in Calls /\ d.session = c.session BY <1>1 DEF Calls, Phases
<1>4. d.phase = phase /\ d.kind = c.kind /\ d.user = u /\ d.node = users[u].node
  BY DEF Calls
<1> QED BY <1>1, <1>2, <1>3, <1>4 DEF CallOK

LEMMA LoginKeeps ==
    ASSUME Inv, NEW c \in calls, Login(c)
    PROVE  Inv'
<1>1. c \in Calls /\ c.user \in registered /\ c.kind = "login" BY DEF Inv, TypeOK, Login
<1>2. PICK d : d = [c EXCEPT !.phase = "created", !.user = c.user, !.node = users[c.user].node,
                             !.name = users[c.user].name]
  OBVIOUS
<1>3. d = [c EXCEPT !.phase = "created", !.node = users[c.user].node, !.name = users[c.user].name]
  BY <1>1, <1>2 DEF Calls
<1>4. d \in Calls /\ CallOK(d) /\ d.session = c.session
  BY <1>1, <1>2, AnswerIsUsers
<1>5. calls' \subseteq calls \cup {d} BY <1>3 DEF Login, To
<1>6. members' \in [Users -> Names] /\ UNCHANGED <<users, fresh, sessions, browser, made>>
  BY DEF Login, server, Inv, TypeOK
<1> QED BY <1>4, <1>5, <1>6, CallChanges

LEMMA MeKeeps ==
    ASSUME Inv, NEW c \in calls, Me(c)
    PROVE  Inv'
<1>1. c \in Calls /\ c.kind = "me" BY DEF Inv, TypeOK, Me
<1>2. c.session \in 1..Len(sessions)
  <2>1. c.session \in Nat BY <1>1, SessionOfCall
  <2>2. c.session # 0 /\ c.session <= Len(sessions) BY DEF Me, Valid, Inv, TypeOK
  <2> QED BY <2>1, <2>2, LenTyped DEF Inv
<1>3. PICK u : u = sessions[c.session].user OBVIOUS
<1>4. u \in registered BY <1>2, <1>3, SessionTyped DEF Inv
<1>5. PICK d : d = [c EXCEPT !.phase = "answered", !.user = u, !.node = users[u].node,
                             !.name = users[u].name]
  OBVIOUS
<1>6. d \in Calls /\ CallOK(d) /\ d.session = c.session
  BY <1>1, <1>4, <1>5, AnswerIsUsers
<1>7. calls' \subseteq calls \cup {d} BY <1>3, <1>5 DEF Me, To
<1>8. members' \in [Users -> Names] /\ UNCHANGED <<users, fresh, sessions, browser, made>>
  BY DEF Me, server, Inv, TypeOK
<1> QED BY <1>6, <1>7, <1>8, CallChanges

LEMMA RenameMemberKeeps ==
    ASSUME Inv, NEW c \in calls, RenameMember(c)
    PROVE  Inv'
<1>1. c \in Calls /\ CallOK(c) BY DEF Inv, TypeOK, CallsOK
<1>2. PICK d : d = [c EXCEPT !.phase = "answered"] OBVIOUS
<1>3. d \in Calls /\ d.session = c.session /\ CallOK(d)
  BY <1>1, <1>2 DEF Calls, Phases, RenameMember, CallOK
<1>4. calls' \subseteq calls \cup {d} BY <1>2 DEF RenameMember, To
<1>5. members' \in [Users -> Names]
  <2>1. c.name \in Names BY <1>1 DEF Calls
  <2> QED BY <2>1 DEF RenameMember, Inv, TypeOK
<1>6. UNCHANGED <<users, fresh, sessions, browser, made>> BY DEF RenameMember
<1> QED BY <1>3, <1>4, <1>5, <1>6, CallChanges
-----------------------------------------------------------------------------
LEMMA RenameAccountKeeps ==
    ASSUME Inv, NEW c \in calls, RenameAccount(c)
    PROVE  Inv'
<1>1. c \in Calls /\ CallOK(c) /\ c.session <= Len(sessions) BY DEF Inv, TypeOK, CallsOK
<1>2. c.session \in 1..Len(sessions)
  <2>1. c.session \in Nat BY <1>1, SessionOfCall
  <2>2. c.session # 0 BY DEF RenameAccount, Valid
  <2> QED BY <1>1, <2>1, <2>2, LenTyped DEF Inv
<1>3. PICK u : u = sessions[c.session].user OBVIOUS
<1>4. u \in registered BY <1>2, <1>3, SessionTyped DEF Inv
<1>5. u \in Users /\ users[u] \in [node : Nodes, name : Names] /\ c.name \in Names
  BY <1>1, <1>4 DEF Calls, registered, Inv, TypeOK
<1>6. PICK d : d = [c EXCEPT !.phase = "stored", !.user = u] OBVIOUS
<1>7. users' = [users EXCEPT ![u].name = c.name] /\ calls' \subseteq calls \cup {d}
      /\ UNCHANGED <<fresh, members, sessions, browser, made>>
  BY <1>3, <1>6 DEF RenameAccount, To
<1>8. users' \in [Users -> [node : Nodes, name : Names] \cup {NoUser}]
      /\ users'[u] \in [node : Nodes, name : Names]
      /\ \A v \in Users : users'[v].node = users[v].node /\ (v # u => users'[v] = users[v])
  <2>1. [users[u] EXCEPT !.name = c.name] \in [node : Nodes, name : Names]
        /\ [users[u] EXCEPT !.name = c.name].node = users[u].node
    BY <1>5
  <2> QED BY <1>5, <1>7, <2>1 DEF Inv, TypeOK
<1>9. registered' = registered
  <2>1. \A n \in [node : Nodes, name : Names] : n # NoUser BY NobodysNode DEF Nodes
  <2> QED BY <1>4, <1>5, <1>8, <2>1 DEF registered
<1>10. ServerKeeps BY <1>7, <1>8, <1>9, LenTyped DEF ServerKeeps, Inv, registered
<1>11. ServerTyped' BY <1>7, <1>8, <1>9 DEF ServerTyped, Inv, TypeOK
<1>12. NodesDiffer' BY <1>8, <1>9 DEF NodesDiffer, Inv, NodesAreOwn, registered
<1>13. d \in Calls /\ d.session <= Len(sessions')
  BY <1>1, <1>5, <1>6, <1>7 DEF Calls, Phases
<1>14. CallOK(d)'
  <2>1. d.phase = "stored" /\ d.kind = "rename" /\ d.user = u /\ d.node = c.node
    BY <1>1, <1>6 DEF Calls, RenameAccount
  <2>2. c.node = NoNode BY <1>1 DEF CallOK, RenameAccount, Inv, NodesAreOwn
  <2> QED BY <1>5, <2>1, <2>2 DEF CallOK
<1> QED BY <1>7, <1>10, <1>11, <1>12, <1>13, <1>14, CallMoves

LEMMA IssueSessionKeeps ==
    ASSUME Inv, NEW c \in calls, IssueSession(c)
    PROVE  Inv'
<1>1. c \in Calls /\ CallOK(c) BY DEF Inv, TypeOK, CallsOK
<1>2. c.user \in registered /\ c.node # NoNode /\ c.kind \in {"register", "login"}
      /\ users[c.user].node = c.node
  BY <1>1 DEF IssueSession, CallOK
<1>3. PICK n : n = Len(sessions) + 1 OBVIOUS
<1>4. Len(sessions) \in Nat BY LenTyped DEF Inv
<1>5. PICK e : e = [user |-> c.user, valid |-> TRUE] OBVIOUS
<1> DEFINE S == [user : registered, valid : BOOLEAN]
<1>6. e \in S BY <1>2, <1>5
<1>7. sessions \in Seq(S) /\ sessions' = Append(sessions, e)
  BY <1>5 DEF IssueSession, Inv, TypeOK
<1>8. sessions' \in Seq(S) /\ Len(sessions') = n /\ sessions'[n] = e
      /\ \A s \in 1..Len(sessions) : sessions'[s] = sessions[s]
  <2> HIDE DEF S
  <2> QED BY <1>3, <1>4, <1>6, <1>7
<1>9. n \in 0..MaxSessions /\ n <= MaxSessions
  <2>1. Len(sessions) < MaxSessions BY DEF IssueSession
  <2> QED BY <1>3, <1>4, <2>1, BoundAssumption
<1>10. UNCHANGED <<users, fresh, members, browser, made>> BY DEF IssueSession
<1>11. PICK d : d = [c EXCEPT !.phase = "answered", !.session = n] OBVIOUS
<1>12. d \in Calls /\ d.session = n /\ d.phase = "answered" /\ d.kind = c.kind /\ d.user = c.user
       /\ d.node = c.node
  BY <1>1, <1>9, <1>11 DEF Calls, Phases
<1>13. ServerKeeps
  <2>1. \A s \in 1..Len(sessions) : sessions'[s].user = sessions[s].user BY <1>8
  <2>2. registered' = registered BY <1>10 DEF registered
  <2> QED BY <1>3, <1>4, <1>8, <1>10, <2>1, <2>2 DEF ServerKeeps
<1>14. ServerTyped' BY <1>8, <1>9, <1>10 DEF ServerTyped, Inv, TypeOK, registered
<1>15. NodesDiffer' BY <1>10 DEF NodesDiffer, Inv, NodesAreOwn, registered
<1>16. CallOK(d)'
  <2>1. n # 0 /\ sessions'[n].user = c.user BY <1>3, <1>4, <1>5, <1>8
  <2> QED BY <1>2, <1>10, <1>12, <2>1 DEF CallOK, registered
<1>17. d.session <= Len(sessions') /\ calls' \subseteq calls \cup {d}
  <2>1. d.session <= Len(sessions') BY <1>3, <1>4, <1>8, <1>12
  <2> QED BY <2>1, <1>3, <1>11 DEF IssueSession, To
<1> QED BY <1>10, <1>12, <1>13, <1>14, <1>15, <1>16, <1>17, CallMoves

LEMMA ExpireKeeps ==
    ASSUME Inv, NEW s \in 1..Len(sessions), Expire(s)
    PROVE  Inv'
<1> DEFINE S == [user : registered, valid : BOOLEAN]
<1>1. sessions \in Seq(S) /\ Len(sessions) \in Nat BY LenTyped DEF Inv, TypeOK
<1>2. PICK e : e = [sessions[s] EXCEPT !.valid = FALSE] OBVIOUS
<1>3. sessions[s] \in S
  <2> HIDE DEF S
  <2> QED BY <1>1
<1>4. e \in S /\ e.user = sessions[s].user BY <1>2, <1>3
<1>5. sessions' = [sessions EXCEPT ![s] = e] BY <1>2 DEF Expire
<1>6. sessions' \in Seq(S) /\ Len(sessions') = Len(sessions)
      /\ \A i \in 1..Len(sessions) : sessions'[i] = IF i = s THEN e ELSE sessions[i]
  <2> HIDE DEF S
  <2> QED BY <1>1, <1>4, <1>5
<1>7. UNCHANGED <<users, fresh, members, browser, calls, made>> BY DEF Expire
<1>8. ServerKeeps
  <2>1. registered' = registered BY <1>7 DEF registered
  <2> QED BY <1>1, <1>4, <1>6, <1>7, <2>1 DEF ServerKeeps
<1>9. CallsOK' BY <1>7, <1>8, CallKept DEF Inv, CallsOK
<1>10. KeyIsOfSession' BY <1>7, <1>8, AccountKept DEF Inv, browser
<1>11. NodesAreOwn' BY <1>7 DEF Inv, NodesAreOwn, registered
<1>12. TypeOK' BY <1>6, <1>7 DEF Inv, TypeOK, browser, registered
<1> QED BY <1>9, <1>10, <1>11, <1>12 DEF Inv

(* A new user gets a node nobody has: the old key, unless it has been taken, *)
(* or one that was never generated before.                                   *)
LEMMA RegisterCommitKeeps ==
    ASSUME Inv, NEW c \in calls, RegisterCommit(c)
    PROVE  Inv'
<1>1. c \in Calls /\ CallOK(c) /\ c.session <= Len(sessions) BY DEF Inv, TypeOK, CallsOK
<1>2. c.user \in Users /\ c.user \notin registered /\ c.kind = "register" /\ c.name \in Names
  BY <1>1 DEF CallOK, RegisterCommit, Calls
<1>3. PICK node : node = IF c.legacy THEN LegacyNode ELSE fresh + 1 OBVIOUS
<1>4. fresh \in Nat /\ \A v \in Users : users[v].node <= fresh BY DEF Inv, TypeOK
<1>5. node \in Nat /\ fresh' \in Nat /\ fresh <= fresh' /\ node <= fresh'
  <2>1. fresh' = IF c.legacy THEN fresh ELSE fresh + 1 BY DEF RegisterCommit
  <2> QED BY <1>3, <1>4, <2>1 DEF LegacyNode
<1>6. \A v \in registered : users[v].node # node
  <2>1. CASE c.legacy BY <1>3, <2>1 DEF RegisterCommit, registered
  <2>2. CASE ~c.legacy
    <3> SUFFICES ASSUME NEW v \in registered PROVE users[v].node # node OBVIOUS
    <3>1. users[v].node \in Nat /\ users[v].node <= fresh
      BY <1>4, UserTyped DEF Inv, Nodes
    <3> QED BY <1>3, <1>4, <2>2, <3>1
  <2> QED BY <2>1, <2>2
<1>7. PICK e : e = [node |-> node, name |-> c.name] OBVIOUS
<1>8. e \in [node : Nodes, name : Names] /\ e.node = node BY <1>2, <1>5, <1>7 DEF Nodes
<1>9. PICK d : d = [c EXCEPT !.phase = "created", !.node = node] OBVIOUS
<1>10. users' = [users EXCEPT ![c.user] = e] /\ calls' \subseteq calls \cup {d}
       /\ UNCHANGED <<members, sessions, browser, made>>
  BY <1>3, <1>7, <1>9 DEF RegisterCommit, To
<1>11. users' \in [Users -> [node : Nodes, name : Names] \cup {NoUser}]
       /\ \A v \in Users : users'[v] = IF v = c.user THEN e ELSE users[v]
  BY <1>2, <1>8, <1>10 DEF Inv, TypeOK
<1>12. registered' = registered \cup {c.user}
  <2>1. e # NoUser BY <1>5, <1>8, NobodysNode
  <2> QED BY <1>2, <1>11, <2>1 DEF registered
<1>13. ServerKeeps
  BY <1>2, <1>10, <1>11, <1>12, LenTyped DEF ServerKeeps, Inv, registered
<1>14. \A v \in Users : users'[v].node <= fresh'
  <2> SUFFICES ASSUME NEW v \in Users PROVE users'[v].node <= fresh' OBVIOUS
  <2>1. CASE v = c.user BY <1>5, <1>8, <1>11, <2>1
  <2>2. CASE v # c.user
    <3>1. users[v].node <= fresh /\ users[v].node \in Int
      <4>1. users[v].node \in Nat \/ users[v].node = -1 BY HasNode DEF Inv
      <4> QED BY <1>4, <4>1
    <3> QED BY <1>4, <1>5, <1>11, <2>2, <3>1
  <2> QED BY <2>1, <2>2
<1>15. ServerTyped'
  <2>1. sessions' \in Seq([user : registered', valid : BOOLEAN]) /\ Len(sessions') <= MaxSessions
    <3>1. [user : registered, valid : BOOLEAN] \subseteq [user : registered', valid : BOOLEAN]
      BY <1>12
    <3> DEFINE S == [user : registered, valid : BOOLEAN]
               T == [user : registered', valid : BOOLEAN]
    <3>2. sessions \in Seq(S) /\ Len(sessions) <= MaxSessions /\ sessions' = sessions /\ S \subseteq T
      BY <1>10, <3>1 DEF Inv, TypeOK
    <3> HIDE DEF S, T
    <3>3. sessions' \in Seq(T) BY <3>2
    <3> QED BY <3>2, <3>3 DEF T
  <2> QED BY <1>5, <1>10, <1>11, <1>14, <2>1 DEF ServerTyped, Inv, TypeOK
<1>16. NodesDiffer'
  <2> SUFFICES ASSUME NEW u \in registered', NEW v \in registered', users'[u].node = users'[v].node
               PROVE  u = v
    BY DEF NodesDiffer
  <2>1. u \in Users /\ v \in Users BY DEF registered
  <2> QED BY <1>2, <1>6, <1>8, <1>11, <1>12, <2>1 DEF Inv, NodesAreOwn
<1>17. d \in Calls /\ d.session <= Len(sessions')
  BY <1>1, <1>5, <1>9, <1>10 DEF Calls, Phases, Nodes
<1>18. CallOK(d)'
  <2>1. d.phase = "created" /\ d.kind = "register" /\ d.user = c.user /\ d.node = node
    BY <1>1, <1>2, <1>9 DEF Calls
  <2>2. node # NoNode
    <3>1. NoNode \notin Nat BY NobodysNode DEF NoUser
    <3> QED BY <1>5, <3>1
  <2> QED BY <1>2, <1>8, <1>11, <1>12, <2>1, <2>2 DEF CallOK
<1> QED BY <1>10, <1>13, <1>15, <1>16, <1>17, <1>18, CallMoves
-----------------------------------------------------------------------------
LEMMA CallFailsKeeps ==
    ASSUME Inv, NEW c \in calls, CallFails(c)
    PROVE  Inv'
<1>1. Ends(c) /\ UNCHANGED <<server, browser, made>> BY DEF CallFails
<1>2. KeyIsOfSession' BY <1>1, AccountKept, ServerSame DEF Inv, browser, server
<1> QED BY <1>1, <1>2, CallEnds DEF Inv, TypeOK, browser

LEMMA AuthAnsweredKeeps ==
    ASSUME Inv, NEW c \in calls, AuthAnswered(c)
    PROVE  Inv'
<1>1. c \in Calls /\ CallOK(c) /\ c.session <= Len(sessions) BY DEF Inv, TypeOK, CallsOK
<1>2. c.user \in registered /\ c.session # 0 /\ c.node = users[c.user].node
      /\ sessions[c.session].user = c.user
  BY <1>1 DEF AuthAnswered, CallOK
<1>3. token' = c.session /\ Ends(c) /\ UNCHANGED <<server, made>> BY DEF AuthAnswered
<1>4. token' \in 0..Len(sessions)
  <2>1. c.session \in Nat BY <1>1, SessionOfCall
  <2> QED BY <1>1, <1>3, <2>1, LenTyped DEF Inv
<1>5. account' = [user |-> c.user, node |-> c.node, key |-> c.node, name |-> c.name]
  BY DEF AuthAnswered
<1>6. account' \in Accounts /\ account'.user = c.user /\ account'.node = c.node /\ account'.key = c.node
  <2>1. c.user \in Users /\ c.node \in Nodes BY <1>2, UserTyped DEF Inv
  <2>2. c.name \in Names BY <1>1 DEF Calls
  <2> QED BY <1>5, <2>1, <2>2 DEF Accounts
<1>7. migrated' \in BOOLEAN /\ page' \in [Tabs -> {"auth", "app"}]
  <2>1. migrated' \in BOOLEAN BY <1>1 DEF AuthAnswered, Inv, TypeOK, Calls
  <2>2. page' \in [Tabs -> {"auth", "app"}] BY DEF AuthAnswered, Inv, TypeOK
  <2> QED BY <2>1, <2>2
<1>8. KeyIsOfSession' BY <1>2, <1>3, <1>6 DEF KeyIsOfSession, server
<1> QED BY <1>3, <1>4, <1>6, <1>7, <1>8, CallEnds

LEMMA MeAnsweredKeeps ==
    ASSUME Inv, NEW c \in calls, MeAnswered(c)
    PROVE  Inv'
<1>1. c \in Calls /\ CallOK(c) BY DEF Inv, TypeOK, CallsOK
<1>2. Ends(c) /\ UNCHANGED <<server, token, migrated, page, made>> BY DEF MeAnswered
<1>3. account \in Accounts \cup {NoAccount} BY DEF Inv, TypeOK
<1>4. account' \in Accounts \cup {NoAccount} /\ KeyIsOfSession'
  <2>1. CASE account = NoAccount BY <1>3, <2>1 DEF MeAnswered, KeyIsOfSession
  <2>2. CASE account # NoAccount
    <3>1. c.user \in Users /\ c.node \in Nodes /\ c.name \in Names
          /\ c.node = users[c.user].node
      BY <1>1, UserTyped DEF CallOK, MeAnswered, Inv, Calls
    <3>2. account' = [account EXCEPT !.user = c.user, !.node = c.node, !.name = c.name]
      BY <2>2 DEF MeAnswered
    <3>3. account' \in Accounts /\ account'.user = c.user /\ account'.node = c.node
          /\ account'.key = account.key
      BY <1>3, <2>2, <3>1, <3>2 DEF Accounts
    <3> QED BY <1>2, <2>2, <3>1, <3>3 DEF KeyIsOfSession, Inv, server
  <2> QED BY <2>1, <2>2
<1> QED BY <1>2, <1>4, CallEnds DEF Inv, TypeOK

LEMMA RenameAnsweredKeeps ==
    ASSUME Inv, NEW c \in calls, RenameAnswered(c)
    PROVE  Inv'
<1>1. c.name \in Names BY DEF Inv, TypeOK, Calls
<1>2. Ends(c) /\ UNCHANGED <<server, token, migrated, page, made>> BY DEF RenameAnswered
<1>3. account \in Accounts \cup {NoAccount} BY DEF Inv, TypeOK
<1>4. account' \in Accounts \cup {NoAccount} /\ KeyIsOfSession'
  <2>1. CASE account = NoAccount BY <1>3, <2>1 DEF RenameAnswered, KeyIsOfSession
  <2>2. CASE account # NoAccount
    <3>1. account' = [account EXCEPT !.name = c.name] BY <2>2 DEF RenameAnswered
    <3>2. account' \in Accounts /\ account'.user = account.user /\ account'.node = account.node
          /\ account'.key = account.key
      BY <1>1, <1>3, <2>2, <3>1 DEF Accounts
    <3> QED BY <1>2, <2>2, <3>2 DEF KeyIsOfSession, Inv, server
  <2> QED BY <2>1, <2>2
<1> QED BY <1>2, <1>4, CallEnds DEF Inv, TypeOK

LEMMA ProgressKeeps ==
    ASSUME Inv, NEW c \in calls, Progress(c)
    PROVE  Inv'
BY CallFailsKeeps, RegisterCheckKeeps, RegisterCommitKeeps, LoginKeeps, IssueSessionKeeps,
   MeKeeps, RenameAccountKeeps, RenameMemberKeeps, AuthAnsweredKeeps, MeAnsweredKeeps,
   RenameAnsweredKeeps DEF Progress

LEMMA NoTokenTyped ==
    ASSUME TypeOK
    PROVE  0 \in 0..Len(sessions)
BY LenTyped

LEMMA PageKeeps ==
    ASSUME Inv, NEW t \in Tabs,
           \/ \E u \in Users, n \in DisplayNames : Submit(t, "register", u, n)
           \/ \E u \in Users : Submit(t, "login", u, "")
           \/ Open(t) \/ Logout(t)
           \/ \E n \in DisplayNames : Rename(t, n)
    PROVE  Inv'
<1>1. page \in [Tabs -> {"auth", "app"}] /\ migrated \in BOOLEAN BY DEF Inv, TypeOK
<1>2. ASSUME NEW u \in Users, NEW n \in DisplayNames, Submit(t, "register", u, n) PROVE Inv'
  <2>1. (Legacy /\ ~migrated) \in BOOLEAN OBVIOUS
  <2> QED BY <1>1, <1>2, <2>1, CallMade DEF Submit, browser, Kinds, Names
<1>3. ASSUME NEW u \in Users, Submit(t, "login", u, "") PROVE Inv'
  <2>1. (Legacy /\ ~migrated) \in BOOLEAN OBVIOUS
  <2> QED BY <1>1, <1>3, <2>1, CallMade DEF Submit, browser, Kinds, Names
<1>4. ASSUME NEW n \in DisplayNames, Rename(t, n) PROVE Inv'
  BY <1>1, <1>4, CallMade DEF Rename, browser, Kinds, Names
<1>5. CASE Open(t)
  <2>1. CASE isLoggedIn
    BY <1>1, <1>5, <2>1, CallMade DEF Open, Kinds, Names
  <2>2. CASE ~isLoggedIn
    <3>1. page' \in [Tabs -> {"auth", "app"}]
          /\ UNCHANGED <<server, token, account, migrated, calls, made>>
      BY <1>1, <1>5, <2>2 DEF Open
    <3>2. ServerKeeps BY <3>1, ServerSame DEF Inv, server
    <3>3. CallsOK' BY <3>1, <3>2, CallKept DEF Inv, CallsOK
    <3>4. KeyIsOfSession' BY <3>1, <3>2, AccountKept DEF Inv
    <3>5. TypeOK' BY <3>1 DEF Inv, TypeOK, server, registered
    <3>6. NodesAreOwn' BY <3>1 DEF Inv, NodesAreOwn, server, registered
    <3> QED BY <3>3, <3>4, <3>5, <3>6 DEF Inv
  <2> QED BY <2>1, <2>2
<1>6. CASE Logout(t)
  <2>1. page' \in [Tabs -> {"auth", "app"}] /\ token' = 0 /\ account' = NoAccount
        /\ UNCHANGED <<server, migrated, calls, made>>
    BY <1>1, <1>6 DEF Logout
  <2>2. ServerKeeps BY <2>1, ServerSame DEF Inv, server
  <2>3. CallsOK' BY <2>1, <2>2, CallKept DEF Inv, CallsOK
  <2>4. KeyIsOfSession' BY <2>1 DEF KeyIsOfSession
  <2>5. token' \in 0..Len(sessions')
    <3>1. 0 \in 0..Len(sessions) BY NoTokenTyped DEF Inv
    <3>2. token' = 0 /\ sessions' = sessions BY <2>1 DEF server
    <3> QED BY <3>1, <3>2, Zenon
  <2>6. TypeOK' BY <2>1, <2>5 DEF Inv, TypeOK, server, registered
  <2>7. NodesAreOwn' BY <2>1 DEF Inv, NodesAreOwn, server, registered
  <2> QED BY <2>3, <2>4, <2>6, <2>7 DEF Inv
<1> QED BY <1>2, <1>3, <1>4, <1>5, <1>6

LEMMA StutterKeeps ==
    ASSUME Inv, UNCHANGED vars
    PROVE  Inv'
<1>1. UNCHANGED <<users, fresh, members, sessions, token, account, migrated, page, calls, made>>
  BY DEF vars, server, browser
<1>2. registered' = registered BY <1>1 DEF registered
<1>3. TypeOK' BY <1>1, <1>2 DEF Inv, TypeOK
<1>4. NodesAreOwn' BY <1>1, <1>2 DEF Inv, NodesAreOwn
<1>5. KeyIsOfSession' BY <1>1 DEF Inv, KeyIsOfSession
<1>6. CallsOK' BY <1>1, <1>2 DEF Inv, CallsOK, CallOK
<1> QED BY <1>3, <1>4, <1>5, <1>6 DEF Inv

LEMMA InvIsInductive == Inv /\ [Next]_vars => Inv'
<1> SUFFICES ASSUME Inv, [Next]_vars PROVE Inv' OBVIOUS
<1> QED BY PageKeeps, ProgressKeeps, ExpireKeeps, StutterKeeps DEF Next

LEMMA InvHolds == Spec => []Inv
BY InitInv, InvIsInductive, PTL DEF Spec

(* Types: in particular the browser's session is one the control plane has   *)
(* issued, and every session is a registered user's.                         *)
THEOREM TypeCorrect == Spec => []TypeOK
<1>1. Inv => TypeOK BY DEF Inv
<1> QED BY <1>1, InvHolds, PTL

(* The lookup before the slow hash, the transaction's unique columns and the *)
(* old key that every tab offers leave no node to two users                  *)
(* (AuthService.register).                                                   *)
THEOREM NodesAreTheirUsers == Spec => []NodesAreOwn
<1>1. Inv => NodesAreOwn BY DEF Inv
<1> QED BY <1>1, InvHolds, PTL

(* The private key and the session token are stored apart from each other    *)
(* and answers of other accounts come late, yet they are always of one user  *)
(* (applyAuthSession, refreshStoredIdentityFromProfile).                     *)
THEOREM KeyBelongsToSession == Spec => []KeyIsOfSession
<1>1. Inv => KeyIsOfSession BY DEF Inv
<1> QED BY <1>1, InvHolds, PTL

LEMMA AccountComesByLogin ==
    ASSUME [Next]_vars, account = NoAccount, account' # NoAccount
    PROVE  \E c \in calls \ calls' : c.kind \in {"register", "login"} /\ c.phase = "answered"
<1>1. PICK c \in calls : AuthAnswered(c)
  BY DEF vars, Next, browser, Submit, Open, Rename, Logout, Progress, CallFails, RegisterCheck,
         RegisterCommit, Login, IssueSession, Me, RenameAccount, RenameMember, MeAnswered,
         RenameAnswered, Expire
<1> QED BY <1>1 DEF AuthAnswered, Ends

(* Neither the late profile of useIdentity nor a late rename brings an       *)
(* account back after clearAuthSession.                                      *)
THEOREM LogoutIsLasting == Spec => LogoutStands
<1>1. [Next]_vars =>
          [account = NoAccount /\ account' # NoAccount =>
               \E c \in calls \ calls' : c.kind \in {"register", "login"} /\ c.phase = "answered"]_vars
  BY AccountComesByLogin
<1> QED BY <1>1, PTL DEF Spec, LogoutStands
-----------------------------------------------------------------------------
(* Tokens and handshakes *)

(* Which handler a channel has at which moment of its handshake.             *)
HandshakeOK ==
    /\ chan = "new" => result = "none" /\ handler = "prior"
    /\ chan = "open" /\ handler = "prior" => result = "peer"
    /\ chan = "closed" => result \notin {"none", "peer"} /\ handler = "accept"
    /\ result = "peer" => chan = "open" /\ handler = "prior"
    /\ settled => chan # "new"
    /\ result \notin {"none", "peer"} => chan = "closed"
    /\ taken # <<>> => result = "peer"
    /\ checking # NoMessage => chan # "new"

PlaneTyped ==
    /\ fromEnv \in BOOLEAN
    /\ planeKey \in PlaneKeys /\ restarts \in 0..MaxRestarts /\ planeKey <= restarts + 1
    /\ row \in [mode : {"proxy", "owner_direct"}, proxy : PlaneKeys \cup {NoKey}, issuer : Keys]
    /\ switches \in 0..MaxGovernance
    /\ now \in 0..MaxTime
    /\ pin \in Keys
    /\ jwt \in Tokens \cup {NoToken}

WireTyped ==
    /\ wire \in Seq(Messages) /\ taken \in Seq(Messages)
    /\ sends \in 0..MaxSends
    /\ config \in Keys \cup {NoKey}
    /\ first \in BOOLEAN
    /\ checking \in Messages \cup {NoMessage}

ShakeTyped ==
    /\ chan \in {"new", "open", "closed"}
    /\ timer \in 0..(MaxTime + Timeout)
    /\ result \in Reasons \cup {"none", "peer"}
    /\ handler \in {"prior", "accept"}
    /\ (timer # 0) = (handler = "accept" /\ ~settled)

LEMMA TypeParts == TokenTypeOK <=> PlaneTyped /\ WireTyped /\ ShakeTyped
BY DEF TokenTypeOK, PlaneTyped, WireTyped, ShakeTyped

TokenInv == PlaneTyped /\ WireTyped /\ ShakeTyped /\ HandshakeOK /\ PublishedKeySigns

LEMMA TokenInitInv == TokenInit => TokenInv
<1> SUFFICES ASSUME TokenInit PROVE TokenInv OBVIOUS
<1>1. 1 \in PlaneKeys /\ 1 \in Keys /\ 0 \in 0..MaxRestarts /\ 0 \in 0..MaxGovernance
      /\ 0 \in 0..MaxTime /\ 0 \in 0..MaxSends /\ 0 \in 0..(MaxTime + Timeout)
  BY TokenBoundAssumption, TimeAssumption DEF PlaneKeys, Keys
<1>2. PICK proxy \in BOOLEAN : row = [mode |-> IF proxy THEN "proxy" ELSE "owner_direct",
                                    proxy |-> IF proxy THEN 1 ELSE NoKey, issuer |-> 1]
  BY DEF TokenInit
<1>3. PlaneTyped BY <1>1, <1>2 DEF TokenInit, PlaneTyped
<1>4. WireTyped
  <2>1. wire = <<>> /\ taken = <<>> BY DEF TokenInit
  <2>2. wire \in Seq(Messages) /\ taken \in Seq(Messages) BY <2>1
  <2>3. sends = 0 /\ config = NoKey /\ first = TRUE /\ checking = NoMessage BY DEF TokenInit
  <2> QED BY <1>1, <2>2, <2>3 DEF WireTyped
<1>5. ShakeTyped /\ HandshakeOK
  BY <1>1 DEF TokenInit, ShakeTyped, HandshakeOK, settled, Reasons
<1>6. PublishedKeySigns BY <1>2 DEF TokenInit, PublishedKeySigns
<1> QED BY <1>3, <1>4, <1>5, <1>6 DEF TokenInv

LEMMA PlaneKeeps ==
    ASSUME TokenInv, Restart \/ enableProxy \/ disableProxy \/ issueJwt \/ PinKey \/ Tick
    PROVE  TokenInv'
<1>1. UNCHANGED <<shakeVars, wire, sends, taken>>
  BY DEF Restart, enableProxy, disableProxy, issueJwt, PinKey, Tick
<1>2. WireTyped' /\ ShakeTyped' /\ HandshakeOK'
  BY <1>1 DEF TokenInv, WireTyped, ShakeTyped, HandshakeOK, shakeVars, settled
<1>3. PlaneTyped' /\ PublishedKeySigns'
  <2>1. CASE Restart
    <3>1. restarts' \in 0..MaxRestarts /\ planeKey' \in PlaneKeys /\ planeKey' <= restarts' + 1
      <4>1. restarts \in 0..MaxRestarts /\ planeKey \in 1..(MaxRestarts + 1)
            /\ planeKey <= restarts + 1 /\ restarts < MaxRestarts
        BY <2>1 DEF TokenInv, PlaneTyped, PlaneKeys, Restart
      <4>2. restarts' = restarts + 1 /\ (planeKey' = planeKey \/ planeKey' = planeKey + 1)
        BY <2>1 DEF Restart
      <4> QED BY <4>1, <4>2, TokenBoundAssumption DEF PlaneKeys
    <3>2. PlaneTyped' BY <2>1, <3>1 DEF Restart, TokenInv, PlaneTyped
    <3> QED BY <2>1, <3>2 DEF Restart, TokenInv, PublishedKeySigns
  <2>2. CASE enableProxy
    <3>1. switches' \in 0..MaxGovernance
      BY <2>2, TokenBoundAssumption DEF enableProxy, TokenInv, PlaneTyped
    <3>2. row' = [mode |-> "proxy", proxy |-> planeKey, issuer |-> planeKey]
          /\ UNCHANGED <<fromEnv, planeKey, restarts, now, pin, jwt>>
      BY <2>2 DEF enableProxy
    <3>3. planeKey \in PlaneKeys /\ planeKey \in Keys BY DEF TokenInv, PlaneTyped, Keys
    <3> QED BY <3>1, <3>2, <3>3 DEF TokenInv, PlaneTyped, PublishedKeySigns
  <2>3. CASE disableProxy
    <3>1. switches' \in 0..MaxGovernance
      BY <2>3, TokenBoundAssumption DEF disableProxy, TokenInv, PlaneTyped
    <3>2. row' = [mode |-> "owner_direct", proxy |-> NoKey, issuer |-> OwnerKey]
          /\ UNCHANGED <<fromEnv, planeKey, restarts, now, pin, jwt>>
      BY <2>3 DEF disableProxy
    <3>3. OwnerKey \in Keys BY DEF Keys
    <3> QED BY <3>1, <3>2, <3>3 DEF TokenInv, PlaneTyped, PublishedKeySigns
  <2>4. CASE issueJwt
    <3>1. now + Ttl \in 0..(MaxTime + Ttl)
      <4>1. now \in 0..MaxTime BY DEF TokenInv, PlaneTyped
      <4> QED BY <4>1, TokenBoundAssumption, TimeAssumption
    <3>2. jwt' \in Tokens BY <2>4, <3>1 DEF issueJwt, TokenInv, PlaneTyped, Tokens
    <3> QED BY <2>4, <3>2 DEF issueJwt, planeVars, TokenInv, PlaneTyped, PublishedKeySigns
  <2>5. CASE PinKey
    <3>1. pin' \in Keys BY <2>5 DEF PinKey, TokenInv, PlaneTyped
    <3> QED BY <2>5, <3>1 DEF PinKey, planeVars, TokenInv, PlaneTyped, PublishedKeySigns
  <2>6. CASE Tick
    <3>1. now' \in 0..MaxTime BY <2>6, TokenBoundAssumption DEF Tick, TokenInv, PlaneTyped
    <3> QED BY <2>6, <3>1 DEF Tick, planeVars, TokenInv, PlaneTyped, PublishedKeySigns
  <2> QED BY <2>1, <2>2, <2>3, <2>4, <2>5, <2>6
<1> QED BY <1>2, <1>3 DEF TokenInv

LEMMA PlaneKept ==
    ASSUME TokenInv, UNCHANGED <<planeVars, now, pin, jwt>>
    PROVE  PlaneTyped' /\ PublishedKeySigns'
BY DEF TokenInv, PlaneTyped, PublishedKeySigns, planeVars

(* Whoever comes first settles, and finds the channel open; whoever comes    *)
(* later changes nothing.                                                    *)
LEMMA FinishKeeps ==
    ASSUME TokenInv, NEW r \in Reasons \cup {"peer"}, Finish(r), chan # "new",
           UNCHANGED taken, checking' \in {checking, NoMessage}
    PROVE  /\ ShakeTyped' /\ HandshakeOK'
           /\ settled => UNCHANGED <<result, chan, handler>>
<1>1. CASE settled
  BY <1>1 DEF Finish, TokenInv, ShakeTyped, HandshakeOK, settled
<1>2. CASE ~settled
  <2>1. chan = "open" /\ handler = "accept" /\ taken = <<>>
    BY <1>2 DEF TokenInv, ShakeTyped, HandshakeOK, settled
  <2>2. result' = r /\ timer' = 0 BY <1>2 DEF Finish
  <2>3. r # "none" BY DEF Reasons
  <2>4. IF r = "peer" THEN handler' = "prior" /\ chan' = chan ELSE chan' = "closed" /\ handler' = handler
    BY <1>2 DEF Finish
  <2>5. 0 \in 0..(MaxTime + Timeout) BY TokenBoundAssumption, TimeAssumption
  <2> QED BY <1>2, <2>1, <2>2, <2>3, <2>4, <2>5 DEF ShakeTyped, HandshakeOK, settled
<1> QED BY <1>1, <1>2

LEMMA AcceptKeeps ==
    ASSUME TokenInv, Accept
    PROVE  TokenInv' /\ ~settled
<1>1. chan = "new" /\ result = "none" /\ taken = <<>> BY DEF Accept, TokenInv, HandshakeOK
<1>2. PlaneTyped' /\ PublishedKeySigns' BY PlaneKept DEF Accept
<1>3. WireTyped' BY DEF Accept, TokenInv, WireTyped, PlaneTyped
<1>4. timer' \in 0..(MaxTime + Timeout) /\ timer' # 0
  <2>1. now \in 0..MaxTime /\ timer' = now + Timeout BY DEF Accept, TokenInv, PlaneTyped
  <2> QED BY <2>1, TokenBoundAssumption, TimeAssumption
<1>5. ShakeTyped' /\ HandshakeOK'
  BY <1>1, <1>4 DEF Accept, TokenInv, ShakeTyped, HandshakeOK, settled
<1> QED BY <1>1, <1>2, <1>3, <1>5 DEF TokenInv, settled

LEMMA SendKeeps ==
    ASSUME TokenInv, NEW m \in Messages, wire' = Append(wire, m), sends < MaxSends, sends' = sends + 1,
           UNCHANGED <<planeVars, now, pin, jwt, shakeVars, taken>>
    PROVE  TokenInv'
<1>1. PlaneTyped' /\ PublishedKeySigns' BY PlaneKept
<1>2. wire' \in Seq(Messages) BY DEF TokenInv, WireTyped
<1>3. sends' \in 0..MaxSends BY TokenBoundAssumption DEF TokenInv, WireTyped
<1>4. WireTyped' BY <1>2, <1>3 DEF TokenInv, WireTyped, shakeVars
<1>5. ShakeTyped' /\ HandshakeOK' BY DEF TokenInv, ShakeTyped, HandshakeOK, shakeVars, settled
<1> QED BY <1>1, <1>4, <1>5 DEF TokenInv

LEMMA TimerFiresKeeps ==
    ASSUME TokenInv, TimerFires
    PROVE  TokenInv' /\ (settled => UNCHANGED <<result, chan, handler>>)
<1>1. PlaneTyped' /\ PublishedKeySigns' BY PlaneKept DEF TimerFires
<1>2. WireTyped' BY DEF TimerFires, TokenInv, WireTyped
<1>3. chan # "new" BY DEF TimerFires, TokenInv, ShakeTyped, HandshakeOK
<1>4. ShakeTyped' /\ HandshakeOK' /\ (settled => UNCHANGED <<result, chan, handler>>)
  BY <1>3, FinishKeeps DEF TimerFires, Reasons
<1> QED BY <1>1, <1>2, <1>4 DEF TokenInv

LEMMA VerifiedKeeps ==
    ASSUME TokenInv, Verified
    PROVE  TokenInv' /\ (settled => UNCHANGED <<result, chan, handler>>)
<1>1. PlaneTyped' /\ PublishedKeySigns' BY PlaneKept DEF Verified
<1>2. WireTyped' BY DEF Verified, TokenInv, WireTyped
<1>3. chan # "new" BY DEF Verified, TokenInv, HandshakeOK
<1>4. Verdict(checking) \in Reasons \cup {"peer"} BY DEF Verdict, Reasons
<1>5. ShakeTyped' /\ HandshakeOK' /\ (settled => UNCHANGED <<result, chan, handler>>)
  BY <1>3, <1>4, FinishKeeps DEF Verified
<1> QED BY <1>1, <1>2, <1>5 DEF TokenInv

LEMMA ReceiveKeeps ==
    ASSUME TokenInv, Receive
    PROVE  TokenInv' /\ (settled => UNCHANGED <<result, chan, handler>>)
<1>1. PlaneTyped' /\ PublishedKeySigns' BY PlaneKept DEF Receive
<1>2. wire' \in Seq(Messages) /\ Head(wire) \in Messages BY DEF Receive, TokenInv, WireTyped
<1>3. chan = "open" /\ UNCHANGED sends BY DEF Receive
<1>4. CASE handler = "prior"
  <2>1. taken' = Append(taken, Head(wire)) /\ UNCHANGED shakeVars BY <1>4 DEF Receive
  <2>2. taken' \in Seq(Messages) BY <1>2, <2>1 DEF TokenInv, WireTyped
  <2>3. WireTyped' BY <1>2, <1>3, <2>1, <2>2 DEF TokenInv, WireTyped, shakeVars
  <2>4. ShakeTyped' /\ HandshakeOK'
    BY <1>3, <1>4, <2>1 DEF TokenInv, ShakeTyped, HandshakeOK, shakeVars, settled
  <2> QED BY <1>1, <2>1, <2>3, <2>4 DEF TokenInv, shakeVars
<1>5. CASE handler # "prior"
  <2>1. UNCHANGED <<taken, config>> /\ first' = FALSE BY <1>5 DEF Receive
  <2>2. CASE ~first
    <3>1. checking' = checking /\ Finish("not_first_message") BY <1>5, <2>2 DEF Receive
    <3>2. ShakeTyped' /\ HandshakeOK' /\ (settled => UNCHANGED <<result, chan, handler>>)
      BY <1>3, <2>1, <3>1, FinishKeeps DEF Reasons
    <3>3. WireTyped' BY <1>2, <1>3, <2>1, <3>1 DEF TokenInv, WireTyped
    <3> QED BY <1>1, <3>2, <3>3 DEF TokenInv
  <2>3. CASE first /\ Head(wire).kind = "auth"
    <3>1. checking' = Head(wire) /\ UNCHANGED <<result, timer, handler, chan>>
      BY <1>5, <2>3 DEF Receive
    <3>2. WireTyped' BY <1>2, <1>3, <2>1, <3>1 DEF TokenInv, WireTyped
    <3>3. ShakeTyped' /\ HandshakeOK'
      BY <1>3, <2>1, <3>1 DEF TokenInv, ShakeTyped, HandshakeOK, settled
    <3> QED BY <1>1, <3>1, <3>2, <3>3 DEF TokenInv
  <2>4. CASE first /\ Head(wire).kind # "auth"
    <3>1. checking' = checking /\ Finish("invalid_envelope") BY <1>5, <2>4 DEF Receive
    <3>2. ShakeTyped' /\ HandshakeOK' /\ (settled => UNCHANGED <<result, chan, handler>>)
      BY <1>3, <2>1, <3>1, FinishKeeps DEF Reasons
    <3>3. WireTyped' BY <1>2, <1>3, <2>1, <3>1 DEF TokenInv, WireTyped
    <3> QED BY <1>1, <3>2, <3>3 DEF TokenInv
  <2> QED BY <2>2, <2>3, <2>4
<1> QED BY <1>4, <1>5

LEMMA TokenStepKeeps ==
    ASSUME TokenInv, [TokenNext]_tokenVars
    PROVE  TokenInv' /\ (settled => UNCHANGED <<result, chan, handler>>)
<1>1. CASE Restart \/ enableProxy \/ disableProxy \/ issueJwt \/ PinKey \/ Tick
  <2>1. UNCHANGED shakeVars
    BY <1>1 DEF Restart, enableProxy, disableProxy, issueJwt, PinKey, Tick
  <2> QED BY <1>1, <2>1, PlaneKeeps DEF shakeVars
<1>2. CASE Accept BY <1>2, AcceptKeeps
<1>3. ASSUME NEW same \in BOOLEAN, SendAuth(same)
      PROVE TokenInv' /\ (settled => UNCHANGED <<result, chan, handler>>)
  <2>1. PICK m : m = [kind |-> "auth", token |-> jwt, same |-> same] OBVIOUS
  <2>2. jwt \in Tokens BY <1>3 DEF SendAuth, TokenInv, PlaneTyped
  <2>3. m \in Messages BY <2>1, <2>2 DEF Messages
  <2>4. TokenInv' BY <1>3, <2>1, <2>3, SendKeeps DEF SendAuth
  <2> QED BY <1>3, <2>4 DEF SendAuth, shakeVars
<1>4. CASE SendData
  <2>1. PICK m : m = [NoMessage EXCEPT !.kind = "data"] OBVIOUS
  <2>2. m \in Messages BY <2>1 DEF Messages, NoMessage
  <2>3. TokenInv' BY <1>4, <2>1, <2>2, SendKeeps DEF SendData
  <2> QED BY <1>4, <2>3 DEF SendData, shakeVars
<1>5. CASE TimerFires BY <1>5, TimerFiresKeeps
<1>6. CASE Receive BY <1>6, ReceiveKeeps
<1>7. CASE Verified BY <1>7, VerifiedKeeps
<1>8. CASE UNCHANGED tokenVars
  <2>1. UNCHANGED <<planeVars, now, pin, jwt, shakeVars, wire, sends, taken>> BY <1>8 DEF tokenVars
  <2>2. PlaneTyped' /\ PublishedKeySigns' BY <2>1, PlaneKept
  <2>3. WireTyped' /\ ShakeTyped' /\ HandshakeOK'
    BY <2>1 DEF TokenInv, WireTyped, ShakeTyped, HandshakeOK, shakeVars, settled
  <2> QED BY <2>1, <2>2, <2>3 DEF TokenInv, shakeVars
<1> QED BY <1>1, <1>2, <1>3, <1>4, <1>5, <1>6, <1>7, <1>8 DEF TokenNext

LEMMA TokenInvHolds == TokenSpec => []TokenInv
<1>1. TokenInv /\ [TokenNext]_tokenVars => TokenInv' BY TokenStepKeeps
<1> QED BY <1>1, TokenInitInv, PTL DEF TokenSpec

(* Types; a handshake has a timer exactly as long as it is undecided.        *)
THEOREM TokensTyped == TokenSpec => []TokenTypeOK
<1>1. TokenInv => TokenTypeOK BY TypeParts DEF TokenInv
<1> QED BY <1>1, TokenInvHolds, PTL

(* A control plane with configured keys signs with the key its proxied       *)
(* groups publish (SigningService.onModuleInit, enableProxy, disableProxy).  *)
THEOREM PublishedKeyAlwaysSigns == TokenSpec => []PublishedKeySigns
<1>1. TokenInv => PublishedKeySigns BY DEF TokenInv
<1> QED BY <1>1, TokenInvHolds, PTL

(* No message of a peer that is not accepted reaches the application, and    *)
(* an accepted peer's channel stays open (acceptAuthEnvelope).               *)
THEOREM NothingPassesBeforeAuth == TokenSpec => []NothingBeforeAuth
<1>1. TokenInv => NothingBeforeAuth BY DEF TokenInv, HandshakeOK, NothingBeforeAuth
<1> QED BY <1>1, TokenInvHolds, PTL

(* Timer, second message and verification race; the first one decides and    *)
(* nothing undoes it (finish in acceptAuthEnvelope).                         *)
THEOREM OutcomeIsDecidedOnce == TokenSpec => OutcomeIsFinal
<1>1. TokenInv /\ [TokenNext]_tokenVars => [settled => UNCHANGED <<result, chan, handler>>]_tokenVars
  BY TokenStepKeeps
<1> QED BY <1>1, TokenInvHolds, PTL DEF TokenSpec, OutcomeIsFinal
===============================================================================
