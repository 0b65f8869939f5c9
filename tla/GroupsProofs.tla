---------------------------- MODULE GroupsProofs ----------------------------
(* Proofs about a group's tables for any people, documents, roles and      *)
(* number of concurrent requests.                                          *)
EXTENDS GroupsProperties, TLAPS

-----------------------------------------------------------------------------
(* The helpers                                                             *)

(* A set of levels, some of them missing rows, has a largest level.        *)
LEMMA MaxLevelType ==
  ASSUME NEW S \in SUBSET AclLevels
  PROVE  /\ MaxLevel(S) \in Levels
         /\ \A m \in S : m <= MaxLevel(S)
<1> DEFINE Largest(l) == (l = 0 \/ l \in S) /\ \A m \in S : m <= l
<1>1. \E l \in Levels : Largest(l)
  <2>1. CASE 3 \in S
    <3>1. Largest(3)
      BY <2>1 DEF AclLevels, Levels, NoRow
    <3>2. QED
      BY <3>1 DEF Levels
  <2>2. CASE 3 \notin S /\ 2 \in S
    <3>1. Largest(2)
      BY <2>2 DEF AclLevels, Levels, NoRow
    <3>2. QED
      BY <3>1 DEF Levels
  <2>3. CASE 3 \notin S /\ 2 \notin S /\ 1 \in S
    <3>1. Largest(1)
      BY <2>3 DEF AclLevels, Levels, NoRow
    <3>2. QED
      BY <3>1 DEF Levels
  <2>4. CASE 3 \notin S /\ 2 \notin S /\ 1 \notin S
    <3>1. Largest(0)
      BY <2>4 DEF AclLevels, Levels, NoRow
    <3>2. QED
      BY <3>1 DEF Levels
  <2>5. QED
    BY <2>1, <2>2, <2>3, <2>4
<1>2. MaxLevel(S) \in Levels /\ Largest(MaxLevel(S))
  BY <1>1 DEF MaxLevel
<1>3. QED
  BY <1>2

(* Whoever asks about whatever document gets one of the four levels.       *)
LEMMA AccessLevelType ==
  ASSUME NEW a \in [Nodes -> SUBSET Roles],
         NEW c \in [Docs -> [Roles -> AclLevels]],
         NEW n \in Nodes, NEW d \in Docs
  PROVE  AccessLevel(a, c, n, d) \in Levels
<1>1. {c[d][r] : r \in a[n]} \in SUBSET AclLevels
  OBVIOUS
<1>2. MaxLevel({c[d][r] : r \in a[n]}) \in Levels
  BY <1>1, MaxLevelType
<1>3. QED
  BY <1>2 DEF AccessLevel, Levels

(* Recomputing grants stores levels only.                                  *)
LEMMA SyncMemberAllDocsType ==
  ASSUME NEW a \in [Nodes -> SUBSET Roles],
         NEW c \in [Docs -> [Roles -> AclLevels]],
         NEW g \in [Docs -> [Nodes -> Levels]],
         NEW L, NEW M
  PROVE  SyncMemberAllDocs(a, c, L, g, M) \in [Docs -> [Nodes -> Levels]]
<1> SUFFICES ASSUME NEW d \in Docs, NEW n \in Nodes
             PROVE  SyncMemberAllDocs(a, c, L, g, M)[d][n] \in Levels
  BY DEF SyncMemberAllDocs
<1>1. {c[d][r] : r \in a[n]} \in SUBSET AclLevels
  OBVIOUS
<1>2. MaxLevel({c[d][r] : r \in a[n]}) \in Levels
  BY <1>1, MaxLevelType
<1>3. QED
  BY <1>2 DEF SyncMemberAllDocs, Levels

LEMMA IdleType == Idle \in Request /\ Idle.step = "idle"
<1>1. AnInvite \in Invites
  BY InviteAssumption DEF AnInvite
<1>2. QED
  BY <1>1, OwnerAssumption, RootAssumption, BoundAssumption
     DEF Idle, Request, Steps, Levels, Roles, BuiltinRoles

-----------------------------------------------------------------------------
(* The versions of a document                                              *)

(* Behind every living document stand all its versions, except that the    *)
(* first may be missing; a rotation under way is one that has been         *)
(* overtaken or the next; a document being created has never lived.        *)
KeyInv ==
    /\ live \subseteq created
    /\ \A d \in Docs \ live : keys[d] = {}
    /\ \A d \in live : /\ ver[d] >= 1
                       /\ \A v \in 2..ver[d] : v \in keys[d]
                       /\ \A v \in keys[d] : v <= ver[d]
    /\ \A q \in Requests : At(q, "rotate") =>
          /\ req[q].doc \in created
          /\ req[q].ver >= 2
          /\ req[q].doc \in live => req[q].ver <= ver[req[q].doc] + 1
    /\ \A q \in Requests : At(q, "createNode") =>
          /\ req[q].doc \in created \ live
          /\ \A p \in Requests \ {q} :
                At(p, "createNode") \/ At(p, "rotate") => req[p].doc # req[q].doc

Inv == TypeOK /\ KeyInv

(* A step that leaves the tree alone and starts no creation or rotation    *)
(* keeps KeyInv.                                                           *)
LEMMA KeyFrame ==
  ASSUME KeyInv, UNCHANGED <<live, ver, keys, created>>,
         \A q \in Requests : \/ req'[q] = req[q]
                             \/ req'[q].step \notin {"createNode", "rotate"}
  PROVE  KeyInv'
BY DEF KeyInv, At

-----------------------------------------------------------------------------
(* Types                                                                   *)

LEMMA TypeInit == Init => TypeOK
<1> SUFFICES ASSUME Init PROVE TypeOK
  OBVIOUS
<1> USE OwnerAssumption, RootAssumption, InitialAssumption, BoundAssumption
<1> DEFINE none == [d \in Docs |-> [n \in Nodes |-> 0]]
<1>1. InitialRoles \in [Nodes -> SUBSET Roles]
  BY DEF Roles
<1>2. SeedTemplate \in [Roles -> AclLevels]
  BY DEF SeedTemplate, AclLevels, Levels, NoRow
<1>3. InitialAcl \in [Docs -> [Roles -> AclLevels]]
  BY <1>2 DEF InitialAcl, AclLevels, NoRow
<1>4. none \in [Docs -> [Nodes -> Levels]]
  BY DEF Levels
<1>5. grants \in [Docs -> [Nodes -> Levels]]
  BY <1>1, <1>3, <1>4, SyncMemberAllDocsType DEF Init
<1>6. req \in [Requests -> Request]
  BY IdleType DEF Init
<1>7. InitialLive \subseteq Docs
  BY DEF InitialLive
<1>8. ver \in [Docs -> 0..MaxKeyVersion] /\ keys \in [Docs -> SUBSET (1..MaxKeyVersion)]
  BY DEF Init
<1>9. invites \in [Invites -> [state: InviteStates, to: Nodes]]
  BY DEF Init, InviteStates
<1>10. QED
  BY <1>1, <1>2, <1>3, <1>5, <1>6, <1>7, <1>8, <1>9
     DEF Init, TypeOK, Roles, BuiltinRoles, Token

(* A request's record keeps its type when it is moved on or answered.      *)
LEMMA ProceedType ==
  ASSUME TypeOK, NEW q \in Requests, NEW s \in Steps, Proceed(q, s)
  PROVE  req' \in [Requests -> Request] /\ issued' \in Nat
<1>1. [req[q] EXCEPT !.step = s] \in Request
  BY DEF TypeOK, Request
<1>2. req' = [req EXCEPT ![q] = [req[q] EXCEPT !.step = s]]
  BY DEF Proceed
<1>3. QED
  BY <1>1, <1>2 DEF TypeOK, Proceed

LEMMA FinishType ==
  ASSUME TypeOK, NEW q \in Requests, Finish(q)
  PROVE  req' \in [Requests -> Request] /\ issued' \in Nat
BY IdleType DEF TypeOK, Finish

(* A person, a document, a role and so on make a request.                  *)
LEMMA BeginType ==
  ASSUME TypeOK, NEW q \in Requests, NEW r \in Request, Begin(q, r)
  PROVE  req' \in [Requests -> Request] /\ issued' \in Nat
BY DEF TypeOK, Begin, Arrive

LEMMA TypeStart ==
  ASSUME TypeOK, NEW q \in Requests, Start(q)
  PROVE  TypeOK'
<1> USE IdleType
<1>1. ASSUME NEW i \in Invites, AcceptCheck(q, i) \/ RejectCheck(q, i)
      PROVE  TypeOK'
  <2>1. invites[i].to \in Nodes
    BY DEF TypeOK
  <2>2. PICK r \in Request : Begin(q, r)
    BY <1>1, <2>1 DEF AcceptCheck, RejectCheck, Request, Steps
  <2>3. QED
    BY <1>1, <2>2, BeginType DEF AcceptCheck, RejectCheck, TypeOK, access, tree
<1>2. ASSUME NEW n \in Nodes, NEW d \in Docs, NEW e \in AclEdits,
             SetDocRoleAclCheck(q, n, d, e[1], e[2])
      PROVE  TypeOK'
  <2>1. e[1] \in Roles /\ e[2] \in Levels
    BY InputAssumption
  <2>2. PICK r \in Request : Begin(q, r)
    BY <1>2, <2>1 DEF SetDocRoleAclCheck, Request, Steps
  <2>3. QED
    BY <1>2, <2>2, BeginType DEF SetDocRoleAclCheck, TypeOK, access, tree
<1>3. ASSUME NEW n \in Nodes, NEW d \in Docs, NEW p \in Docs,
             CreateChildCheck(q, n, p, d)
      PROVE  TypeOK'
  <2>1. PICK r \in Request : Begin(q, r)
    BY <1>3 DEF CreateChildCheck, Request, Steps
  <2>2. QED
    BY <1>3, <2>1, BeginType DEF CreateChildCheck, TypeOK, access
<1>4. ASSUME NEW n \in Nodes, NEW d \in Docs, DeleteDocCheck(q, n, d)
      PROVE  TypeOK'
  <2>1. PICK r \in Request : Begin(q, r)
    BY <1>4 DEF DeleteDocCheck, Request, Steps
  <2>2. QED
    BY <1>4, <2>1, BeginType DEF DeleteDocCheck, TypeOK, access, tree
<1>5. ASSUME NEW n \in Nodes, NEW d \in Docs, RotateCheck(q, n, d)
      PROVE  TypeOK'
  <2>1. ver[d] + 1 \in 0..MaxKeyVersion
    BY <1>5, BoundAssumption DEF RotateCheck, TypeOK
  <2>2. PICK r \in Request : Begin(q, r)
    BY <1>5, <2>1 DEF RotateCheck, Request, Steps
  <2>3. QED
    BY <1>5, <2>2, BeginType DEF RotateCheck, TypeOK, access, tree
<1>6. ASSUME NEW n \in Nodes, NEW d \in Docs, RefreshCheck(q, n, d)
      PROVE  TypeOK'
  <2>1. Level(n, d) \in Levels
    BY AccessLevelType DEF Level, TypeOK
  <2>2. PICK r \in Request : Begin(q, r)
    BY <1>6, <2>1 DEF RefreshCheck, Request, Steps
  <2>3. QED
    BY <1>6, <2>2, BeginType DEF RefreshCheck, TypeOK, access, tree
<1>7. QED
  BY <1>1, <1>2, <1>3, <1>4, <1>5, <1>6 DEF Start

LEMMA TypeAbort ==
  ASSUME TypeOK, NEW q \in Requests, Abort(q)
  PROVE  TypeOK'
BY FinishType DEF Abort, TypeOK, access, tree

(* What ensureGroupRbac computes from the tables has their types.          *)
LEMMA EnsureGroupRbacType ==
  ASSUME TypeOK, EnsureGroupRbac
  PROVE  /\ assign' \in [Nodes -> SUBSET Roles]
         /\ acl' \in [Docs -> [Roles -> AclLevels]]
         /\ grants' \in [Docs -> [Nodes -> Levels]]
<1> DEFINE newAcl == BackfillAcl(acl, live, template)
           newAssign == BackfillRoles(members, assign, defaultRole)
<1>1. newAcl \in [Docs -> [Roles -> AclLevels]]
  BY DEF TypeOK, BackfillAcl
<1>2. newAssign \in [Nodes -> SUBSET Roles]
  BY DEF TypeOK, BackfillRoles
<1>3. SyncMemberAllDocs(newAssign, newAcl, live, grants, members)
         \in [Docs -> [Nodes -> Levels]]
  BY <1>1, <1>2, SyncMemberAllDocsType DEF TypeOK
<1>4. QED
  BY <1>1, <1>2, <1>3 DEF EnsureGroupRbac

LEMMA TypeContinue ==
  ASSUME Inv, NEW q \in Requests, Continue(q)
  PROVE  TypeOK'
<1> USE DEF Inv
<1> DEFINE r == req[q]
<1>0. r \in Request
  BY DEF TypeOK
<1>1. CASE AcceptJoin(q)
  <2>1. "backfill" \in Steps
    BY DEF Steps
  <2>2. members' \subseteq Nodes
    BY <1>0, <1>1 DEF AcceptJoin, TypeOK, Request
  <2>3. QED
    BY <1>1, <2>1, <2>2, ProceedType, FinishType DEF AcceptJoin, TypeOK, tree
<1>2. CASE AcceptBackfill(q)
  <2>1. "markAccepted" \in Steps
    BY DEF Steps
  <2>2. /\ assign' \in [Nodes -> SUBSET Roles]
        /\ acl' \in [Docs -> [Roles -> AclLevels]]
        /\ grants' \in [Docs -> [Nodes -> Levels]]
    BY <1>2, EnsureGroupRbacType DEF AcceptBackfill, TypeOK
  <2>3. QED
    BY <1>2, <2>1, <2>2, ProceedType, FinishType DEF AcceptBackfill, TypeOK, tree
<1>3. CASE AcceptFinish(q) \/ RejectFinish(q)
  <2>1. PICK step \in Steps, state \in {"accepted", "rejected"} :
           MarkInvitation(q, step, state)
    BY <1>3 DEF AcceptFinish, RejectFinish, Steps
  <2>2. invites' \in [Invites -> [state: InviteStates, to: Nodes]]
    <3> DEFINE i == r.inv
               new == [invites[i] EXCEPT !.state = state]
    <3>0. /\ i \in Invites /\ state \in InviteStates
          /\ invites \in [Invites -> [state: InviteStates, to: Nodes]]
      BY <1>0 DEF TypeOK, Request, InviteStates
    <3>1. new \in [state: InviteStates, to: Nodes]
      BY <3>0
    <3>2. invites' = [invites EXCEPT ![i] = new] \/ invites' = invites
      BY <2>1 DEF MarkInvitation
    <3>3. QED
      BY <3>0, <3>1, <3>2
  <2>3. QED
    BY <2>1, <2>2, FinishType DEF MarkInvitation, TypeOK, access, tree
<1>4. CASE SetDocRoleAclWrite(q)
  <2>1. r.level \in Levels /\ r.role \in Roles /\ r.doc \in Docs
    BY <1>0 DEF Request
  <2>2. acl' \in [Docs -> [Roles -> AclLevels]]
    <3>1. \/ acl' = [acl EXCEPT ![r.doc][r.role] = r.level]
          \/ acl' = acl
      BY <1>4 DEF SetDocRoleAclWrite
    <3>2. r.level \in AclLevels
      BY <2>1 DEF AclLevels
    <3>3. acl \in [Docs -> [Roles -> AclLevels]]
      BY DEF TypeOK
    <3>4. [acl EXCEPT ![r.doc][r.role] = r.level] \in [Docs -> [Roles -> AclLevels]]
      BY <2>1, <3>2, <3>3
    <3>5. QED
      BY <3>1, <3>3, <3>4
  <2>3. grants' \in [Docs -> [Nodes -> Levels]]
    <3> DEFINE row == [n \in Nodes |-> IF r.role \in assign[n]
                                         THEN r.level ELSE grants[r.doc][n]]
    <3>1. row \in [Nodes -> Levels]
      BY <2>1 DEF TypeOK
    <3>2. grants' = [grants EXCEPT ![r.doc] = row] \/ grants' = grants
      BY <1>4 DEF SetDocRoleAclWrite, SyncAllMembersForDocRole
    <3>3. grants \in [Docs -> [Nodes -> Levels]]
      BY DEF TypeOK
    <3>4. QED
      BY <2>1, <3>1, <3>2, <3>3
  <2>4. QED
    BY <1>4, <2>2, <2>3, FinishType DEF SetDocRoleAclWrite, TypeOK, tree
<1>5. CASE CreateChildNode(q)
  <2>1. "createKey" \in Steps
    BY DEF Steps
  <2>2. /\ live' \subseteq Docs /\ parent' \in [Docs -> Docs]
        /\ ver' \in [Docs -> 0..MaxKeyVersion]
    <3>1. 1 \in 0..MaxKeyVersion /\ r.doc \in Docs /\ r.par \in Docs
      BY <1>0, BoundAssumption DEF Request
    <3>2. \/ UNCHANGED <<live, parent, ver>>
          \/ /\ live' = live \cup {r.doc}
             /\ parent' = [parent EXCEPT ![r.doc] = r.par]
             /\ ver' = [ver EXCEPT ![r.doc] = 1]
      BY <1>5 DEF CreateChildNode
    <3>3. QED
      BY <3>1, <3>2 DEF TypeOK
  <2>3. QED
    BY <1>5, <2>1, <2>2, ProceedType, FinishType
       DEF CreateChildNode, TypeOK, access
<1>6. CASE CreateChildKey(q)
  <2>1. "inherit" \in Steps
    BY DEF Steps
  <2>2. keys' \in [Docs -> SUBSET (1..MaxKeyVersion)]
    <3>1. 1 \in 1..MaxKeyVersion
      BY BoundAssumption
    <3>2. QED
      BY <1>0, <1>6, <3>1 DEF CreateChildKey, TypeOK, Request
  <2>3. QED
    BY <1>6, <2>1, <2>2, ProceedType, FinishType
       DEF CreateChildKey, TypeOK, access
<1>7. CASE CreateChildInherit(q)
  <2> DEFINE newAcl == [acl EXCEPT ![r.doc] = [x \in Roles |->
                 IF acl[r.par][x] # NoRow THEN acl[r.par][x] ELSE @[x]]]
             holders == {n \in Nodes : assign[n] # {}}
  <2>1. newAcl \in [Docs -> [Roles -> AclLevels]]
    BY <1>0 DEF TypeOK, Request
  <2>2. SyncMemberAllDocs(assign, newAcl, live, grants, holders)
           \in [Docs -> [Nodes -> Levels]]
    BY <2>1, SyncMemberAllDocsType DEF TypeOK
  <2>3. /\ acl' \in [Docs -> [Roles -> AclLevels]]
        /\ grants' \in [Docs -> [Nodes -> Levels]]
    BY <1>7, <2>1, <2>2 DEF CreateChildInherit, TypeOK
  <2>4. QED
    BY <1>7, <2>3, FinishType DEF CreateChildInherit, TypeOK, tree
<1>8. CASE DeleteDocCommit(q)
  <2>1. /\ live' \subseteq Docs
        /\ parent' \in [Docs -> Docs]
        /\ ver' \in [Docs -> 0..MaxKeyVersion]
        /\ keys' \in [Docs -> SUBSET (1..MaxKeyVersion)]
    <3>1. 0 \in 0..MaxKeyVersion /\ r.doc \in Docs
      BY <1>0, BoundAssumption DEF Request
    <3>2. \/ UNCHANGED <<live, parent, ver, keys>>
          \/ /\ live' = live \ {r.doc}
             /\ parent' = [parent EXCEPT ![r.doc] = Root]
             /\ ver' = [ver EXCEPT ![r.doc] = 0]
             /\ keys' = [keys EXCEPT ![r.doc] = {}]
      BY <1>8 DEF DeleteDocCommit
    <3>3. /\ live \subseteq Docs
          /\ parent \in [Docs -> Docs]
          /\ ver \in [Docs -> 0..MaxKeyVersion]
          /\ keys \in [Docs -> SUBSET (1..MaxKeyVersion)]
      BY DEF TypeOK
    <3>4. QED
      BY <3>1, <3>2, <3>3, RootAssumption
  <2>2. /\ acl' \in [Docs -> [Roles -> AclLevels]]
        /\ grants' \in [Docs -> [Nodes -> Levels]]
    <3>1. /\ r.doc \in Docs
          /\ [x \in Roles |-> NoRow] \in [Roles -> AclLevels]
          /\ [n \in Nodes |-> 0] \in [Nodes -> Levels]
      BY <1>0 DEF Request, AclLevels, Levels
    <3>2. \/ UNCHANGED <<acl, grants>>
          \/ /\ acl' = [acl EXCEPT ![r.doc] = [x \in Roles |-> NoRow]]
             /\ grants' = [grants EXCEPT ![r.doc] = [n \in Nodes |-> 0]]
      BY <1>8 DEF DeleteDocCommit
    <3>3. /\ acl \in [Docs -> [Roles -> AclLevels]]
          /\ grants \in [Docs -> [Nodes -> Levels]]
      BY DEF TypeOK
    <3>4. QED
      BY <3>1, <3>2, <3>3
  <2>3. QED
    BY <1>8, <2>1, <2>2, FinishType DEF DeleteDocCommit, TypeOK
<1>9. CASE RotateCommit(q)
  <2>1. r.ver \in 1..MaxKeyVersion
    BY <1>0, <1>9, BoundAssumption DEF RotateCommit, KeyInv, Request
  <2>2. /\ ver' \in [Docs -> 0..MaxKeyVersion]
        /\ keys' \in [Docs -> SUBSET (1..MaxKeyVersion)]
    <3>1. /\ r.doc \in Docs /\ r.ver \in 0..MaxKeyVersion
          /\ keys[r.doc] \cup {r.ver} \in SUBSET (1..MaxKeyVersion)
      BY <1>0, <2>1, BoundAssumption DEF Request, TypeOK
    <3>2. \/ UNCHANGED <<ver, keys>>
          \/ /\ ver' = [ver EXCEPT ![r.doc] = r.ver]
             /\ keys' = [keys EXCEPT ![r.doc] = keys[r.doc] \cup {r.ver}]
      BY <1>9 DEF RotateCommit
    <3>3. /\ ver \in [Docs -> 0..MaxKeyVersion]
          /\ keys \in [Docs -> SUBSET (1..MaxKeyVersion)]
      BY DEF TypeOK
    <3>4. QED
      BY <3>1, <3>2, <3>3
  <2>3. QED
    BY <1>9, <2>2, FinishType DEF RotateCommit, TypeOK, access
<1>10. CASE RefreshGrant(q)
  <2>1. "issue" \in Steps
    BY DEF Steps
  <2>2. grants' \in [Docs -> [Nodes -> Levels]]
    <3>1. r.doc \in Docs /\ r.caller \in Nodes /\ r.level \in Levels
      BY <1>0 DEF Request
    <3>2. \/ grants' = [grants EXCEPT ![r.doc][r.caller] = r.level]
          \/ grants' = grants
      BY <1>10 DEF RefreshGrant
    <3>3. grants \in [Docs -> [Nodes -> Levels]]
      BY DEF TypeOK
    <3>4. [grants EXCEPT ![r.doc][r.caller] = r.level] \in [Docs -> [Nodes -> Levels]]
      BY <3>1, <3>3
    <3>5. QED
      BY <3>2, <3>3, <3>4
  <2>3. QED
    BY <1>10, <2>1, <2>2, ProceedType, FinishType DEF RefreshGrant, TypeOK, tree
<1>11. CASE RefreshIssue(q)
  <2>1. tokens' \subseteq Token
    BY <1>0, <1>11 DEF RefreshIssue, TypeOK, Request, Token
  <2>2. QED
    BY <1>11, <2>1, FinishType DEF RefreshIssue, TypeOK, access, tree
<1>12. QED
  BY <1>1, <1>2, <1>3, <1>4, <1>5, <1>6, <1>7, <1>8, <1>9, <1>10, <1>11
     DEF Continue

LEMMA TypeAtOnce ==
  ASSUME TypeOK, AtOnce
  PROVE  TypeOK'
<1>1. ASSUME NEW n \in Nodes, JoinGroup(n)
      PROVE  TypeOK'
  BY <1>1 DEF JoinGroup, Arrive, TypeOK, tree
<1>2. ASSUME NEW n \in members, NEW i \in Invites, NEW to \in Nodes,
             CreateInvitation(n, i, to)
      PROVE  TypeOK'
  <2>1. invites' \in [Invites -> [state: InviteStates, to: Nodes]]
    BY <1>2 DEF CreateInvitation, TypeOK, InviteStates
  <2>2. QED
    BY <1>2, <2>1 DEF CreateInvitation, Arrive, TypeOK, access, tree
<1>3. CASE GetGovernance
  BY <1>3, EnsureGroupRbacType DEF GetGovernance, Arrive, TypeOK, tree
<1>4. ASSUME NEW r \in pastRoles, NEW tpl \in Templates, UpdateDefaults(r, tpl)
      PROVE  TypeOK'
  <2>1. r \in Roles /\ tpl \in [Roles -> AclLevels]
    BY InputAssumption DEF TypeOK
  <2>2. QED
    BY <1>4, <2>1 DEF UpdateDefaults, Arrive, TypeOK, tree
<1>5. ASSUME NEW r \in CustomRoles, CreateRole(r)
      PROVE  TypeOK'
  <2>1. r \in Roles
    BY DEF Roles
  <2>2. QED
    BY <1>5, <2>1 DEF CreateRole, Arrive, TypeOK, tree
<1>6. ASSUME NEW r \in CustomRoles, DeleteRole(r)
      PROVE  TypeOK'
  <2> DEFINE affected == {n \in Nodes \ {Owner} : r \in assign[n]}
             left == [n \in Nodes |-> assign[n] \ {r}]
             newAcl == [d \in Docs |-> [acl[d] EXCEPT ![r] = NoRow]]
             wiped == [d \in Docs |-> [n \in Nodes |->
                         IF n \in affected /\ left[n] = {}
                           THEN 0 ELSE grants[d][n]]]
  <2>1. r \in Roles /\ "reader" \in Roles /\ NoRow \in AclLevels /\ 0 \in Levels
    BY DEF Roles, BuiltinRoles, AclLevels, Levels
  <2>2. left \in [Nodes -> SUBSET Roles]
    BY DEF TypeOK
  <2>3. newAcl \in [Docs -> [Roles -> AclLevels]]
    BY <2>1 DEF TypeOK
  <2>4. wiped \in [Docs -> [Nodes -> Levels]]
    BY <2>1 DEF TypeOK
  <2>5. SyncMemberAllDocs(left, newAcl, live, wiped, affected)
           \in [Docs -> [Nodes -> Levels]]
    BY <2>2, <2>3, <2>4, SyncMemberAllDocsType
  <2>6. template' \in [Roles -> AclLevels] /\ defaultRole' \in Roles
    BY <1>6, <2>1 DEF DeleteRole, TypeOK
  <2>7. /\ assign' \in [Nodes -> SUBSET Roles]
        /\ acl' \in [Docs -> [Roles -> AclLevels]]
        /\ grants' \in [Docs -> [Nodes -> Levels]]
    BY <1>6, <2>2, <2>3, <2>5 DEF DeleteRole
  <2>8. /\ issued' = issued + 1
        /\ roles' = roles \ {r}
        /\ UNCHANGED <<alive, members, pastRoles, tree, invites, tokens, req>>
    BY <1>6 DEF DeleteRole, Arrive
  <2>9. QED
    BY <2>6, <2>7, <2>8 DEF TypeOK, tree
<1>7. ASSUME NEW n \in Nodes, NEW rs \in MemberRoleEdits, SetMemberRoles(n, rs)
      PROVE  TypeOK'
  <2> DEFINE newAssign == [assign EXCEPT ![n] = rs]
  <2>1. newAssign \in [Nodes -> SUBSET Roles]
    BY InputAssumption DEF TypeOK
  <2>2. SyncMemberAllDocs(newAssign, acl, live, grants, {n})
           \in [Docs -> [Nodes -> Levels]]
    BY <2>1, SyncMemberAllDocsType DEF TypeOK
  <2>3. assign' \in [Nodes -> SUBSET Roles] /\ grants' \in [Docs -> [Nodes -> Levels]]
    BY <1>7, <2>1, <2>2 DEF SetMemberRoles
  <2>4. /\ issued' = issued + 1
        /\ UNCHANGED <<alive, members, roles, pastRoles, acl, defaultRole,
                       template, tree, invites, tokens, req>>
    BY <1>7 DEF SetMemberRoles, Arrive
  <2>5. QED
    BY <2>3, <2>4 DEF TypeOK, tree
<1>8. CASE DissolveGroup
  <2>1. Owner \in Nodes /\ Root \in Docs /\ 0 \in 0..MaxKeyVersion
        /\ NoRow \in AclLevels /\ 0 \in Levels /\ "none" \in InviteStates
    BY OwnerAssumption, RootAssumption, BoundAssumption
       DEF AclLevels, Levels, InviteStates
  <2>2. /\ assign' \in [Nodes -> SUBSET Roles]
        /\ acl' \in [Docs -> [Roles -> AclLevels]]
        /\ grants' \in [Docs -> [Nodes -> Levels]]
    BY <1>8, <2>1 DEF DissolveGroup
  <2>3. /\ parent' \in [Docs -> Docs]
        /\ ver' \in [Docs -> 0..MaxKeyVersion]
        /\ keys' \in [Docs -> SUBSET (1..MaxKeyVersion)]
        /\ invites' \in [Invites -> [state: InviteStates, to: Nodes]]
    BY <1>8, <2>1 DEF DissolveGroup
  <2>4. /\ alive' = FALSE /\ members' = {} /\ roles' = {} /\ live' = {}
        /\ issued' = issued + 1
        /\ UNCHANGED <<pastRoles, defaultRole, template, tokens, created, req>>
    BY <1>8 DEF DissolveGroup, Arrive
  <2>5. alive' \in BOOLEAN /\ members' \subseteq Nodes /\ roles' \subseteq Roles
        /\ live' \subseteq Docs
    BY <2>4
  <2>6. /\ pastRoles' \subseteq Roles /\ defaultRole' \in Roles
        /\ template' \in [Roles -> AclLevels] /\ tokens' \subseteq Token
        /\ created' \subseteq Docs /\ req' \in [Requests -> Request]
        /\ issued' \in Nat
    BY <2>4 DEF TypeOK
  <2>7. QED
    BY <2>2, <2>3, <2>5, <2>6 DEF TypeOK
<1>9. QED
  BY <1>1, <1>2, <1>3, <1>4, <1>5, <1>6, <1>7, <1>8 DEF AtOnce

-----------------------------------------------------------------------------
(* Key versions                                                            *)

LEMMA KeyInit == Init => KeyInv
<1> SUFFICES ASSUME Init PROVE KeyInv
  OBVIOUS
<1>1. InitialLive \subseteq Docs
  BY RootAssumption, InitialAssumption DEF InitialLive
<1>2. \A d \in InitialLive : ver[d] = 1 /\ keys[d] = {1}
  BY <1>1 DEF Init
<1>3. \A d \in Docs \ InitialLive : keys[d] = {}
  BY DEF Init
<1>4. \A q \in Requests : ~At(q, "rotate") /\ ~At(q, "createNode")
  BY IdleType DEF Init, At
<1>5. live = InitialLive /\ created = InitialLive
  BY DEF Init
<1>6. QED
  BY <1>1, <1>2, <1>3, <1>4, <1>5 DEF KeyInv

LEMMA KeyStart ==
  ASSUME Inv, NEW q \in Requests, Start(q)
  PROVE  KeyInv'
<1> USE DEF Inv
<1>1. ASSUME NEW i \in Invites, AcceptCheck(q, i) \/ RejectCheck(q, i)
      PROVE  KeyInv'
  <2>1. req'[q].step \in {"joinInvited", "markRejected"}
    <3>1. CASE AcceptCheck(q, i)
      BY <3>1, IdleType DEF AcceptCheck, Begin, TypeOK, Request
    <3>2. CASE RejectCheck(q, i)
      BY <3>2, IdleType DEF RejectCheck, Begin, TypeOK, Request
    <3>3. QED
      BY <1>1, <3>1, <3>2
  <2>2. QED
    BY <1>1, <2>1, KeyFrame
       DEF AcceptCheck, RejectCheck, Begin, TypeOK, tree
<1>2. ASSUME NEW n \in Nodes, NEW d \in Docs, NEW e \in AclEdits,
             SetDocRoleAclCheck(q, n, d, e[1], e[2])
      PROVE  KeyInv'
  <2>1. req'[q].step = "writeAcl"
    BY <1>2, IdleType DEF SetDocRoleAclCheck, Begin, TypeOK, Request
  <2>2. QED
    BY <1>2, <2>1, KeyFrame DEF SetDocRoleAclCheck, Begin, TypeOK, tree
<1>3. ASSUME NEW n \in Nodes, NEW d \in Docs, NEW p \in Docs,
             CreateChildCheck(q, n, p, d)
      PROVE  KeyInv'
  <2>1. /\ req'[q].step = "createNode" /\ req'[q].doc = d
        /\ \A o \in Requests \ {q} : req'[o] = req[o]
    BY <1>3, IdleType DEF CreateChildCheck, Begin, TypeOK, Request
  <2>2. d \notin created /\ created' = created \cup {d}
        /\ UNCHANGED <<live, ver, keys>>
    BY <1>3 DEF CreateChildCheck
  <2>3. QED
    BY <2>1, <2>2 DEF KeyInv, At
<1>4. ASSUME NEW n \in Nodes, NEW d \in Docs, DeleteDocCheck(q, n, d)
      PROVE  KeyInv'
  <2>1. req'[q].step = "delete"
    BY <1>4, IdleType DEF DeleteDocCheck, Begin, TypeOK, Request
  <2>2. QED
    BY <1>4, <2>1, KeyFrame DEF DeleteDocCheck, Begin, TypeOK, tree
<1>5. ASSUME NEW n \in Nodes, NEW d \in Docs, RotateCheck(q, n, d)
      PROVE  KeyInv'
  <2>1. /\ req'[q].step = "rotate" /\ req'[q].doc = d
        /\ req'[q].ver = ver[d] + 1
        /\ \A o \in Requests \ {q} : req'[o] = req[o]
    BY <1>5, IdleType DEF RotateCheck, Begin, TypeOK, Request
  <2>2. d \in live /\ ver[d] \in Nat /\ UNCHANGED <<live, ver, keys, created>>
    BY <1>5 DEF RotateCheck, tree, TypeOK
  <2>3. QED
    BY <2>1, <2>2 DEF KeyInv, At
<1>6. ASSUME NEW n \in Nodes, NEW d \in Docs, RefreshCheck(q, n, d)
      PROVE  KeyInv'
  <2>1. req'[q].step = "grant"
    BY <1>6, IdleType DEF RefreshCheck, Begin, TypeOK, Request
  <2>2. QED
    BY <1>6, <2>1, KeyFrame DEF RefreshCheck, Begin, TypeOK, tree
<1>7. QED
  BY <1>1, <1>2, <1>3, <1>4, <1>5, <1>6 DEF Start

(* A request that is moved on or answered is no longer creating a document *)
(* or rotating a key, and the others stay as they were.                    *)
LEMMA RequestFrame ==
  ASSUME TypeOK, NEW q \in Requests,
         Finish(q) \/ \E s \in Steps \ {"createNode", "rotate"} : Proceed(q, s)
  PROVE  /\ req'[q].step \notin {"createNode", "rotate"}
         /\ \A o \in Requests \ {q} : req'[o] = req[o]
BY IdleType DEF TypeOK, Finish, Proceed, Request

LEMMA KeyContinue ==
  ASSUME Inv, NEW q \in Requests, Continue(q) \/ Abort(q)
  PROVE  KeyInv'
<1> USE DEF Inv
<1> DEFINE d == req[q].doc
           v == req[q].ver
<1>0. /\ d \in Docs /\ v \in Nat
      /\ ver \in [Docs -> Nat] /\ keys \in [Docs -> SUBSET Nat]
  BY DEF TypeOK, Request
<1>1. Finish(q) \/ \E s \in Steps \ {"createNode", "rotate"} : Proceed(q, s)
  BY DEF Continue, Abort, AcceptJoin, AcceptBackfill, AcceptFinish,
         RejectFinish, MarkInvitation, SetDocRoleAclWrite, CreateChildNode,
         CreateChildKey, CreateChildInherit, DeleteDocCommit, RotateCommit,
         RefreshGrant, RefreshIssue, Steps
<1>2. /\ req'[q].step \notin {"createNode", "rotate"}
      /\ \A o \in Requests \ {q} : req'[o] = req[o]
  BY <1>1, RequestFrame
<1>3. CASE CreateChildNode(q)
  <2>1. CASE UNCHANGED <<live, parent, ver>>
    BY <1>2, <1>3, <2>1, KeyFrame DEF CreateChildNode
  <2>2. CASE /\ d \notin live
             /\ live' = live \cup {d}
             /\ ver' = [ver EXCEPT ![d] = 1]
    <3>1. At(q, "createNode") /\ UNCHANGED <<keys, created>>
      BY <1>3 DEF CreateChildNode
    <3>2. QED
      BY <1>0, <1>2, <2>2, <3>1 DEF KeyInv, At
  <2>3. QED
    BY <1>3, <2>1, <2>2 DEF CreateChildNode
<1>4. CASE CreateChildKey(q)
  <2>1. CASE UNCHANGED keys
    BY <1>2, <1>4, <2>1, KeyFrame DEF CreateChildKey
  <2>2. CASE d \in live /\ keys' = [keys EXCEPT ![d] = @ \cup {1}]
    <3>1. UNCHANGED <<live, ver, created>>
      BY <1>4 DEF CreateChildKey
    <3>2. QED
      BY <1>0, <1>2, <2>2, <3>1 DEF KeyInv, At
  <2>3. QED
    BY <1>4, <2>1, <2>2 DEF CreateChildKey
<1>5. CASE DeleteDocCommit(q)
  <2>1. CASE UNCHANGED <<live, ver, keys>>
    BY <1>2, <1>5, <2>1, KeyFrame DEF DeleteDocCommit
  <2>2. CASE /\ live' = live \ {d}
             /\ ver' = [ver EXCEPT ![d] = 0]
             /\ keys' = [keys EXCEPT ![d] = {}]
    <3>1. UNCHANGED created
      BY <1>5 DEF DeleteDocCommit
    <3>2. QED
      BY <1>0, <1>2, <2>2, <3>1 DEF KeyInv, At
  <2>3. QED
    BY <1>5, <2>1, <2>2 DEF DeleteDocCommit
<1>6. CASE RotateCommit(q)
  <2>1. CASE UNCHANGED <<ver, keys>>
    BY <1>2, <1>6, <2>1, KeyFrame DEF RotateCommit
  <2>2. CASE /\ d \in live /\ v \notin keys[d]
             /\ ver' = [ver EXCEPT ![d] = v]
             /\ keys' = [keys EXCEPT ![d] = @ \cup {v}]
    <3>1. At(q, "rotate") /\ UNCHANGED <<live, created>>
      BY <1>6 DEF RotateCommit
    <3>2. v = ver[d] + 1
      <4>1. v >= 2 /\ v <= ver[d] + 1 /\ \A w \in 2..ver[d] : w \in keys[d]
        BY <2>2, <3>1 DEF KeyInv
      <4>2. QED
        BY <1>0, <2>2, <4>1
    <3>3. /\ ver'[d] = v /\ keys'[d] = keys[d] \cup {v}
          /\ \A o \in Docs \ {d} : ver'[o] = ver[o] /\ keys'[o] = keys[o]
      BY <1>0, <2>2
    <3>4. \A o \in live' : /\ ver'[o] >= 1
                           /\ \A w \in 2..ver'[o] : w \in keys'[o]
                           /\ \A w \in keys'[o] : w <= ver'[o]
      <4> SUFFICES ASSUME NEW o \in live
                   PROVE  /\ ver'[o] >= 1
                          /\ \A w \in 2..ver'[o] : w \in keys'[o]
                          /\ \A w \in keys'[o] : w <= ver'[o]
        BY <3>1
      <4>1. o \in Docs /\ ver[o] \in Nat /\ keys[o] \subseteq Nat
        BY <1>0 DEF TypeOK
      <4>2. /\ ver[o] >= 1
            /\ \A w \in 2..ver[o] : w \in keys[o]
            /\ \A w \in keys[o] : w <= ver[o]
        BY DEF KeyInv
      <4>3. CASE o = d
        BY <3>2, <3>3, <4>1, <4>2, <4>3
      <4>4. CASE o # d
        BY <3>3, <4>1, <4>2, <4>4
      <4>5. QED
        BY <4>3, <4>4
    <3>5. \A o \in Docs \ live : keys'[o] = {}
      BY <2>2, <3>3 DEF KeyInv
    <3>6. \A o \in Docs : ver[o] \in Nat /\ ver'[o] \in Nat /\ ver'[o] >= ver[o]
      BY <1>0, <3>2, <3>3
    <3>7. \A p \in Requests : req'[p].step \in {"rotate", "createNode"}
                               => req'[p] = req[p] /\ req[p].ver \in Nat
                                  /\ req[p].doc \in Docs
      BY <1>2 DEF TypeOK, Request
    <3>8. QED
      BY <1>2, <3>1, <3>4, <3>5, <3>6, <3>7 DEF KeyInv, At
  <2>3. QED
    BY <1>6, <2>1, <2>2 DEF RotateCommit
<1>7. CASE \/ AcceptJoin(q) \/ AcceptBackfill(q) \/ AcceptFinish(q)
          \/ RejectFinish(q) \/ SetDocRoleAclWrite(q) \/ CreateChildInherit(q)
          \/ RefreshGrant(q) \/ RefreshIssue(q) \/ Abort(q)
  <2>1. UNCHANGED <<live, ver, keys, created>>
    BY <1>7 DEF AcceptJoin, AcceptBackfill, AcceptFinish, RejectFinish,
                MarkInvitation, SetDocRoleAclWrite, CreateChildInherit,
                RefreshGrant, RefreshIssue, Abort, tree
  <2>2. QED
    BY <1>2, <2>1, KeyFrame
<1>8. QED
  BY <1>3, <1>4, <1>5, <1>6, <1>7 DEF Continue

LEMMA KeyAtOnce ==
  ASSUME Inv, AtOnce
  PROVE  KeyInv'
<1> USE DEF Inv
<1>1. UNCHANGED req
  BY DEF AtOnce, JoinGroup, CreateInvitation, GetGovernance, UpdateDefaults,
         CreateRole, DeleteRole, SetMemberRoles, DissolveGroup
<1>2. CASE DissolveGroup
  <2>1. live' = {} /\ keys' = [d \in Docs |-> {}] /\ UNCHANGED created
    BY <1>2 DEF DissolveGroup
  <2>2. QED
    BY <1>1, <2>1 DEF KeyInv, At
<1>3. CASE ~DissolveGroup
  <2>1. UNCHANGED <<live, ver, keys, created>>
    BY <1>3 DEF AtOnce, JoinGroup, CreateInvitation, GetGovernance,
                UpdateDefaults, CreateRole, DeleteRole, SetMemberRoles, tree
  <2>2. QED
    BY <1>1, <2>1, KeyFrame
<1>4. QED
  BY <1>2, <1>3

-----------------------------------------------------------------------------
(* Theorems                                                                *)

LEMMA InvIsInvariant == Spec => []Inv
<1>1. Init => Inv
  BY TypeInit, KeyInit DEF Inv
<1>2. Inv /\ [Next]_vars => Inv'
  <2> SUFFICES ASSUME Inv, [Next]_vars PROVE Inv'
    OBVIOUS
  <2>1. ASSUME NEW q \in Requests, Start(q)
        PROVE  Inv'
    BY <2>1, TypeStart, KeyStart DEF Inv
  <2>2. ASSUME NEW q \in Requests, Continue(q)
        PROVE  Inv'
    BY <2>2, TypeContinue, KeyContinue DEF Inv
  <2>3. ASSUME NEW q \in Requests, Abort(q)
        PROVE  Inv'
    BY <2>3, TypeAbort, KeyContinue DEF Inv
  <2>4. CASE AtOnce
    BY <2>4, TypeAtOnce, KeyAtOnce DEF Inv
  <2>5. CASE UNCHANGED vars
    BY <2>5 DEF Inv, TypeOK, KeyInv, At, vars
  <2>6. QED
    BY <2>1, <2>2, <2>3, <2>4, <2>5 DEF Next, Terminated
<1>3. QED
  BY <1>1, <1>2, PTL DEF Spec

(* Every table row and every request in progress has its type, whatever    *)
(* the handlers' interleaving.                                             *)
THEOREM TypeCorrect == Spec => []TypeOK
BY InvIsInvariant, PTL DEF Inv

(* A document that has any key has the key of its current version, so a    *)
(* token can be issued for it.                                             *)
THEOREM CurrentKeyIsStored == Spec => []CurrentKeyStored
<1>1. Inv => CurrentKeyStored
  <2> SUFFICES ASSUME Inv, NEW d \in live, keys[d] # {}
               PROVE  ver[d] \in keys[d]
    BY DEF CurrentKeyStored
  <2>1. /\ d \in Docs /\ ver[d] \in Nat
        /\ keys[d] \subseteq Nat \ {0}
    BY DEF Inv, TypeOK
  <2>2. /\ ver[d] >= 1
        /\ \A v \in 2..ver[d] : v \in keys[d]
        /\ \A v \in keys[d] : v <= ver[d]
    BY DEF Inv, KeyInv
  <2>3. CASE ver[d] = 1
    BY <2>1, <2>2, <2>3
  <2>4. CASE ver[d] >= 2
    BY <2>1, <2>2, <2>4
  <2>5. QED
    BY <2>1, <2>2, <2>3, <2>4
<1>2. QED
  BY <1>1, InvIsInvariant, PTL

(* No two rotations that read the same version both take effect: a version *)
(* only ever moves to its successor while the document lives.              *)
THEOREM VersionsMoveByOne == Spec => RotationByOne
<1>1. Inv /\ [Next]_vars =>
        [\A d \in live \cap live' : ver'[d] \in {ver[d], ver[d] + 1}]_vars
  <2> SUFFICES ASSUME Inv, Next, NEW d \in live \cap live'
               PROVE  ver'[d] \in {ver[d], ver[d] + 1}
    OBVIOUS
  <2> USE DEF Inv
  <2>0. ver \in [Docs -> Nat] /\ d \in Docs
    BY DEF TypeOK
  <2>1. ASSUME NEW q \in Requests, CreateChildNode(q)
        PROVE  ver'[d] = ver[d]
    BY <2>0, <2>1 DEF CreateChildNode
  <2>2. ASSUME NEW q \in Requests, DeleteDocCommit(q)
        PROVE  ver'[d] = ver[d]
    BY <2>0, <2>2 DEF DeleteDocCommit
  <2>3. ASSUME NEW q \in Requests, RotateCommit(q)
        PROVE  ver'[d] \in {ver[d], ver[d] + 1}
    <3> DEFINE v == req[q].ver
    <3>1. CASE d = req[q].doc /\ v \notin keys[d] /\ ver' = [ver EXCEPT ![d] = v]
      <4>1. /\ v >= 2 /\ v <= ver[d] + 1
            /\ \A w \in 2..ver[d] : w \in keys[d]
        BY <2>3, <3>1 DEF RotateCommit, KeyInv
      <4>2. v \in Nat
        BY DEF TypeOK, Request
      <4>3. QED
        BY <2>0, <3>1, <4>1, <4>2
    <3>2. CASE ~(d = req[q].doc /\ v \notin keys[d] /\ ver' = [ver EXCEPT ![d] = v])
      BY <2>0, <2>3, <3>2 DEF RotateCommit
    <3>3. QED
      BY <3>1, <3>2
  <2>4. CASE DissolveGroup
    BY <2>4 DEF DissolveGroup
  <2>5. ASSUME NEW q \in Requests, Start(q) \/ Abort(q)
        PROVE  UNCHANGED ver
    BY <2>5 DEF Start, AcceptCheck, RejectCheck, SetDocRoleAclCheck,
                CreateChildCheck, DeleteDocCheck, RotateCheck, RefreshCheck,
                Abort, tree
  <2>6. ASSUME NEW q \in Requests, Continue(q), ~CreateChildNode(q),
               ~DeleteDocCommit(q), ~RotateCommit(q)
        PROVE  UNCHANGED ver
    BY <2>6 DEF Continue, AcceptJoin, AcceptBackfill, AcceptFinish,
                RejectFinish, MarkInvitation, SetDocRoleAclWrite,
                CreateChildKey, CreateChildInherit, RefreshGrant,
                RefreshIssue, tree
  <2>7. CASE AtOnce /\ ~DissolveGroup
    BY <2>7 DEF AtOnce, JoinGroup, CreateInvitation, GetGovernance,
                UpdateDefaults, CreateRole, DeleteRole, SetMemberRoles, tree
  <2>8. QED
    BY <2>1, <2>2, <2>3, <2>4, <2>5, <2>6, <2>7 DEF Next, Terminated, vars
<1>2. QED
  BY <1>1, InvIsInvariant, PTL DEF Spec, RotationByOne

(* No rotation, creation or deletion of another document ever takes a key  *)
(* of a living document away: what was encrypted under an older version    *)
(* can still be served.                                                    *)
THEOREM KeysStay == Spec => KeysAreKept
<1>1. TypeOK /\ [Next]_vars =>
        [\A d \in live \cap live' : keys[d] \subseteq keys'[d]]_vars
  <2> SUFFICES ASSUME TypeOK, Next, NEW d \in live \cap live'
               PROVE  keys[d] \subseteq keys'[d]
    OBVIOUS
  <2>0. keys \in [Docs -> SUBSET (1..MaxKeyVersion)] /\ d \in Docs
    BY DEF TypeOK
  <2>1. ASSUME NEW q \in Requests, CreateChildKey(q) \/ RotateCommit(q)
        PROVE  keys[d] \subseteq keys'[d]
    BY <2>0, <2>1 DEF CreateChildKey, RotateCommit
  <2>2. ASSUME NEW q \in Requests, DeleteDocCommit(q)
        PROVE  keys[d] \subseteq keys'[d]
    BY <2>0, <2>2 DEF DeleteDocCommit
  <2>3. CASE DissolveGroup
    BY <2>3 DEF DissolveGroup
  <2>4. ASSUME NEW q \in Requests, Start(q) \/ Abort(q)
        PROVE  UNCHANGED keys
    BY <2>4 DEF Start, AcceptCheck, RejectCheck, SetDocRoleAclCheck,
                CreateChildCheck, DeleteDocCheck, RotateCheck, RefreshCheck,
                Abort, tree
  <2>5. ASSUME NEW q \in Requests, Continue(q), ~CreateChildKey(q),
               ~DeleteDocCommit(q), ~RotateCommit(q)
        PROVE  UNCHANGED keys
    BY <2>5 DEF Continue, AcceptJoin, AcceptBackfill, AcceptFinish,
                RejectFinish, MarkInvitation, SetDocRoleAclWrite,
                CreateChildNode, CreateChildInherit, RefreshGrant,
                RefreshIssue, tree
  <2>6. CASE AtOnce /\ ~DissolveGroup
    BY <2>6 DEF AtOnce, JoinGroup, CreateInvitation, GetGovernance,
                UpdateDefaults, CreateRole, DeleteRole, SetMemberRoles, tree
  <2>7. QED
    BY <2>1, <2>2, <2>3, <2>4, <2>5, <2>6 DEF Next, Terminated, vars
<1>2. QED
  BY <1>1, TypeCorrect, PTL DEF Spec, KeysAreKept

-----------------------------------------------------------------------------
(* Rows and roles                                                          *)

LEMMA RowsStart ==
  ASSUME RowsNameRoles, NEW q \in Requests, Start(q) \/ Abort(q)
  PROVE  RowsNameRoles'
<1>1. UNCHANGED <<assign, acl, roles>>
  BY DEF Start, AcceptCheck, RejectCheck, SetDocRoleAclCheck,
         CreateChildCheck, DeleteDocCheck, RotateCheck, RefreshCheck,
         Abort, access
<1>2. QED
  BY <1>1 DEF RowsNameRoles

(* The foreign keys decide whether the backfill goes through, so what it   *)
(* writes names roles that exist.                                          *)
LEMMA RowsBackfill ==
  ASSUME TypeOK, RowsNameRoles, BackfillWorks, EnsureGroupRbac, UNCHANGED roles
  PROVE  RowsNameRoles'
<1>1. ASSUME NEW n \in Nodes PROVE assign'[n] \subseteq roles
  <2>1. assign'[n] = IF n \in members \ {Owner} /\ assign[n] = {}
                       THEN {defaultRole} ELSE assign[n]
    BY DEF EnsureGroupRbac, BackfillRoles
  <2>2. QED
    BY <2>1 DEF BackfillWorks, RowsNameRoles
<1>2. ASSUME NEW d \in Docs, NEW r \in Roles \ roles PROVE acl'[d][r] = NoRow
  <2>1. acl'[d] = IF d \in live /\ ~HasRows(acl, d) THEN template ELSE acl[d]
    BY DEF EnsureGroupRbac, BackfillAcl
  <2>2. QED
    BY <2>1 DEF BackfillWorks, RowsNameRoles
<1>3. QED
  BY <1>1, <1>2 DEF RowsNameRoles

LEMMA RowsContinue ==
  ASSUME TypeOK, RowsNameRoles, NEW q \in Requests, Continue(q)
  PROVE  RowsNameRoles'
<1> DEFINE d == req[q].doc
           p == req[q].par
<1>0. /\ acl \in [Docs -> [Roles -> AclLevels]] /\ d \in Docs /\ p \in Docs
      /\ req[q].role \in Roles
  BY DEF TypeOK, Request
<1>1. CASE AcceptBackfill(q)
  <2>1. CASE BackfillWorks /\ EnsureGroupRbac
    BY <1>1, <2>1, RowsBackfill DEF AcceptBackfill
  <2>2. CASE UNCHANGED <<assign, acl>>
    BY <1>1, <2>2 DEF AcceptBackfill, RowsNameRoles
  <2>3. QED
    BY <1>1, <2>1, <2>2 DEF AcceptBackfill
<1>2. CASE SetDocRoleAclWrite(q)
  <2>1. CASE req[q].role \in roles /\ acl' = [acl EXCEPT ![d][req[q].role] = req[q].level]
    BY <1>0, <1>2, <2>1 DEF SetDocRoleAclWrite, RowsNameRoles
  <2>2. CASE UNCHANGED acl
    BY <1>2, <2>2 DEF SetDocRoleAclWrite, RowsNameRoles
  <2>3. QED
    BY <1>2, <2>1, <2>2 DEF SetDocRoleAclWrite
<1>3. CASE CreateChildInherit(q)
  <2>1. CASE acl' = [acl EXCEPT ![d] = [r \in Roles |->
                       IF acl[p][r] # NoRow THEN acl[p][r] ELSE @[r]]]
    BY <1>0, <1>3, <2>1 DEF CreateChildInherit, RowsNameRoles
  <2>2. CASE UNCHANGED acl
    BY <1>3, <2>2 DEF CreateChildInherit, RowsNameRoles
  <2>3. QED
    BY <1>3, <2>1, <2>2 DEF CreateChildInherit
<1>4. CASE DeleteDocCommit(q)
  BY <1>0, <1>4 DEF DeleteDocCommit, RowsNameRoles
<1>5. CASE \/ AcceptJoin(q) \/ AcceptFinish(q) \/ RejectFinish(q)
           \/ CreateChildNode(q) \/ CreateChildKey(q) \/ RotateCommit(q)
           \/ RefreshGrant(q) \/ RefreshIssue(q)
  <2>1. UNCHANGED <<assign, acl, roles>>
    BY <1>5 DEF AcceptJoin, AcceptFinish, RejectFinish, MarkInvitation,
                CreateChildNode, CreateChildKey, RotateCommit, RefreshGrant,
                RefreshIssue, access
  <2>2. QED
    BY <2>1 DEF RowsNameRoles
<1>6. QED
  BY <1>1, <1>2, <1>3, <1>4, <1>5 DEF Continue

LEMMA RowsAtOnce ==
  ASSUME TypeOK, RowsNameRoles, AtOnce
  PROVE  RowsNameRoles'
<1>0. acl \in [Docs -> [Roles -> AclLevels]] /\ assign \in [Nodes -> SUBSET Roles]
  BY DEF TypeOK
<1>1. CASE GetGovernance
  BY <1>1, RowsBackfill DEF GetGovernance
<1>2. ASSUME NEW r \in CustomRoles, CreateRole(r)
      PROVE  RowsNameRoles'
  BY <1>2 DEF CreateRole, RowsNameRoles
<1>3. ASSUME NEW r \in CustomRoles, DeleteRole(r)
      PROVE  RowsNameRoles'
  <2>1. /\ roles' = roles \ {r}
        /\ assign' = [n \in Nodes |-> assign[n] \ {r}]
        /\ acl' = [d \in Docs |-> [acl[d] EXCEPT ![r] = NoRow]]
    BY <1>3 DEF DeleteRole
  <2>2. QED
    BY <1>0, <2>1 DEF RowsNameRoles
<1>4. ASSUME NEW n \in Nodes, NEW rs \in MemberRoleEdits, SetMemberRoles(n, rs)
      PROVE  RowsNameRoles'
  BY <1>0, <1>4 DEF SetMemberRoles, RowsNameRoles
<1>5. CASE DissolveGroup
  BY <1>5 DEF DissolveGroup, RowsNameRoles
<1>6. CASE \/ \E n \in Nodes : JoinGroup(n)
           \/ \E n \in members, i \in Invites, to \in Nodes : CreateInvitation(n, i, to)
           \/ \E r \in pastRoles, tpl \in Templates : UpdateDefaults(r, tpl)
  <2>1. UNCHANGED <<assign, acl, roles>>
    BY <1>6 DEF JoinGroup, CreateInvitation, UpdateDefaults, access
  <2>2. QED
    BY <2>1 DEF RowsNameRoles
<1>7. QED
  BY <1>1, <1>2, <1>3, <1>4, <1>5, <1>6 DEF AtOnce

(* Deleting a role leaves no assignment and no document row naming it,     *)
(* whatever requests still carry its id and whatever the template or the   *)
(* default role names.                                                     *)
THEOREM RowsNameLiveRoles == Spec => []RowsNameRoles
<1>1. Init => RowsNameRoles
  <2> SUFFICES ASSUME Init PROVE RowsNameRoles
    OBVIOUS
  <2>1. ASSUME NEW n \in Nodes PROVE assign[n] \subseteq roles
    BY InitialAssumption DEF Init
  <2>2. ASSUME NEW d \in Docs, NEW r \in Roles \ roles PROVE acl[d][r] = NoRow
    BY DEF Init, InitialAcl, SeedTemplate, Roles, BuiltinRoles
  <2>3. QED
    BY <2>1, <2>2 DEF RowsNameRoles
<1>2. TypeOK /\ RowsNameRoles /\ [Next]_vars => RowsNameRoles'
  BY RowsStart, RowsContinue, RowsAtOnce
     DEF Next, Terminated, vars, RowsNameRoles
<1>3. QED
  BY <1>1, <1>2, TypeCorrect, PTL DEF Spec

-----------------------------------------------------------------------------
(* Members                                                                 *)

(* A handler that goes on after its check still acts for the person of its *)
(* invitation, or for someone who was a member when it was checked: nobody *)
(* ever ceases to be a member while the group exists.                      *)
RequestsKnowMembers ==
    \A q \in Requests :
        /\ req[q].step \in {"joinInvited", "backfill", "markAccepted"} =>
              /\ req[q].caller = invites[req[q].inv].to
              /\ invites[req[q].inv].state # "none"
        /\ req[q].step \in {"backfill", "markAccepted", "grant", "issue"} =>
              req[q].caller \in members

DissolvedIsEmpty == ~alive => \A i \in Invites : invites[i].state = "none"

MemberInv ==
    /\ AcceptedIsMember /\ TokensToMembers /\ DissolvedIsEmpty
    /\ alive => RequestsKnowMembers

(* A step that touches neither members nor invitations nor tokens, and     *)
(* moves at most one request, to a place where it knows its caller.        *)
LEMMA MemberFrame ==
  ASSUME MemberInv, NEW q \in Requests,
         UNCHANGED <<alive, members, invites, tokens>>,
         \A o \in Requests \ {q} : req'[o] = req[o],
         \/ req'[q].step \notin {"joinInvited", "backfill", "markAccepted",
                                 "grant", "issue"}
         \/ /\ req'[q].step \in {"grant", "issue"}
            /\ alive => req'[q].caller \in members
         \/ /\ req'[q].step = "joinInvited"
            /\ req'[q].caller = invites[req'[q].inv].to
            /\ invites[req'[q].inv].state # "none"
         \/ /\ req'[q].step \in {"backfill", "markAccepted"}
            /\ alive => /\ req'[q].caller = invites[req'[q].inv].to
                        /\ invites[req'[q].inv].state # "none"
                        /\ req'[q].caller \in members
  PROVE  MemberInv'
BY DEF MemberInv, AcceptedIsMember, TokensToMembers, DissolvedIsEmpty,
       RequestsKnowMembers

LEMMA MemberStart ==
  ASSUME TypeOK, MemberInv, NEW q \in Requests, Start(q) \/ Abort(q)
  PROVE  MemberInv'
<1>1. UNCHANGED <<alive, members, invites, tokens>>
  BY DEF Start, AcceptCheck, RejectCheck, SetDocRoleAclCheck,
         CreateChildCheck, DeleteDocCheck, RotateCheck, RefreshCheck,
         Abort, access
<1>2. ASSUME NEW i \in Invites, AcceptCheck(q, i)
      PROVE  MemberInv'
  <2>1. /\ \A o \in Requests \ {q} : req'[o] = req[o]
        /\ req'[q].step = "joinInvited" /\ req'[q].inv = i
        /\ req'[q].caller = invites[i].to
    BY <1>2 DEF AcceptCheck, Begin, Idle, TypeOK
  <2>2. invites[i].state # "none"
    BY <1>2 DEF AcceptCheck
  <2>3. QED
    BY <1>1, <2>1, <2>2, MemberFrame
<1>3. ASSUME NEW n \in Nodes, NEW d \in Docs, RefreshCheck(q, n, d)
      PROVE  MemberInv'
  <2>1. /\ \A o \in Requests \ {q} : req'[o] = req[o]
        /\ req'[q].step = "grant" /\ req'[q].caller = n /\ n \in members
    BY <1>3 DEF RefreshCheck, Begin, Idle, TypeOK
  <2>2. QED
    BY <1>1, <2>1, MemberFrame
<1>4. CASE \/ \E i \in Invites : RejectCheck(q, i)
           \/ \E n \in Nodes, d \in Docs :
                 \/ \E e \in AclEdits : SetDocRoleAclCheck(q, n, d, e[1], e[2])
                 \/ \E p \in Docs : CreateChildCheck(q, n, p, d)
                 \/ DeleteDocCheck(q, n, d)
                 \/ RotateCheck(q, n, d)
           \/ Abort(q)
  <2> DEFINE Others == \A o \in Requests \ {q} : req'[o] = req[o]
  <2>1. /\ Others
        /\ req'[q].step \in {"idle", "markRejected", "writeAcl",
                             "createNode", "delete", "rotate"}
    <3>1. ASSUME NEW i \in Invites, RejectCheck(q, i)
          PROVE  Others /\ req'[q].step = "markRejected"
      BY <3>1 DEF RejectCheck, Begin, Idle, TypeOK
    <3>2. ASSUME NEW n \in Nodes, NEW d \in Docs, NEW e \in AclEdits,
                 SetDocRoleAclCheck(q, n, d, e[1], e[2])
          PROVE  Others /\ req'[q].step = "writeAcl"
      BY <3>2 DEF SetDocRoleAclCheck, Begin, Idle, TypeOK
    <3>3. ASSUME NEW n \in Nodes, NEW d \in Docs, NEW p \in Docs,
                 CreateChildCheck(q, n, p, d)
          PROVE  Others /\ req'[q].step = "createNode"
      BY <3>3 DEF CreateChildCheck, Begin, Idle, TypeOK
    <3>4. ASSUME NEW n \in Nodes, NEW d \in Docs, DeleteDocCheck(q, n, d)
          PROVE  Others /\ req'[q].step = "delete"
      BY <3>4 DEF DeleteDocCheck, Begin, Idle, TypeOK
    <3>5. ASSUME NEW n \in Nodes, NEW d \in Docs, RotateCheck(q, n, d)
          PROVE  Others /\ req'[q].step = "rotate"
      BY <3>5 DEF RotateCheck, Begin, Idle, TypeOK
    <3>6. ASSUME Abort(q)
          PROVE  Others /\ req'[q].step = "idle"
      BY <3>6 DEF Abort, Finish, Idle, TypeOK
    <3>7. QED
      BY <1>4, <3>1, <3>2, <3>3, <3>4, <3>5, <3>6
  <2>2. QED
    BY <1>1, <2>1, MemberFrame
<1>5. QED
  BY <1>2, <1>3, <1>4 DEF Start

LEMMA MemberContinue ==
  ASSUME TypeOK, MemberInv, NEW q \in Requests, Continue(q)
  PROVE  MemberInv'
<1> DEFINE r == req[q]
<1>0. /\ req \in [Requests -> Request] /\ r.inv \in Invites
      /\ invites \in [Invites -> [state: InviteStates, to: Nodes]]
  BY DEF TypeOK, Request
<1>1. ASSUME NEW s \in Steps, Proceed(q, s)
      PROVE  /\ req'[q].step = s /\ req'[q].caller = r.caller /\ req'[q].inv = r.inv
             /\ \A o \in Requests \ {q} : req'[o] = req[o]
  <2>1. req'[q] = [req[q] EXCEPT !.step = s] /\ req[q] \in Request
    BY <1>0, <1>1 DEF Proceed
  <2>2. QED
    BY <1>0, <1>1, <2>1 DEF Proceed, Request
<1>2. ASSUME Finish(q)
      PROVE  /\ req'[q].step = "idle"
             /\ \A o \in Requests \ {q} : req'[o] = req[o]
  BY <1>0, <1>2 DEF Finish, Idle
<1>3. CASE AcceptJoin(q)
  <2>1. CASE alive /\ members' = members \cup {r.caller} /\ Proceed(q, "backfill")
    <3>1. UNCHANGED <<alive, invites, tokens>>
      BY <1>3 DEF AcceptJoin
    <3>2. /\ req'[q].caller = invites[req'[q].inv].to
          /\ invites[req'[q].inv].state # "none" /\ req'[q].caller \in members'
      BY <1>1, <1>3, <2>1 DEF AcceptJoin, At, MemberInv, RequestsKnowMembers, Steps
    <3>3. \A o \in Requests \ {q} : req'[o] = req[o]
      BY <1>1, <2>1 DEF Steps
    <3>4. req'[q].step = "backfill"
      BY <1>1, <2>1 DEF Steps
    <3>5. QED
      BY <2>1, <3>1, <3>2, <3>3, <3>4
         DEF MemberInv, AcceptedIsMember, TokensToMembers, DissolvedIsEmpty,
             RequestsKnowMembers
  <2>2. CASE UNCHANGED members /\ Finish(q)
    BY <1>2, <1>3, <2>2, MemberFrame DEF AcceptJoin
  <2>3. QED
    BY <1>3, <2>1, <2>2 DEF AcceptJoin
<1>4. CASE AcceptBackfill(q)
  <2>0. UNCHANGED <<alive, members, invites, tokens>>
    BY <1>4 DEF AcceptBackfill
  <2>1. CASE Proceed(q, "markAccepted")
    <3>1. alive => /\ r.caller = invites[r.inv].to
                   /\ invites[r.inv].state # "none" /\ r.caller \in members
      BY <1>4 DEF AcceptBackfill, At, MemberInv, RequestsKnowMembers
    <3>2. QED
      BY <1>1, <2>0, <2>1, <3>1, MemberFrame DEF Steps
  <2>2. CASE Finish(q)
    BY <1>2, <2>0, <2>2, MemberFrame
  <2>3. QED
    BY <1>4, <2>1, <2>2 DEF AcceptBackfill
<1>5. CASE AcceptFinish(q) \/ RejectFinish(q)
  <2>1. /\ UNCHANGED <<alive, members, tokens>>
        /\ \A o \in Requests \ {q} : req'[o] = req[o]
        /\ req'[q].step = "idle"
    BY <1>2, <1>5 DEF AcceptFinish, RejectFinish, MarkInvitation, access
  <2>2. CASE UNCHANGED invites
    BY <2>1, <2>2, MemberFrame
  <2>3. ASSUME alive, NEW s \in {"accepted", "rejected"},
               invites' = [invites EXCEPT ![r.inv].state = s],
               s = "accepted" => At(q, "markAccepted")
        PROVE  MemberInv'
    <3>1. /\ \A i \in Invites : invites'[i].to = invites[i].to
          /\ \A i \in Invites : i # r.inv => invites'[i] = invites[i]
          /\ invites'[r.inv].state = s
      BY <1>0, <2>3
    <3>2. s = "accepted" => invites[r.inv].to \in members
      BY <2>3 DEF At, MemberInv, RequestsKnowMembers
    <3>3. AcceptedIsMember'
      BY <2>1, <2>3, <3>1, <3>2 DEF MemberInv, AcceptedIsMember
    <3>4. RequestsKnowMembers'
      <4>1. \A o \in Requests : req[o].inv \in Invites
        BY <1>0 DEF Request
      <4>2. QED
        BY <2>1, <2>3, <3>1, <4>1 DEF MemberInv, RequestsKnowMembers
    <3>5. QED
      BY <2>1, <2>3, <3>3, <3>4 DEF MemberInv, TokensToMembers, DissolvedIsEmpty
  <2>4. QED
    BY <1>5, <2>2, <2>3 DEF AcceptFinish, RejectFinish, MarkInvitation
<1>6. CASE RefreshGrant(q)
  <2>0. UNCHANGED <<alive, members, invites, tokens>>
    BY <1>6 DEF RefreshGrant
  <2>1. CASE Proceed(q, "issue")
    <3>1. alive => r.caller \in members
      BY <1>6 DEF RefreshGrant, At, MemberInv, RequestsKnowMembers
    <3>2. QED
      BY <1>1, <2>0, <2>1, <3>1, MemberFrame DEF Steps
  <2>2. CASE Finish(q)
    BY <1>2, <2>0, <2>2, MemberFrame
  <2>3. QED
    BY <1>6, <2>1, <2>2 DEF RefreshGrant
<1>7. CASE RefreshIssue(q)
  <2>1. /\ UNCHANGED <<alive, members, invites>>
        /\ \A o \in Requests \ {q} : req'[o] = req[o]
        /\ req'[q].step = "idle"
    BY <1>2, <1>7 DEF RefreshIssue, access
  <2>2. \A t \in tokens' : t \in tokens \/ t.node = r.caller
    BY <1>7 DEF RefreshIssue
  <2>3. alive => r.caller \in members
    BY <1>7 DEF RefreshIssue, At, MemberInv, RequestsKnowMembers
  <2>4. TokensToMembers'
    BY <2>1, <2>2, <2>3 DEF MemberInv, TokensToMembers
  <2>5. QED
    BY <2>1, <2>4 DEF MemberInv, AcceptedIsMember, DissolvedIsEmpty,
                      RequestsKnowMembers
<1>8. CASE \/ SetDocRoleAclWrite(q) \/ CreateChildNode(q) \/ CreateChildKey(q)
           \/ CreateChildInherit(q) \/ DeleteDocCommit(q) \/ RotateCommit(q)
  <2>1. UNCHANGED <<alive, members, invites, tokens>>
    BY <1>8 DEF SetDocRoleAclWrite, CreateChildNode, CreateChildKey,
                CreateChildInherit, DeleteDocCommit, RotateCommit, access
  <2>2. \/ Finish(q)
        \/ \E s \in {"createKey", "inherit"} : Proceed(q, s)
    BY <1>8 DEF SetDocRoleAclWrite, CreateChildNode, CreateChildKey,
                CreateChildInherit, DeleteDocCommit, RotateCommit
  <2>3. /\ req'[q].step \in {"idle", "createKey", "inherit"}
        /\ \A o \in Requests \ {q} : req'[o] = req[o]
    BY <1>1, <1>2, <2>2 DEF Steps
  <2>4. QED
    BY <2>1, <2>3, MemberFrame
<1>9. QED
  BY <1>3, <1>4, <1>5, <1>6, <1>7, <1>8 DEF Continue

LEMMA MemberAtOnce ==
  ASSUME TypeOK, MemberInv, AtOnce
  PROVE  MemberInv'
<1> USE DEF MemberInv, AcceptedIsMember, TokensToMembers, DissolvedIsEmpty,
            RequestsKnowMembers
<1>1. ASSUME NEW n \in Nodes, JoinGroup(n)
      PROVE  MemberInv'
  BY <1>1 DEF JoinGroup
<1>2. ASSUME NEW n \in members, NEW i \in Invites, NEW to \in Nodes,
             CreateInvitation(n, i, to)
      PROVE  MemberInv'
  <2>1. \A q \in Requests : req[q].inv \in Invites
    BY DEF TypeOK, Request
  <2>2. /\ \A j \in Invites \ {i} : invites'[j] = invites[j]
        /\ invites'[i].state = "pending" /\ invites[i].state = "none"
        /\ UNCHANGED <<alive, members, tokens, req>> /\ alive
    BY <1>2 DEF CreateInvitation, TypeOK, access
  <2>3. QED
    BY <2>1, <2>2
<1>3. CASE DissolveGroup
  BY <1>3 DEF DissolveGroup
<1>4. CASE \/ GetGovernance
           \/ \E r \in pastRoles, tpl \in Templates : UpdateDefaults(r, tpl)
           \/ \E r \in CustomRoles : CreateRole(r) \/ DeleteRole(r)
           \/ \E n \in Nodes, rs \in MemberRoleEdits : SetMemberRoles(n, rs)
  <2>1. UNCHANGED <<alive, members, invites, tokens, req>>
    BY <1>4 DEF GetGovernance, UpdateDefaults, CreateRole, DeleteRole,
                SetMemberRoles
  <2>2. QED
    BY <2>1
<1>5. QED
  BY <1>1, <1>2, <1>3, <1>4 DEF AtOnce

LEMMA MemberInvIsInvariant == Spec => []MemberInv
<1>1. Init => MemberInv
  BY DEF Init, MemberInv, AcceptedIsMember, TokensToMembers, DissolvedIsEmpty,
         RequestsKnowMembers, Idle
<1>2. TypeOK /\ MemberInv /\ [Next]_vars => MemberInv'
  <2> SUFFICES ASSUME TypeOK, MemberInv, [Next]_vars PROVE MemberInv'
    OBVIOUS
  <2>1. CASE UNCHANGED vars
    BY <2>1 DEF vars, MemberInv, AcceptedIsMember, TokensToMembers,
                DissolvedIsEmpty, RequestsKnowMembers
  <2>2. QED
    BY <2>1, MemberStart, MemberContinue, MemberAtOnce DEF Next, Terminated
<1>3. QED
  BY <1>1, <1>2, TypeCorrect, PTL DEF Spec

(* No interleaving, failure or restart leaves an invitation accepted for   *)
(* someone who is not a member.                                            *)
THEOREM AcceptedAreMembers == Spec => []AcceptedIsMember
BY MemberInvIsInvariant, PTL DEF MemberInv

(* refreshJwt issues from a membership it read two database calls earlier, *)
(* and still every token of a living group is a member's.                  *)
THEOREM TokensGoToMembers == Spec => []TokensToMembers
BY MemberInvIsInvariant, PTL DEF MemberInv

=============================================================================
