------------------------------- MODULE Groups -------------------------------
(***************************************************************************)
(* One group of the control plane: GroupsService                           *)
(* (apps/control-plane/src/groups/groups.service.ts) over the tables of    *)
(* prisma/schema.prisma.                                                   *)
(*                                                                         *)
(* Handlers run concurrently and give up control at every database call.   *)
(* A handler with several calls is one action per call that writes, its    *)
(* reads before the first write being one action ("...Check"); what it     *)
(* remembers in between is its record in req.  A $transaction is one       *)
(* action.  A handler that answers an error writes nothing, so a refused   *)
(* check is simply not enabled; a refused later step ends the request.     *)
(* Abort ends a request between two of its steps: the database call        *)
(* failed, or the process was restarted.                                   *)
(***************************************************************************)
EXTENDS GroupsRbac

CONSTANTS
    Folders,          \* the ids clients create as folders (is_folder); has Root
    InitialRoles,     \* [Nodes -> SUBSET Roles]: who holds what at the start
    InitialDocs,      \* documents the owner created under Root beforehand
    Requests,         \* slots for concurrent requests
    MaxRequests,      \* bound: requests ever started
    MaxKeyVersion,    \* bound: key versions
    AclEdits,         \* the (role, level) pairs SetDocRoleAcl is asked for
    MemberRoleEdits,  \* the role sets updateGovernance is asked for
    Templates,        \* the child templates updateGovernance is asked for
    Invites           \* ids of invitations

ASSUME FolderAssumption == Root \in Folders /\ Folders \subseteq Docs
ASSUME InitialAssumption ==
    /\ InitialRoles \in [Nodes -> SUBSET BuiltinRoles]
    /\ InitialRoles[Owner] = {"admin"}
    /\ InitialDocs \subseteq Docs \ {Root}
ASSUME InviteAssumption == Invites # {}
ASSUME BoundAssumption == MaxRequests \in Nat /\ MaxKeyVersion \in Nat \ {0}
ASSUME InputAssumption ==
    /\ AclEdits \subseteq Roles \X Levels
    /\ MemberRoleEdits \subseteq SUBSET Roles
    /\ Templates \subseteq [Roles -> AclLevels]

VARIABLES
    alive,        \* the Group row exists
    members,      \* nodes with a Member row (nothing ever sets leftAt)
    roles,        \* ids of the GroupRole rows
    pastRoles,    \* ids ever given to a role: what a stale page may still show
    assign, acl, grants,
    defaultRole, template,   \* the GroupDefaultRules row
    live, parent, ver,       \* DocNode rows: ids, parentDocId, keyVersion
    keys,         \* keys[d]: versions with a DocumentKey row
    invites,      \* Invitation rows
    tokens,       \* what refreshJwt has handed out
    created,      \* document ids clients have drawn: a new UUID each time
    req,          \* the requests in progress
    issued        \* number of requests started, for the bound

access == <<alive, members, roles, pastRoles, assign, acl, grants, defaultRole, template>>
tree == <<live, parent, ver, keys, created>>
vars == <<alive, members, roles, pastRoles, assign, acl, grants,
          defaultRole, template, live, parent, ver, keys, created, invites,
          tokens, req, issued>>

Steps == {"idle", "joinInvited", "backfill", "markAccepted", "markRejected",
          "writeAcl", "createNode", "createKey", "inherit", "delete",
          "rotate", "grant", "issue"}
InviteStates == {"none", "pending", "accepted", "rejected"}

Request == [step: Steps, caller: Nodes, doc: Docs, par: Docs, role: Roles,
            level: Levels, ver: 0..MaxKeyVersion, inv: Invites]
Token == [node: Nodes, doc: Docs, role: Levels, ver: 1..MaxKeyVersion]

AnInvite == CHOOSE i \in Invites : TRUE
Idle == [step |-> "idle", caller |-> Owner, doc |-> Root, par |-> Root,
         role |-> "reader", level |-> 0, ver |-> 0, inv |-> AnInvite]

Level(n, d) == AccessLevel(assign, acl, n, d)
IsFolder(d) == d \in Folders    \* parent.isFolder || docId === ROOT_DOC_ID

(* The group as createGroup, the owner's first CreateChild calls and the   *)
(* acceptance of the initial members' invitations leave it.                *)
InitialAcl == [d \in Docs |-> IF d \in {Root} \cup InitialDocs
                                THEN SeedTemplate ELSE [r \in Roles |-> NoRow]]
InitialLive == {Root} \cup InitialDocs

Init ==
    /\ alive = TRUE
    /\ members = {Owner} \cup {n \in Nodes : InitialRoles[n] # {}}
    /\ roles = BuiltinRoles
    /\ pastRoles = BuiltinRoles
    /\ assign = InitialRoles
    /\ acl = InitialAcl
    /\ grants = SyncMemberAllDocs(InitialRoles, InitialAcl, InitialLive,
                    [d \in Docs |-> [n \in Nodes |-> 0]], members)
    /\ defaultRole = "reader"
    /\ template = SeedTemplate
    /\ live = InitialLive
    /\ parent = [d \in Docs |-> Root]
    /\ ver = [d \in Docs |-> IF d \in InitialLive THEN 1 ELSE 0]
    /\ keys = [d \in Docs |-> IF d \in InitialLive THEN {1} ELSE {}]
    /\ invites = [i \in Invites |-> [state |-> "none", to |-> Owner]]
    /\ tokens = {}
    /\ created = InitialLive
    /\ req = [q \in Requests |-> Idle]
    /\ issued = 0

-----------------------------------------------------------------------------
(* Bookkeeping of requests                                                 *)

Arrive == issued < MaxRequests /\ issued' = issued + 1
Begin(q, r) == Arrive /\ req[q] = Idle /\ req' = [req EXCEPT ![q] = r]
At(q, s) == req[q].step = s
Proceed(q, s) == req' = [req EXCEPT ![q].step = s] /\ UNCHANGED issued
Finish(q) == req' = [req EXCEPT ![q] = Idle] /\ UNCHANGED issued

(* The request fails between two steps; what it wrote stays written.       *)
Abort(q) ==
    /\ req[q] # Idle
    /\ Finish(q)
    /\ UNCHANGED <<access, tree, invites, tokens>>

-----------------------------------------------------------------------------
(* Membership and invitations                                              *)

(* joinGroup: anyone who knows the group id becomes a member, without any  *)
(* role.                                                                   *)
JoinGroup(n) ==
    /\ alive
    /\ Arrive
    /\ members' = members \cup {n}
    /\ UNCHANGED <<alive, roles, pastRoles, assign, acl, grants, defaultRole,
                   template, tree, invites, tokens, req>>

CreateInvitation(n, i, to) ==
    /\ alive /\ n \in members
    /\ Arrive
    /\ invites[i].state = "none"
    /\ invites' = [invites EXCEPT ![i] = [state |-> "pending", to |-> to]]
    /\ UNCHANGED <<access, tree, tokens, req>>

(* Mutant: accepting goes on without joinGroup.                            *)
AcceptCheckNoJoin(q, i) ==
    /\ alive /\ invites[i].state = "pending"
    /\ Begin(q, [Idle EXCEPT !.step = "backfill", !.inv = i,
                             !.caller = invites[i].to])
    /\ UNCHANGED <<access, tree, invites, tokens>>

(* acceptInvitation: check, joinGroup, ensureGroupRbac, status.            *)
AcceptCheck(q, i) ==
    /\ alive /\ invites[i].state = "pending"
    /\ Begin(q, [Idle EXCEPT !.step = "joinInvited", !.inv = i,
                             !.caller = invites[i].to])
    /\ UNCHANGED <<access, tree, invites, tokens>>

AcceptJoin(q) ==
    /\ At(q, "joinInvited")
    /\ \/ /\ alive
          /\ members' = members \cup {req[q].caller}
          /\ Proceed(q, "backfill")
       \/ ~alive /\ Finish(q) /\ UNCHANGED members
    /\ UNCHANGED <<alive, roles, pastRoles, assign, acl, grants, defaultRole,
                   template, tree, invites, tokens>>

(* The transaction ensureGroupRbac aborts when it would write a role that  *)
(* no longer exists: neither the default role nor the template's keys are  *)
(* foreign keys.                                                           *)
BackfillWorks ==
    /\ alive
    /\ \/ defaultRole \in roles
       \/ \A n \in members \ {Owner} : assign[n] # {}
    /\ \/ \A r \in Roles : template[r] # NoRow => r \in roles
       \/ \A d \in live : HasRows(acl, d)

EnsureGroupRbac ==
    LET newAcl == BackfillAcl(acl, live, template)
        newAssign == BackfillRoles(members, assign, defaultRole)
    IN  /\ acl' = newAcl
        /\ assign' = newAssign
        /\ grants' = SyncMemberAllDocs(newAssign, newAcl, live, grants, members)

AcceptBackfill(q) ==
    /\ At(q, "backfill")
    /\ \/ BackfillWorks /\ EnsureGroupRbac /\ Proceed(q, "markAccepted")
       \/ ~BackfillWorks /\ Finish(q) /\ UNCHANGED <<assign, acl, grants>>
    /\ UNCHANGED <<alive, members, roles, pastRoles, defaultRole, template,
                   tree, invites, tokens>>

MarkInvitation(q, step, state) ==
    /\ At(q, step)
    /\ \/ alive /\ invites' = [invites EXCEPT ![req[q].inv].state = state]
       \/ ~alive /\ UNCHANGED invites
    /\ Finish(q)
    /\ UNCHANGED <<access, tree, tokens>>

AcceptFinish(q) == MarkInvitation(q, "markAccepted", "accepted")

(* rejectInvitation: check, status.                                        *)
RejectCheck(q, i) ==
    /\ alive /\ invites[i].state = "pending"
    /\ Begin(q, [Idle EXCEPT !.step = "markRejected", !.inv = i,
                             !.caller = invites[i].to])
    /\ UNCHANGED <<access, tree, invites, tokens>>

RejectFinish(q) == MarkInvitation(q, "markRejected", "rejected")

-----------------------------------------------------------------------------
(* Governance                                                              *)

(* getGovernance: the backfill runs before the caller is looked at, so who *)
(* calls it does not matter to the state.                                  *)
GetGovernance ==
    /\ BackfillWorks
    /\ Arrive
    /\ EnsureGroupRbac
    /\ UNCHANGED <<alive, members, roles, pastRoles, defaultRole, template,
                   tree, invites, tokens, req>>

(* updateGovernance, one action per field the settings page sends; the     *)
(* caller is the owner.                                                    *)
UpdateDefaults(r, tpl) ==
    /\ alive /\ r \in pastRoles
    /\ Arrive
    /\ defaultRole' = r
    /\ template' = tpl
    /\ UNCHANGED <<alive, members, roles, pastRoles, assign, acl, grants, tree,
                   invites, tokens, req>>

CreateRole(r) ==
    /\ alive /\ r \notin pastRoles
    /\ Arrive
    /\ roles' = roles \cup {r}
    /\ pastRoles' = pastRoles \cup {r}
    /\ UNCHANGED <<alive, members, assign, acl, grants, defaultRole, template,
                   tree, invites, tokens, req>>

DeleteRole(r) ==
    LET affected == {n \in Nodes \ {Owner} : r \in assign[n]}
        left == [n \in Nodes |-> assign[n] \ {r}]
        newAcl == [d \in Docs |-> [acl[d] EXCEPT ![r] = NoRow]]
        wiped == [d \in Docs |-> [n \in Nodes |->
                    IF n \in affected /\ left[n] = {} THEN 0 ELSE grants[d][n]]]
    IN  /\ alive /\ r \in roles \ BuiltinRoles
        /\ Arrive
        /\ roles' = roles \ {r}
        /\ assign' = left
        /\ acl' = newAcl
        /\ template' = [template EXCEPT ![r] = NoRow]
        /\ defaultRole' = IF defaultRole = r THEN "reader" ELSE defaultRole
        /\ grants' = SyncMemberAllDocs(left, newAcl, live, wiped, affected)
        /\ UNCHANGED <<alive, members, pastRoles, tree, invites, tokens, req>>

(* An assignment has a foreign key to its role and none to the member: the *)
(* owner may give roles to someone who has not joined.                     *)
SetMemberRoles(n, rs) ==
    LET newAssign == [assign EXCEPT ![n] = rs]
    IN  /\ alive /\ rs \subseteq roles
        /\ Arrive
        /\ assign' = newAssign
        /\ grants' = SyncMemberAllDocs(newAssign, acl, live, grants, {n})
        /\ UNCHANGED <<alive, members, roles, pastRoles, acl, defaultRole,
                       template, tree, invites, tokens, req>>

(* dissolveGroup: the cascade empties every table of the group.            *)
DissolveGroup ==
    /\ alive
    /\ Arrive
    /\ alive' = FALSE
    /\ members' = {} /\ roles' = {}
    /\ assign' = [n \in Nodes |-> {}]
    /\ acl' = [d \in Docs |-> [r \in Roles |-> NoRow]]
    /\ grants' = [d \in Docs |-> [n \in Nodes |-> 0]]
    /\ live' = {}
    /\ parent' = [d \in Docs |-> Root]
    /\ ver' = [d \in Docs |-> 0]
    /\ keys' = [d \in Docs |-> {}]
    /\ invites' = [i \in Invites |-> [state |-> "none", to |-> Owner]]
    /\ UNCHANGED <<pastRoles, defaultRole, template, tokens, created, req>>

-----------------------------------------------------------------------------
(* operableRpc                                                             *)

SetDocRoleAclCheck(q, n, d, r, level) ==
    /\ alive
    /\ Level(n, d) >= 3
    /\ d \in live /\ r \in roles
    /\ CanEditDocRoleAcl(n, Level(n, d), acl[d][r])
    /\ Begin(q, [Idle EXCEPT !.step = "writeAcl", !.caller = n, !.doc = d,
                             !.role = r, !.level = level])
    /\ UNCHANGED <<access, tree, invites, tokens>>

(* Mutant: the row is written whether or not its role still exists.        *)
SetDocRoleAclWriteNoFk(q) ==
    LET r == req[q]
    IN  /\ At(q, "writeAcl")
        /\ alive
        /\ acl' = [acl EXCEPT ![r.doc][r.role] = r.level]
        /\ grants' = SyncAllMembersForDocRole(assign, grants, r.doc, r.role,
                                              r.level)
        /\ Finish(q)
        /\ UNCHANGED <<alive, members, roles, pastRoles, assign, defaultRole,
                       template, tree, invites, tokens>>

(* DocRoleAcl has a foreign key to the role and none to the document.      *)
SetDocRoleAclWrite(q) ==
    LET r == req[q]
    IN  /\ At(q, "writeAcl")
        /\ \/ /\ r.role \in roles
              /\ acl' = [acl EXCEPT ![r.doc][r.role] = r.level]
              /\ grants' = SyncAllMembersForDocRole(assign, grants, r.doc,
                                                    r.role, r.level)
           \/ r.role \notin roles /\ UNCHANGED <<acl, grants>>
        /\ Finish(q)
        /\ UNCHANGED <<alive, members, roles, pastRoles, assign, defaultRole,
                       template, tree, invites, tokens>>

CreateChildCheck(q, n, p, d) ==
    /\ alive /\ d # Root
    /\ Level(n, p) >= 3
    /\ p \in live /\ IsFolder(p)
    /\ d \notin created
    /\ Begin(q, [Idle EXCEPT !.step = "createNode", !.caller = n, !.doc = d,
                             !.par = p])
    /\ created' = created \cup {d}
    /\ UNCHANGED <<access, live, parent, ver, keys, invites, tokens>>

CreateChildNode(q) ==
    LET r == req[q]
    IN  /\ At(q, "createNode")
        /\ \/ /\ alive /\ r.doc \notin live
              /\ live' = live \cup {r.doc}
              /\ parent' = [parent EXCEPT ![r.doc] = r.par]
              /\ ver' = [ver EXCEPT ![r.doc] = 1]
              /\ Proceed(q, "createKey")
           \/ /\ ~alive \/ r.doc \in live
              /\ Finish(q)
              /\ UNCHANGED <<live, parent, ver>>
        /\ UNCHANGED <<access, keys, created, invites, tokens>>

CreateChildKey(q) ==
    LET d == req[q].doc
    IN  /\ At(q, "createKey")
        /\ \/ /\ d \in live /\ 1 \notin keys[d]
              /\ keys' = [keys EXCEPT ![d] = @ \cup {1}]
              /\ Proceed(q, "inherit")
           \/ /\ d \notin live \/ 1 \in keys[d]
              /\ Finish(q)
              /\ UNCHANGED keys
        /\ UNCHANGED <<access, live, parent, ver, created, invites, tokens>>

(* inheritParentDocAcl inserts the parent's rows; an existing row for the  *)
(* same role aborts the transaction.  It does not look at the child row.   *)
CreateChildInherit(q) ==
    LET d == req[q].doc
        p == req[q].par
        clash == \E r \in Roles : acl[p][r] # NoRow /\ acl[d][r] # NoRow
        newAcl == [acl EXCEPT ![d] = [r \in Roles |->
                     IF acl[p][r] # NoRow THEN acl[p][r] ELSE @[r]]]
        holders == {n \in Nodes : assign[n] # {}}
    IN  /\ At(q, "inherit")
        /\ \/ /\ alive /\ ~clash
              /\ acl' = newAcl
              /\ grants' = SyncMemberAllDocs(assign, newAcl, live, grants, holders)
           \/ (~alive \/ clash) /\ UNCHANGED <<acl, grants>>
        /\ Finish(q)
        /\ UNCHANGED <<alive, members, roles, pastRoles, assign, defaultRole,
                       template, tree, invites, tokens>>

DeleteDocCheck(q, n, d) ==
    /\ alive /\ d # Root
    /\ Level(n, d) >= 3
    /\ ~\E c \in live : parent[c] = d
    /\ Begin(q, [Idle EXCEPT !.step = "delete", !.caller = n, !.doc = d])
    /\ UNCHANGED <<access, tree, invites, tokens>>

(* Deleting the row cascades to its keys; without the row the delete       *)
(* raises and the whole transaction is rolled back.                        *)
DeleteDocCommit(q) ==
    LET d == req[q].doc
    IN  /\ At(q, "delete")
        /\ \/ /\ d \in live
              /\ live' = live \ {d}
              /\ parent' = [parent EXCEPT ![d] = Root]
              /\ ver' = [ver EXCEPT ![d] = 0]
              /\ keys' = [keys EXCEPT ![d] = {}]
              /\ acl' = [acl EXCEPT ![d] = [r \in Roles |-> NoRow]]
              /\ grants' = [grants EXCEPT ![d] = [n \in Nodes |-> 0]]
           \/ d \notin live /\ UNCHANGED <<live, parent, ver, keys, acl, grants>>
        /\ Finish(q)
        /\ UNCHANGED <<alive, members, roles, pastRoles, assign, defaultRole,
                       template, created, invites, tokens>>

-----------------------------------------------------------------------------
(* Keys and tokens                                                         *)

(* rotateDocKey reads the version outside its transaction.                 *)
RotateCheck(q, n, d) ==
    /\ alive
    /\ Level(n, d) >= 3
    /\ d \in live /\ ver[d] < MaxKeyVersion
    /\ Begin(q, [Idle EXCEPT !.step = "rotate", !.caller = n, !.doc = d,
                             !.ver = ver[d] + 1])
    /\ UNCHANGED <<access, tree, invites, tokens>>

(* Mutant: the version is incremented in the database and the key upserted.*)
RotateCommitIncrement(q) ==
    LET d == req[q].doc
        v == req[q].ver
    IN  /\ At(q, "rotate")
        /\ d \in live /\ ver[d] < MaxKeyVersion
        /\ ver' = [ver EXCEPT ![d] = @ + 1]
        /\ keys' = [keys EXCEPT ![d] = @ \cup {v}]
        /\ Finish(q)
        /\ UNCHANGED <<access, live, parent, created, invites, tokens>>

(* Mutant: the key is upserted, so a stale rotation is not refused.        *)
RotateCommitUpsert(q) ==
    LET d == req[q].doc
        v == req[q].ver
    IN  /\ At(q, "rotate")
        /\ d \in live
        /\ ver' = [ver EXCEPT ![d] = v]
        /\ keys' = [keys EXCEPT ![d] = @ \cup {v}]
        /\ Finish(q)
        /\ UNCHANGED <<access, live, parent, created, invites, tokens>>

(* Mutant: the document keeps only its newest key.                         *)
RotateCommitReplace(q) ==
    LET d == req[q].doc
        v == req[q].ver
    IN  /\ At(q, "rotate")
        /\ d \in live /\ v \notin keys[d]
        /\ ver' = [ver EXCEPT ![d] = v]
        /\ keys' = [keys EXCEPT ![d] = {v}]
        /\ Finish(q)
        /\ UNCHANGED <<access, live, parent, created, invites, tokens>>

RotateCommit(q) ==
    LET d == req[q].doc
        v == req[q].ver
    IN  /\ At(q, "rotate")
        /\ \/ /\ d \in live /\ v \notin keys[d]
              /\ ver' = [ver EXCEPT ![d] = v]
              /\ keys' = [keys EXCEPT ![d] = @ \cup {v}]
           \/ (d \notin live \/ v \in keys[d]) /\ UNCHANGED <<ver, keys>>
        /\ Finish(q)
        /\ UNCHANGED <<access, live, parent, created, invites, tokens>>

(* Mutant: the level is enough to get a token.                             *)
RefreshCheckAnyone(q, n, d) ==
    /\ alive
    /\ Level(n, d) >= 1
    /\ Begin(q, [Idle EXCEPT !.step = "grant", !.caller = n, !.doc = d,
                             !.level = Level(n, d)])
    /\ UNCHANGED <<access, tree, invites, tokens>>

(* refreshJwt: membership and level, the derived grant, then the document  *)
(* and its current key.                                                    *)
RefreshCheck(q, n, d) ==
    /\ alive /\ n \in members
    /\ Level(n, d) >= 1
    /\ Begin(q, [Idle EXCEPT !.step = "grant", !.caller = n, !.doc = d,
                             !.level = Level(n, d)])
    /\ UNCHANGED <<access, tree, invites, tokens>>

RefreshGrant(q) ==
    LET r == req[q]
    IN  /\ At(q, "grant")
        /\ \/ /\ alive
              /\ grants' = [grants EXCEPT ![r.doc][r.caller] = r.level]
              /\ Proceed(q, "issue")
           \/ ~alive /\ Finish(q) /\ UNCHANGED grants
        /\ UNCHANGED <<alive, members, roles, pastRoles, assign, acl,
                       defaultRole, template, tree, invites, tokens>>

RefreshIssue(q) ==
    LET r == req[q]
        v == ver[r.doc]
    IN  /\ At(q, "issue")
        /\ \/ /\ r.doc \in live /\ v \in keys[r.doc]
              /\ tokens' = tokens \cup {[node |-> r.caller, doc |-> r.doc,
                                         role |-> r.level, ver |-> v]}
           \/ (r.doc \notin live \/ v \notin keys[r.doc]) /\ UNCHANGED tokens
        /\ Finish(q)
        /\ UNCHANGED <<access, tree, invites>>

-----------------------------------------------------------------------------
Start(q) ==
    \/ \E i \in Invites : AcceptCheck(q, i) \/ RejectCheck(q, i)
    \/ \E n \in Nodes, d \in Docs :
          \/ \E e \in AclEdits : SetDocRoleAclCheck(q, n, d, e[1], e[2])
          \/ \E p \in Docs : CreateChildCheck(q, n, p, d)
          \/ DeleteDocCheck(q, n, d)
          \/ RotateCheck(q, n, d)
          \/ RefreshCheck(q, n, d)

Continue(q) ==
    \/ AcceptJoin(q) \/ AcceptBackfill(q) \/ AcceptFinish(q) \/ RejectFinish(q)
    \/ SetDocRoleAclWrite(q)
    \/ CreateChildNode(q) \/ CreateChildKey(q) \/ CreateChildInherit(q)
    \/ DeleteDocCommit(q) \/ RotateCommit(q)
    \/ RefreshGrant(q) \/ RefreshIssue(q)

AtOnce ==
    \/ \E n \in Nodes : JoinGroup(n)
    \/ \E n \in members, i \in Invites, to \in Nodes : CreateInvitation(n, i, to)
    \/ GetGovernance
    \/ \E r \in pastRoles, tpl \in Templates : UpdateDefaults(r, tpl)
    \/ \E r \in CustomRoles : CreateRole(r) \/ DeleteRole(r)
    \/ \E n \in Nodes, rs \in MemberRoleEdits : SetMemberRoles(n, rs)
    \/ DissolveGroup

(* Nothing is left to ask, and everything asked is answered; an unanswered *)
(* request that cannot go on is still reported as a deadlock.              *)
Terminated ==
    /\ issued = MaxRequests \/ ~alive
    /\ \A q \in Requests : req[q] = Idle
    /\ UNCHANGED vars

Next ==
    \/ \E q \in Requests : Start(q) \/ Continue(q) \/ Abort(q)
    \/ AtOnce
    \/ Terminated

Spec == Init /\ [][Next]_vars

=============================================================================
