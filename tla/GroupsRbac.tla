----------------------------- MODULE GroupsRbac -----------------------------
(***************************************************************************)
(* The role-based access helpers of the control plane                      *)
(* (apps/control-plane/src/groups/groups-rbac.ts) for one group, as        *)
(* operators on the tables they read and write:                            *)
(*                                                                         *)
(*   assign[n]   the roles of member n        (MemberRoleAssignment)       *)
(*   acl[d][r]   level of role r on doc d, or NoRow       (DocRoleAcl)     *)
(*   grants[d][n] derived level of node n on doc d, 0 when the table has   *)
(*               no row: the code deletes a row rather than storing 0      *)
(*                                                        (AclGrant)       *)
(*                                                                         *)
(* Each operator is the net effect of a loop that runs inside one database *)
(* transaction.                                                            *)
(***************************************************************************)
EXTENDS Integers

CONSTANTS
    Nodes,        \* node ids of the people who may belong to the group
    Owner,        \* Group.ownerNodeId, fixed when the group is created
    Docs,         \* document ids
    Root,         \* ROOT_DOC_ID
    CustomRoles   \* ids of roles the owner may add beside the built-in ones

ASSUME OwnerAssumption == Owner \in Nodes
ASSUME RootAssumption == Root \in Docs
ASSUME RoleAssumption == CustomRoles \cap {"admin", "collaborator", "reader"} = {}

BuiltinRoles == {"admin", "collaborator", "reader"}
Roles == BuiltinRoles \cup CustomRoles

Levels == 0..3      \* invisible, readonly, writable, operable
NoRow == -1         \* the table has no row for this doc and role
AclLevels == Levels \cup {NoRow}

(* The template and the root document's rows that seedGroupRbac writes.    *)
SeedTemplate ==
    [r \in Roles |-> CASE r = "admin" -> 3
                       [] r = "collaborator" -> 2
                       [] r = "reader" -> 1
                       [] OTHER -> NoRow]

HasRows(acl, d) == \E r \in Roles : acl[d][r] # NoRow

(* The largest of the levels in S, 0 when none is positive.                *)
MaxLevel(S) ==
    CHOOSE l \in Levels : (l = 0 \/ l \in S) /\ \A m \in S : m <= l

(* resolveAccessLevel: the owner is operable everywhere, anyone else has   *)
(* the largest level any of their roles has on the doc.                    *)
AccessLevel(assign, acl, n, d) ==
    IF n = Owner THEN 3 ELSE MaxLevel({acl[d][r] : r \in assign[n]})

(* canEditDocRoleAcl                                                       *)
CanEditDocRoleAcl(n, callerLevel, targetLevel) ==
    \/ n = Owner
    \/ callerLevel >= 3 /\ targetLevel < 3

(* syncMemberAllDocs for every node of M. A document on which none of the  *)
(* member's roles has a row keeps whatever grant it had, and so does every *)
(* document of a member without roles.                                     *)
SyncMemberAllDocs(assign, acl, live, grants, M) ==
    [d \in Docs |-> [n \in Nodes |->
        IF n \in M /\ n = Owner /\ d \in live
          THEN 3
        ELSE IF n \in M \ {Owner} /\ \E r \in assign[n] : acl[d][r] # NoRow
          THEN MaxLevel({acl[d][r] : r \in assign[n]})
          ELSE grants[d][n]]]

(* syncAllMembersForDocRole: every holder of role r gets the level of that *)
(* one role.                                                               *)
SyncAllMembersForDocRole(assign, grants, d, r, level) ==
    [grants EXCEPT ![d] =
        [n \in Nodes |-> IF r \in assign[n] THEN level ELSE @[n]]]

(* applyCreateChildTemplate on every live document that has no rows, as    *)
(* ensureGroupRbac calls it.                                               *)
BackfillAcl(acl, live, template) ==
    [d \in Docs |-> IF d \in live /\ ~HasRows(acl, d) THEN template ELSE acl[d]]

(* ensureGroupRbac: members without any role get the default one.          *)
BackfillRoles(members, assign, defaultRole) ==
    [n \in Nodes |-> IF n \in members \ {Owner} /\ assign[n] = {}
                       THEN {defaultRole} ELSE assign[n]]

=============================================================================
