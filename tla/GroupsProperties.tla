-------------------------- MODULE GroupsProperties --------------------------
(***************************************************************************)
(* What the control plane's handlers keep true of a group's tables while   *)
(* they interleave and fail between their database calls, and what the     *)
(* repository says of them that their interleavings break.                 *)
(***************************************************************************)
EXTENDS Groups

(* The tables hold rows of their columns' types, and a handler in progress *)
(* remembers values of the types it read: no level is ever stored as a     *)
(* missing row, no version is beyond the last rotation.                    *)
TypeOK ==
    /\ alive \in BOOLEAN
    /\ members \subseteq Nodes
    /\ roles \subseteq Roles /\ pastRoles \subseteq Roles
    /\ assign \in [Nodes -> SUBSET Roles]
    /\ acl \in [Docs -> [Roles -> AclLevels]]
    /\ grants \in [Docs -> [Nodes -> Levels]]
    /\ defaultRole \in Roles
    /\ template \in [Roles -> AclLevels]
    /\ live \subseteq Docs /\ created \subseteq Docs
    /\ parent \in [Docs -> Docs]
    /\ ver \in [Docs -> 0..MaxKeyVersion]
    /\ keys \in [Docs -> SUBSET (1..MaxKeyVersion)]
    /\ invites \in [Invites -> [state: InviteStates, to: Nodes]]
    /\ tokens \subseteq Token
    /\ req \in [Requests -> Request]
    /\ issued \in Nat

(* Once a document has any key row, it has the row of its current version, *)
(* so refreshJwt can serve it: concurrent rotations, a rotation before     *)
(* CreateChild has stored the first key, and deletions never separate      *)
(* DocNode.keyVersion from DocumentKey.                                    *)
CurrentKeyStored ==
    \A d \in live : keys[d] # {} => ver[d] \in keys[d]

(* While a document lives its key version moves by one at a time and never *)
(* back, although rotateDocKey computes the next version from a read made  *)
(* outside the transaction that stores it.                                 *)
RotationByOne ==
    [][\A d \in live \cap live' : ver'[d] \in {ver[d], ver[d] + 1}]_vars

(* A key row, once stored for a version of a living document, stays: what  *)
(* was encrypted under an older version can still be served.               *)
KeysAreKept ==
    [][\A d \in live \cap live' : keys[d] \subseteq keys'[d]]_vars

(* An invitation is marked accepted only for someone who is a member: the  *)
(* handler that stops half-way never leaves "accepted" without membership. *)
AcceptedIsMember ==
    \A i \in Invites : invites[i].state = "accepted" => invites[i].to \in members

(* Deleting a role leaves no assignment and no document row naming it, not *)
(* even when a SetDocRoleAcl for the role is under way.                    *)
RowsNameRoles ==
    /\ \A n \in Nodes : assign[n] \subseteq roles
    /\ \A d \in Docs, r \in Roles \ roles : acl[d][r] = NoRow

(* Tokens, and with them document keys, go to members only, although the   *)
(* owner can give roles, and with them levels and derived grants, to       *)
(* someone who has not joined.                                             *)
TokensToMembers == alive => \A t \in tokens : t.node \in members

-----------------------------------------------------------------------------
(* Statements of the repository that some interleaving breaks              *)

(* DeleteDoc refuses a folder that is not empty, so the parent of every    *)
(* document is there.                                                      *)
ParentsExist == \A d \in live \ {Root} : parent[d] \in live

(* "Operable (level 3) callers may only change ACL for roles currently     *)
(* below operable on this doc."                                            *)
OperableRolesProtected ==
    [][\A q \in Requests :
          SetDocRoleAclWrite(q) /\ acl' # acl /\ req[q].caller # Owner
            => acl[req[q].doc][req[q].role] < 3]_vars

(* "Copy parent doc role ACL rows onto a newly created child doc."         *)
ChildGetsParentAcl ==
    [][\A q \in Requests : CreateChildInherit(q) /\ alive
          => acl'[req[q].doc] = acl[req[q].par]]_vars

(* The key of a document goes only to someone whose level there is at      *)
(* least 1.                                                                *)
KeysOnlyToReaders ==
    [][\A t \in tokens' \ tokens : Level(t.node, t.doc) >= 1]_vars

(* Only a pending invitation can be accepted or rejected.                  *)
InvitationDecidedOnce ==
    [][\A i \in Invites : alive' /\ invites[i].state \in {"accepted", "rejected"}
          => invites'[i] = invites[i]]_vars

(* "Recompute effective ACL grants from all roles held by the member."     *)
GrantsFollowRoles ==
    [][\A n \in Nodes, rs \in MemberRoleEdits : SetMemberRoles(n, rs)
          => \A d \in live :
                grants'[d][n] = AccessLevel(assign', acl', n, d)]_vars

(* Every document has its symmetric key, once nobody is creating it.       *)
EveryDocHasKey ==
    \A d \in live :
        \/ keys[d] # {}
        \/ \E q \in Requests : At(q, "createKey") /\ req[q].doc = d

=============================================================================
