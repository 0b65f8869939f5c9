------------------------------ MODULE MCGroups ------------------------------
(* Values for the constants of GroupsProperties that a cfg cannot write.   *)
EXTENDS GroupsProperties, TLC

CONSTANTS ann, auditor

(* ann accepted an invitation and was made an administrator.               *)
AnnAdmin == [n \in Nodes |-> IF n \in {Owner, ann} THEN {"admin"} ELSE {}]
OwnerOnly == [n \in Nodes |-> IF n = Owner THEN {"admin"} ELSE {}]

Edits == {<<"reader", 0>>, <<"reader", 3>>, <<"admin", 0>>, <<auditor, 2>>}
RoleEdits == {{}, {"reader"}, {"reader", auditor}}
SeedOnly == {SeedTemplate}

Symmetry == Permutations(Requests)
=============================================================================
