------------------------------ MODULE MCPages ------------------------------
(* The owner and a member who administers the group.                         *)
EXTENDS GroupPages

CONSTANTS ann, bob, root, d1, d2, d3, c1

Edits == {<<"admin", 1>>, <<"reader", 3>>}
Held == [n \in Nodes |-> {"admin"}]
=============================================================================
