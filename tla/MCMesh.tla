------------------------------- MODULE MCMesh -------------------------------
(* Two servers: both browsers are started with the first, and the lower one *)
(* also with the second, which the other learns of later.                   *)
EXTENDS GroupMesh

CONSTANTS lo, hi, u1, u2

AllKnown == [n \in Nodes |-> Urls]
OneLater == [n \in Nodes |-> IF n = Lo THEN Urls ELSE {u1}]
==============================================================================
