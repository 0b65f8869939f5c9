--------------------------- MODULE MCMeshContext ---------------------------
(* Three calls of the effect: a group, the same again (a retry), another.  *)
EXTENDS MeshContext

SameThenOther == <<"g", "g", "h">>
==============================================================================
