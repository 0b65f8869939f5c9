---------------------------- MODULE MCPersistence ----------------------------
(* Two browsers, named so that each configuration can say which of them may  *)
(* write, and a few edits.                                                   *)
EXTENDS DocPersistence, TLC

CONSTANTS e1, e2, x1, x2, k1, k2

(* Browsers with equal rights, edits and calls are interchangeable; used     *)
(* only where no liveness property is checked.                               *)
Alike == Permutations(Edits) \cup Permutations(Calls)
==============================================================================
