----------------------------- MODULE MCSignaling -----------------------------
(* Two connections of one node, a browser and its reconnect or second tab,  *)
(* and one connection that may join under two ids.                          *)
EXTENDS SignalingRooms

CONSTANTS c1, c2, c3, a, b, d

Ids == [c \in Clients |-> IF c = c3 THEN {b, d} ELSE {a}]
==============================================================================
