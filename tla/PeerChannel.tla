----------------------------- MODULE PeerChannel -----------------------------
(***************************************************************************)
(* What a mesh promises about the connections of a pair of browsers, as    *)
(* DocSync and the providers rely on it.  Each end works on at most one    *)
(* connection at a time; its channel opens only while the other end works  *)
(* on the same one; and an end never takes up a connection again that it   *)
(* has left, so nothing sent on an earlier channel arrives on a later one. *)
(***************************************************************************)
CONSTANTS Nodes, Ids, NoId

VARIABLES
    end,    \* node -> the connection it works on, or NoId
    up,     \* node -> its channel is open
    left    \* node -> connections it has left since its page was loaded

Init ==
    /\ end = [n \in Nodes |-> NoId]
    /\ up = [n \in Nodes |-> FALSE]
    /\ left = [n \in Nodes |-> {}]

Turn(n, c) ==
    /\ end' = [end EXCEPT ![n] = c]
    /\ up' = [up EXCEPT ![n] = FALSE]
    /\ left' = [left EXCEPT ![n] = (@ \cup {end[n]}) \ {NoId}]

Take(n, c) == c \notin left[n] \cup {end[n]} /\ Turn(n, c)
Leave(n) == end[n] # NoId /\ Turn(n, NoId)

Open(n) ==
    /\ end[n] # NoId
    /\ \A o \in Nodes : end[o] = end[n]
    /\ up' = [up EXCEPT ![n] = TRUE]
    /\ UNCHANGED <<end, left>>

Reload(n) ==
    /\ end' = [end EXCEPT ![n] = NoId]
    /\ up' = [up EXCEPT ![n] = FALSE]
    /\ left' = [left EXCEPT ![n] = {}]

Next == \E n \in Nodes : Leave(n) \/ Open(n) \/ Reload(n) \/ \E c \in Ids : Take(n, c)

Spec == Init /\ [][Next]_<<end, up, left>>
==============================================================================
