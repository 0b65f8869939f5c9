------------------------------- MODULE MCSync -------------------------------
(* Two browsers: a writes every document, b writes the root and reads the    *)
(* other.                                                                    *)
EXTENDS DocSync

CONSTANTS a, b, root, d, x1, x2

Roles == [n \in Nodes |-> [e \in Docs |-> IF n = b /\ e = d THEN 1 ELSE 2]]

(* Both pages have just been opened, or one or both show the document. *)
AtRoot == [n \in Nodes |-> root]
WriterAtDoc == [n \in Nodes |-> IF n = a THEN d ELSE root]
ReaderAtDoc == [n \in Nodes |-> IF n = b THEN d ELSE root]
AtDoc == [n \in Nodes |-> d]
=============================================================================
