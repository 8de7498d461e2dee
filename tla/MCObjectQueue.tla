--------------------------- MODULE MCObjectQueue ---------------------------
EXTENDS ObjectQueue, TLC

(* Nodes are interchangeable: every property treats them alike. *)
Nodes == Permutations(Node)
=============================================================================
