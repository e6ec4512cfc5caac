--------------------------- MODULE MCOfflineQueue ---------------------------
(* TLC instance of OfflineQueue: op_ids, names and tabs can be permuted. *)
EXTENDS OfflineQueue, TLC

Symmetry == Permutations(OpIds) \cup Permutations(Names) \cup Permutations(Tabs)
=============================================================================
