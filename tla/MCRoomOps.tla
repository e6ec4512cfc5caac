------------------------------ MODULE MCRoomOps ------------------------------
(* TLC instances of RoomOps: uids, names and op_ids can be permuted.  Items *)
(* cannot where ops write several of them: their order is a choice.         *)
EXTENDS RoomOps, TLC

ListSymmetry == Permutations(Lists) \cup Permutations(Names) \cup Permutations(OpIds)
Symmetry == ListSymmetry \cup Permutations(Items)
=============================================================================
