----------------------------- MODULE MCFrontDoor -----------------------------
(* TLC instance of FrontDoor: requests, slugs and invitations can be permuted. *)
EXTENDS FrontDoor

Symmetry == Permutations(Requests) \cup Permutations(Slugs) \cup Permutations(Invitations)
=============================================================================
