--------------------------- MODULE SequenceFilter ---------------------------
(***************************************************************************)
(* What JavaScript's filter leaves of an array: some of the elements, in   *)
(* their order.  The elements are named by their places, so that a proof   *)
(* can say which of them stay; SelectSeq has no definition to reason from. *)
(***************************************************************************)
EXTENDS Integers, Sequences, FiniteSets

\* The k-th of a set of places.
Rank(places, i) == Cardinality({j \in places : j <= i})
Nth(places, k) == CHOOSE i \in places : Rank(places, i) = k

\* The elements of q at the places.
Picked(q, places) == [k \in 1..Cardinality(places) |-> q[Nth(places, k)]]
=============================================================================
