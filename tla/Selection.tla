----------------------------- MODULE Selection -----------------------------
(***************************************************************************)
(* What is left of a list when some of its elements are taken out, as a    *)
(* definition that theorems can be proved about: SelectSeq of Sequences    *)
(* is recursive.                                                           *)
(***************************************************************************)
EXTENDS Integers, FiniteSets, Sequences

\* The numbers of places, in their order.
Ascending(places) ==
  CHOOSE p \in [1..Cardinality(places) -> places] :
    \A i, j \in DOMAIN p : i < j => p[i] < p[j]

\* The elements of s at those places.
SelectAt(s, places) == [i \in 1..Cardinality(places) |-> s[Ascending(places)[i]]]
=============================================================================
