----------------------------- MODULE Enumeration -----------------------------
(***************************************************************************)
(* A finite set of whole numbers in ascending order, for the components    *)
(* that sort keys or keep some entries of a list.                          *)
(***************************************************************************)
EXTENDS Integers, FiniteSets

\* How many numbers of S come before k.
Rank(S, k) == Cardinality({j \in S : j < k})

Ascending(S) == [n \in 1..Cardinality(S) |-> CHOOSE k \in S : Rank(S, k) = n - 1]

\* The entries of s at the places P, in their order.
Picked(s, P) == [n \in 1..Cardinality(P) |-> s[Ascending(P)[n]]]
=============================================================================
