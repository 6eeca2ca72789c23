------------------------------ MODULE Ascending ------------------------------
(***************************************************************************)
(* Finite sets of integers in ascending order, and the elements that a     *)
(* sequence has at given positions.  Unlike SetToSortSeq and SelectSeq     *)
(* these are defined without recursion, so that they can be reasoned about.*)
(***************************************************************************)
EXTENDS Integers, FiniteSets

\* How many elements of K are no greater than k.
Rank(K, k) == Cardinality({ j \in K : j <= k })

\* The elements of K, the least one first.
Ascending(K) == [ n \in 1 .. Cardinality(K) |-> CHOOSE k \in K : Rank(K, k) = n ]

\* The elements of the sequence s at the positions K, in their order.
Selected(s, K) == [ n \in 1 .. Cardinality(K) |-> s[Ascending(K)[n]] ]
=============================================================================
