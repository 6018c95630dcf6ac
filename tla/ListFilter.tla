----------------------------- MODULE ListFilter -----------------------------
(***************************************************************************)
(* Array.filter as a function of the indices that stay: what SelectSeq     *)
(* does, with a definition that can be reasoned about.                     *)
(***************************************************************************)
EXTENDS Naturals, FiniteSets, Sequences

\* The k-th of the indices K.
Nth(K, k) == CHOOSE i \in K : Cardinality({j \in K : j <= i}) = k

\* The elements of s at the indices K, in their order.
Filtered(s, K) == [k \in 1..Cardinality(K) |-> s[Nth(K, k)]]
=============================================================================
