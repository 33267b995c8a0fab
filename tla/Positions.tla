------------------------------ MODULE Positions ------------------------------
(***************************************************************************)
(* Part of a list in its order: how a replay picks the events it sends,    *)
(* and what is left of a list some elements are removed from.              *)
(***************************************************************************)
EXTENDS Naturals, Sequences, FiniteSets

(* s is a list.                                                            *)
IsList(s) == s \in Seq({s[i] : i \in DOMAIN s})

(* How many of the numbers K are not greater than i, and the n-th of them. *)
OrderIn(K, i) == Cardinality({j \in K : j <= i})
Nth(K, n) == CHOOSE i \in K : OrderIn(K, i) = n

(* The elements of s at the positions K.                                   *)
Picked(s, K) == [n \in 1..Cardinality(K) |-> s[Nth(K, n)]]
=============================================================================
