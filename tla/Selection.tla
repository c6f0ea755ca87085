------------------------------- MODULE Selection -------------------------------
(***************************************************************************)
(* What a query or a filter leaves of a table in some order: the rows at   *)
(* the wanted positions, in the same order.  SelectAt(s, P) is SelectSeq,  *)
(* for a test that holds at the positions P of s; it is defined without    *)
(* recursion, by counting, so that it can be reasoned about.               *)
(***************************************************************************)
EXTENDS Naturals, Sequences, FiniteSets

\* How many positions of P are not beyond i.
PlaceOf(P, i) == Cardinality({j \in P : j <= i})

\* The k-th position of P.
NthOf(P, k) == CHOOSE i \in P : PlaceOf(P, i) = k

SelectAt(s, P) == [k \in 1..Cardinality(P) |-> s[NthOf(P, k)]]
=============================================================================
