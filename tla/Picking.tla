-------------------------------- MODULE Picking --------------------------------
(***************************************************************************)
(* Array.prototype.filter: what stands at some positions of a list, in     *)
(* their order.  The n-th of a set of numbers is the one that n - 1 of     *)
(* them are less than, so nothing is computed element by element.          *)
(***************************************************************************)
EXTENDS Naturals, Sequences, FiniteSets

Nth(S, n) == CHOOSE i \in S : Cardinality({h \in S : h < i}) = n - 1

\* The list of what s has at the positions S.
Picked(s, S) == [n \in 1..Cardinality(S) |-> s[Nth(S, n)]]
=============================================================================
