------------------------------ MODULE Positions ------------------------------
(***************************************************************************)
(* Some of the elements of a sequence, in the order they stand in: what a   *)
(* loop that pushes those that pass a test leaves.                          *)
(***************************************************************************)
EXTENDS Integers, FiniteSets

\* The i-th of a set of numbers.
Nth(S, i) == CHOOSE k \in S : Cardinality({j \in S : j <= k}) = i

\* The elements of s at the positions in S.
Pick(s, S) == [i \in 1..Cardinality(S) |-> s[Nth(S, i)]]
=============================================================================
