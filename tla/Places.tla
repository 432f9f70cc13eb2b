------------------------------- MODULE Places -------------------------------
(***************************************************************************)
(* Choosing from a sequence by the places that stay, in a form that can be *)
(* reasoned about: SelectSeq and SetToSortSeq are recursive or search      *)
(* through permutations.                                                   *)
(***************************************************************************)
EXTENDS Integers, FiniteSets

\* The members of a finite set of numbers, from the least to the largest.
Ordered(S) == [k \in 1 .. Cardinality(S) |-> CHOOSE x \in S : Cardinality({ y \in S : y < x }) = k - 1]

\* What stands in q at the places of S, in the order of q.
Taken(q, S) == LET at == Ordered(S) IN [k \in DOMAIN at |-> q[at[k]]]
=============================================================================
