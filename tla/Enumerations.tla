---------------------------- MODULE Enumerations ----------------------------
(***************************************************************************)
(* What a loop over a sorted slice sees: the numbers of a set, such as the  *)
(* positions of a list that are kept or the bounds of a histogram, in       *)
(* their order and each once.                                              *)
(***************************************************************************)
EXTENDS Naturals, FiniteSets

\* The one ascending sequence of the members of S.
InOrder(S) ==
  CHOOSE f \in [1..Cardinality(S) -> S] : \A i, j \in 1..Cardinality(S) : i < j => f[i] < f[j]
=============================================================================
