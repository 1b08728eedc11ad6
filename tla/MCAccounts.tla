----------------------------- MODULE MCAccounts -----------------------------
(***************************************************************************)
(* Instances of Accounts for TLC.                                          *)
(***************************************************************************)
EXTENDS Accounts, TLC

CONSTANTS w1, w2, w3, r1, r2, c1, c2

\* Workers, initial passwords and chosen ones are interchangeable.
MCSymmetry == Permutations(Workers) \cup Permutations(Random) \cup Permutations(Chosen)
=============================================================================
