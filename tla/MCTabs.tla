------------------------------- MODULE MCTabs -------------------------------
(***************************************************************************)
(* Instances of Tabs for TLC.                                              *)
(***************************************************************************)
EXTENDS Tabs, TLC

CONSTANTS w1, w2, t1, t2, t3, t4

\* Workers and tab ids are interchangeable (safety runs only).
MCSymmetry == Permutations(Workers) \cup Permutations(TabIds)
=============================================================================
