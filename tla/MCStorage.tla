----------------------------- MODULE MCStorage -----------------------------
(***************************************************************************)
(* Instances of Storage for TLC: two clusters, the first spelled in two     *)
(* ways.                                                                   *)
(***************************************************************************)
EXTENDS Storage

MCSpellings == {"a", "A/", "b"}
MCNormalize == [s \in MCSpellings |-> IF s = "b" THEN "b" ELSE "a"]
=============================================================================
