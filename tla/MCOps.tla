------------------------------- MODULE MCOps -------------------------------
(* Instances of Ops for TLC. *)
EXTENDS Ops, TLC
=============================================================================
