----------------------------- MODULE MCExecutive -----------------------------
(* Instances of Executive for TLC. *)
EXTENDS Executive, TLC
=============================================================================
