-------------------------------- MODULE MCGnss --------------------------------
(***************************************************************************)
(* Small instances of Gnss for TLC.  The callers are interchangeable.      *)
(***************************************************************************)
EXTENDS Gnss, TLC

CallerSymmetry == Permutations(Callers)
=============================================================================
