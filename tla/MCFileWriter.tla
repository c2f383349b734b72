---------------------------- MODULE MCFileWriter ----------------------------
(***************************************************************************)
(* Small instances of FileWriter for TLC.  The producers are               *)
(* interchangeable, so they may be a symmetry set in runs that check no    *)
(* liveness property.                                                      *)
(***************************************************************************)
EXTENDS FileWriter, TLC

ProducerSymmetry == Permutations(Producers)
=============================================================================
