--------------------------- MODULE MCVSocketFile ---------------------------
(***************************************************************************)
(* VSocketFile for TLC: invocations with the same options are alike.       *)
(***************************************************************************)
EXTENDS VSocketFile, TLC

Symmetry == Permutations(Inv)
=============================================================================
