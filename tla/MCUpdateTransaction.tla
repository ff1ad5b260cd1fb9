------------------------ MODULE MCUpdateTransaction ------------------------
(***************************************************************************)
(* Instances of UpdateTransaction for TLC.  Releases are interchangeable   *)
(* as far as the safety properties go.                                     *)
(***************************************************************************)
EXTENDS UpdateTransaction, TLC

Symmetry == Permutations(Releases)
=============================================================================
