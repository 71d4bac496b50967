-------------------------------- MODULE MCRegistry --------------------------------
(***************************************************************************)
(* Instances of Registry for TLC.                                          *)
(***************************************************************************)
EXTENDS Registry, TLC

Symmetry == Permutations(Enrols) \cup Permutations(Deletes) \cup Permutations(Codes)
================================================================================
