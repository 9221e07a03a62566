------------------------------- MODULE MCSlik --------------------------------
(***************************************************************************)
(* Instances of SlikManager for TLC.                                       *)
(***************************************************************************)
EXTENDS SlikManager, TLC

InstanceSymmetry == Permutations(Instances)
=============================================================================
