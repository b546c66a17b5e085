---------------------------- MODULE MCStateStore ----------------------------
(***************************************************************************)
(* Instances of StateStore for TLC.  Writers of one kind are alike.        *)
(***************************************************************************)
EXTENDS StateStore, TLC

Symmetry == Permutations(Updaters) \cup Permutations(Savers)
=============================================================================
