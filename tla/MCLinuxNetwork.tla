--------------------------- MODULE MCLinuxNetwork ---------------------------
(***************************************************************************)
(* Instances of LinuxNetwork for TLC.                                      *)
(***************************************************************************)
EXTENDS LinuxNetwork, TLC

Symmetry == Permutations(Starts) \cup Permutations(Names)
=============================================================================
