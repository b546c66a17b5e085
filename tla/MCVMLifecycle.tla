--------------------------- MODULE MCVMLifecycle ---------------------------
(***************************************************************************)
(* Instances of VMLifecycle for TLC.  Invocations of one command differ    *)
(* only in their identity, and so do disk names.                           *)
(***************************************************************************)
EXTENDS VMLifecycle, TLC

Symmetry ==
  Permutations(Starters) \cup Permutations(Resetters) \cup Permutations(DiskNames)

(* The memory of an ended invocation is not part of the state.             *)
View ==
  <<file, pc, [p \in Procs |-> IF StarterRunning(p) THEN snap[p] ELSE NewState],
    name, target, index, qemu, poll, pidRecorded, overwritten>>
=============================================================================
