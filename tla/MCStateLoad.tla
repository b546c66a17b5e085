---------------------------- MODULE MCStateLoad -----------------------------
(***************************************************************************)
(* Instances of StateLoad for TLC: invocations differ only in their        *)
(* identity, and what an ended one remembers is not part of the state.     *)
(***************************************************************************)
EXTENDS StateLoad, TLC

Symmetry == Permutations(Invocations)

View ==
  <<file, pc, [p \in Procs |-> IF Alive(p) THEN <<name[p], disk[p], index[p], snap[p]>> ELSE <<>>],
    overwritten, misread>>
=============================================================================
