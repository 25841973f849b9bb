----------------------------- MODULE MCVolumes -----------------------------
(***************************************************************************)
(* Instances of Volumes for TLC.                                           *)
(***************************************************************************)
EXTENDS Volumes, TLC

CONSTANTS n1, n2, a1, a2, s1, s2

\* An ordinary workload whose volume may be moved, and a database whose volume
\* may be restored.
Declared ==
    {[engine |-> FALSE, approved |-> {"move-volume"}],
     [engine |-> TRUE, approved |-> {"restore-volume"}]}

Symmetry == Permutations(Nodes) \cup Permutations(Allocs) \cup Permutations(Snaps)
=============================================================================
