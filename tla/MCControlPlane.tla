--------------------------- MODULE MCControlPlane ---------------------------
(***************************************************************************)
(* Instances of ControlPlane for TLC.                                      *)
(***************************************************************************)
EXTENDS ControlPlane, TLC

CONSTANTS a1, n1, n2, p1, none

\* The nodes of a cluster without operator decisions are interchangeable.
MCNodeSymmetry == Permutations(Nodes)

MCApprovals == {p1}

\* What an operator of a one-node cluster may decide.
MCDecisions == [kind : {"cordoned", "uncordoned"}, target : {n1}]
               \cup [kind : {"granted", "revoked"}, target : {p1}]

MCCordon == [kind : {"cordoned"}, target : {n1}]
=============================================================================
