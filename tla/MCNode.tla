------------------------------- MODULE MCNode -------------------------------
(***************************************************************************)
(* Instances of Node for TLC.                                              *)
(***************************************************************************)
EXTENDS Node

CONSTANTS a1, a2

\* A workload that lost its task with the host runs again (Supervisor.Reconcile).
\* The allocations of one node are interchangeable, and what holds of one holds of each.
RebootRecovers == Recovers(a1)
=============================================================================
