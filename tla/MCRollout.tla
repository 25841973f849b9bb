----------------------------- MODULE MCRollout -----------------------------
(***************************************************************************)
(* Instances of Rollout for TLC.                                           *)
(***************************************************************************)
EXTENDS Rollout, TLC

CONSTANTS v1, v2

\* Every node is a failure domain of its own.
OwnDomain == [n \in Nodes |-> n]

Case(r, b, e, d, f, md, mf) ==
    [replicas |-> r, broken |-> b, executor |-> e, decide |-> d, faults |-> f,
     mostDecisions |-> md, mostFaults |-> mf]

\* One replica, whose next version does not work; two replicas on nodes that are
\* taken out of service or leave; two replicas whose next version does not work;
\* one replica whose image changes more often than the budget allows; and the
\* executor of the server.
Run ==
    {Case(1, {v2}, "routed", {"submit", "rollback"}, {"die", "dispatch"}, 3, 1),
     Case(2, {}, "routed", {"cordon"}, {"die", "disconnect"}, 2, 1),
     Case(2, {v2}, "routed", {"submit", "rollback"}, {"dispatch"}, 2, 1),
     Case(1, {}, "routed", {"submit"}, {}, 4, 0),
     Case(2, {}, "registry", {"submit"}, {"die", "disconnect"}, 1, 2)}

\* Two replicas, a version that works, and nothing that fails.
Rolling == {Case(2, {}, "registry", {"submit"}, {}, 1, 0)}
=============================================================================
