----------------------------- MODULE MCTraffic -----------------------------
(***************************************************************************)
(* Instances of Traffic for TLC.                                           *)
(***************************************************************************)
EXTENDS Traffic, TLC

CONSTANTS a, b, v1, v2

Ladder == <<25, 50, 100>>

Case(n, w, r, po, pu, sl, f, mf, mc) ==
    [nodes |-> n, workloads |-> w, replicas |-> r, policies |-> po, public |-> pu,
     slack |-> sl, faults |-> f, mostFaults |-> mf, mostChanges |-> mc]

\* A version that is replaced by another while a process ends; two workloads with
\* rules on the same nodes, one with a public route; and replicas that move, or
\* whose nodes leave while a round takes its time.
Run ==
    {Case({1}, {a}, 3, {}, {}, 0, {"die"}, 1, 1),
     Case({1, 2}, {a, b}, 1, {a, b}, {b}, 0, {"refuse", "unheard", "restart"}, 1, 0),
     Case({1, 2}, {a}, 2, {a}, {}, 0, {"disconnect"}, 1, 1),
     Case({1, 2}, {a}, 2, {a}, {}, 1, {"die", "disconnect"}, 1, 0)}
=============================================================================
