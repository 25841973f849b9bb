------------------------------ MODULE MCQueue ------------------------------
(***************************************************************************)
(* Instances of Queue for TLC.                                             *)
(***************************************************************************)
EXTENDS Queue

CONSTANTS t1, t2, i1, i2, r1

Load(t, i, f, c) == [tasks |-> t, instances |-> i, faults |-> f, creates |-> c]

\* Two tasks in order, with faults; an instance that is deleted and created again,
\* with faults; and two instances that compete for a task.
Run ==
    {Load({t1, t2}, {i1}, {"persist", "crash"}, 1),
     Load({t1}, {i1}, {"persist", "crash", "reply", "exit"}, 2),
     Load({t1}, {i1, i2}, {}, 2)}
=============================================================================
