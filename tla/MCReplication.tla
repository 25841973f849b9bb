--------------------------- MODULE MCReplication ---------------------------
(***************************************************************************)
(* Instances of Replication for TLC.                                       *)
(***************************************************************************)
EXTENDS Replication

CONSTANTS s1, s2, p1, p2

Practice(homes, anchored, fenced, whole, uses) ==
    [homes |-> homes, anchored |-> anchored, fenced |-> fenced, whole |-> whole,
     uses |-> uses]

\* One server at a time, on either machine, the other one its standby.
Failover == Practice({s1, s2}, TRUE, TRUE, FALSE, {"standby", "promote"})

\* The same with standbys that are sent everything.
Resent == Practice({s1, s2}, TRUE, TRUE, TRUE, {"standby", "promote"})

\* Servers started on one machine while another one runs there.
Crowded == Practice({s1}, TRUE, FALSE, FALSE, {"standby"})

\* Backups and restores, with storage that loses events.
Decaying == Practice({s1}, TRUE, TRUE, FALSE, {"backup", "crash", "restore", "rot"})

\* Backups while nothing is recorded, and restores without an anchor.
Quiet == Practice({s1}, FALSE, TRUE, FALSE, {"backup", "crash", "restore", "quiet"})

Run == {Failover, Resent, Crowded, Decaying, Quiet}

ASSUME RunAssumption == Exclusive /\ Calm
=============================================================================
