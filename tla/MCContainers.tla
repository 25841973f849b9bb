---------------------------- MODULE MCContainers ----------------------------
(***************************************************************************)
(* Instances of Containers for TLC.                                        *)
(***************************************************************************)
EXTENDS Containers

CONSTANTS a1, a2, i1, i2, key, cert, v1, v2, p1, p2

\* Mount paths whose last elements differ.
Apart == [s \in Secrets |-> IF s = key THEN p1 ELSE p2]

\* A goal, and the next one: a new image and a rotated secret.
Submitted == <<[image |-> i1, version |-> v1], [image |-> i2, version |-> v2]>>
=============================================================================
