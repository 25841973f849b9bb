------------------------------- MODULE World -------------------------------
(***************************************************************************)
(* The control plane's picture of the cluster (control/types.go World) and *)
(* the three functions the control plane is built on: the projection of    *)
(* evidence into the world (control/projection.go), the kernel's           *)
(* validation of an action (control/policy.go) and the simulation of its   *)
(* intended effect (control/executor.go).                                  *)
(*                                                                         *)
(* One stateless workload is kept: its allocations have no volume, secret, *)
(* port or agent runtime, its image is on every node and every node has    *)
(* room.  The operators below therefore keep the parts of the code that    *)
(* decide about phases, placement, readiness, health, cordons and          *)
(* approvals.                                                              *)
(***************************************************************************)
EXTENDS Naturals, Sequences, FiniteSets

CONSTANTS
    Allocations,   \* the allocation ids of the goal's replicas
    Nodes,         \* the node inventory of the base world
    Approvals,     \* approval ids an operator may grant
    NoNode         \* the node of an allocation that does not exist

ASSUME WorldAssumption == IsFiniteSet(Allocations) /\ NoNode \notin Nodes

-----------------------------------------------------------------------------
Phases == {"absent", "created", "running", "stopped"}

ApprovalStates == {"none", "granted", "revoked"}

Worlds == [revision : Nat,
           phase    : [Allocations -> Phases],
           node     : [Allocations -> Nodes \cup {NoNode}],
           ready    : SUBSET Allocations,
           healthy  : SUBSET Nodes,
           cordoned : SUBSET Nodes,
           approval : [Approvals -> ApprovalStates]]

\* The world a server starts from before any evidence is replayed.
BaseWorld == [revision |-> 0,
              phase    |-> [a \in Allocations |-> "absent"],
              node     |-> [a \in Allocations |-> NoNode],
              ready    |-> {},
              healthy  |-> Nodes,
              cordoned |-> {},
              approval |-> [p \in Approvals |-> "none"]]

-----------------------------------------------------------------------------
(* Evidence.  What a node or a prober reports about an allocation, and what *)
(* the server itself records about a node or an approval.                   *)

WorkKinds == {"created", "running", "stopped", "deleted", "ready", "unready"}

NodeKinds == {"cordoned", "uncordoned", "reachable", "unreachable"}

WorkEvidence == [kind : WorkKinds, target : Allocations, node : Nodes]

NodeEvidence == [kind : NodeKinds, target : Nodes]

ApprovalEvidence == [kind : {"granted", "revoked"}, target : Approvals]

Observations == NodeEvidence \cup ApprovalEvidence

Evidence == WorkEvidence \cup Observations

\* projectInto rejects evidence about an allocation the world does not hold,
\* and readiness of one that does not run.  Creation and deletion are
\* accepted whatever the world holds.
Projects(w, e) ==
    /\ e.kind \in {"running", "stopped"} => w.phase[e.target] # "absent"
    /\ e.kind \in {"ready", "unready"} => w.phase[e.target] = "running"

\* A re-projected creation leaves the allocation as it is.
ProjectCreated(w, e) ==
    IF w.phase[e.target] # "absent" THEN w
    ELSE [w EXCEPT !.phase[e.target] = "created", !.node[e.target] = e.node]

\* What evidence about an allocation changes.
ProjectWork(w, e) ==
    CASE e.kind = "created" -> ProjectCreated(w, e)
      [] e.kind = "running" -> [w EXCEPT !.phase[e.target] = "running"]
      [] e.kind = "stopped" -> [w EXCEPT !.phase[e.target] = "stopped",
                                         !.ready = @ \ {e.target}]
      [] e.kind = "deleted" -> [w EXCEPT !.phase[e.target] = "absent",
                                         !.node[e.target] = NoNode,
                                         !.ready = @ \ {e.target}]
      [] e.kind = "ready"   -> [w EXCEPT !.ready = @ \cup {e.target}]
      [] e.kind = "unready" -> [w EXCEPT !.ready = @ \ {e.target}]

\* Mutant: silence of a node is taken for the loss of what it runs.
RelocateOnSilence(w, e) ==
    IF e.kind = "unreachable"
      THEN [w EXCEPT !.healthy = @ \ {e.target},
                     !.phase = [a \in Allocations |->
                         IF w.node[a] = e.target THEN "absent" ELSE @[a]]]
      ELSE w

\* What an operator's cordon or an observation of a node's reachability changes.
ProjectNode(w, e) ==
    CASE e.kind = "cordoned"    -> [w EXCEPT !.cordoned = @ \cup {e.target}]
      [] e.kind = "uncordoned"  -> [w EXCEPT !.cordoned = @ \ {e.target}]
      [] e.kind = "reachable"   -> [w EXCEPT !.healthy = @ \cup {e.target}]
      [] e.kind = "unreachable" -> [w EXCEPT !.healthy = @ \ {e.target}]

\* Revoking an approval that was never granted changes nothing.
ProjectApproval(w, e) ==
    CASE e.kind = "granted" -> [w EXCEPT !.approval[e.target] = "granted"]
      [] e.kind = "revoked" -> [w EXCEPT !.approval[e.target] =
                                    IF @ = "none" THEN "none" ELSE "revoked"]

ProjectObservation(w, e) ==
    IF e.kind \in NodeKinds THEN ProjectNode(w, e) ELSE ProjectApproval(w, e)

\* Every projection advances the revision, a repeated one included.
Project(w, e) ==
    LET next == IF e.kind \in WorkKinds THEN ProjectWork(w, e)
                                        ELSE ProjectObservation(w, e)
    IN  [next EXCEPT !.revision = w.revision + 1]

-----------------------------------------------------------------------------
(* Actions, what the kernel checks of one, and the effect it assumes of it. *)

WorkActions == [kind : {"create", "start", "stop", "delete"},
                target : Allocations, node : Nodes \cup {NoNode}]

Actions == WorkActions
           \cup [kind : {"cordon"}, target : Nodes, node : {NoNode}]

\* The evidence a node returns for an action it has performed.
EvidenceOf(act) ==
    [kind   |-> CASE act.kind = "create" -> "created"
                  [] act.kind = "start"  -> "running"
                  [] act.kind = "stop"   -> "stopped"
                  [] act.kind = "delete" -> "deleted",
     target |-> act.target,
     node   |-> act.node]

Replicas == Cardinality(Allocations)

\* A workload of one replica may lose it; a larger one keeps all but one.
DisruptionFloor == IF Replicas <= 1 THEN 0 ELSE Replicas - 1

\* An unused name, on a node that is healthy and takes new work.
ValidateCreate(w, act) ==
    /\ w.phase[act.target] = "absent"
    /\ act.node \in w.healthy
    /\ act.node \notin w.cordoned

ValidateAction(w, act) ==
    CASE act.kind = "create" -> ValidateCreate(w, act)
      [] act.kind = "start"  -> w.phase[act.target] = "created"
      [] act.kind = "stop"   -> /\ w.phase[act.target] = "running"
                                /\ act.target \in w.ready =>
                                       Cardinality(w.ready) - 1 >= DisruptionFloor
      [] act.kind = "delete" -> w.phase[act.target] \in {"created", "stopped"}
      [] act.kind = "cordon" -> TRUE

\* Simulation is optimistic: a started allocation is taken to be ready.
SimulateAction(w, act) ==
    CASE act.kind = "create" -> [w EXCEPT !.phase[act.target] = "created",
                                          !.node[act.target] = act.node]
      [] act.kind = "start"  -> [w EXCEPT !.phase[act.target] = "running",
                                          !.ready = @ \cup {act.target}]
      [] act.kind = "stop"   -> [w EXCEPT !.phase[act.target] = "stopped",
                                          !.ready = @ \ {act.target}]
      [] act.kind = "delete" -> [w EXCEPT !.phase[act.target] = "absent",
                                          !.node[act.target] = NoNode,
                                          !.ready = @ \ {act.target}]
      [] act.kind = "cordon" -> [w EXCEPT !.cordoned = @ \cup {act.target}]

\* The worlds the actions of a plan are assumed to leave.
Simulation(w, plan) ==
    LET sim[i \in 0 .. Len(plan)] ==
            IF i = 0 THEN w ELSE SimulateAction(sim[i - 1], plan[i])
    IN  sim

\* Authorize validates each action of the plan against the world the earlier
\* ones are assumed to leave; action ids (kind and target) are unique.
Authorized(w, plan) ==
    /\ LET sim == Simulation(w, plan)
       IN  \A i \in 1 .. Len(plan) : ValidateAction(sim[i - 1], plan[i])
    /\ \A i, j \in 1 .. Len(plan) :
           /\ plan[i].kind = plan[j].kind
           /\ plan[i].target = plan[j].target
           => i = j

\* What observedWorld shows of w: readiness expires, and any of it may have.
Observed(w) == {[w EXCEPT !.ready = r] : r \in SUBSET w.ready}

\* goalAchieved for a goal without a route.
GoalAchieved(w) == Cardinality(w.ready) = Replicas
=============================================================================
