------------------------- MODULE ControlPlaneProofs -------------------------
(***************************************************************************)
(* Proofs about World and ControlPlane, for any allocations, nodes,        *)
(* approvals, operator decisions, faults, agents and bounds: what          *)
(* projecting a piece of evidence changes, the invariant that makes the    *)
(* world the replay of the log, and at most one container per allocation:  *)
(* what the kernel's checks say of a plan, and how the world, the plan in  *)
(* progress and the nodes' runtimes agree.                                 *)
(***************************************************************************)
EXTENDS ControlPlane, TLAPS

\* A set of natural numbers has a least one.  The library's theorem that establishes
\* it is brought in at the end of the module, where it is proved, and not before:
\* every step of a proof carries all that precedes it.
LeastMembers == \A S \in SUBSET Nat : S # {} => \E x \in S : \A y \in S : x <= y

-----------------------------------------------------------------------------
(* Projection.  Evidence about an allocation and an observation about a     *)
(* node or an approval touch different parts of the world, and so commute.  *)

\* The world before any evidence has the type of a world.
LEMMA BaseWorldType == BaseWorld \in Worlds
  BY Zenon DEF BaseWorld, Worlds, Phases, ApprovalStates

\* No piece of evidence is of both families: their kinds differ.
LEMMA KindsDisjoint ==
    /\ \A e \in WorkEvidence : e.kind \in WorkKinds
    /\ \A o \in Observations : o.kind \notin WorkKinds
  BY Zenon DEF WorkEvidence, Observations, NodeEvidence, ApprovalEvidence,
         WorkKinds, NodeKinds

\* An observation is projected whatever the world holds.
LEMMA ObservationProjects ==
    ASSUME NEW w, NEW o \in Observations
    PROVE  Projects(w, o)
  BY Zenon DEF Projects, Observations, NodeEvidence, ApprovalEvidence, NodeKinds

\* Evidence about an allocation leaves cordons, health and approvals alone.
LEMMA ProjectWorkFields ==
    ASSUME NEW w \in Worlds, NEW e \in WorkEvidence
    PROVE  /\ Project(w, e) \in Worlds
           /\ Project(w, e).revision = w.revision + 1
           /\ Project(w, e).cordoned = w.cordoned
           /\ Project(w, e).healthy = w.healthy
           /\ Project(w, e).approval = w.approval
<1>1. e.kind \in WorkKinds
  BY KindsDisjoint, Zenon
<1>2. ProjectWork(w, e) \in Worlds
      /\ ProjectWork(w, e).cordoned = w.cordoned
      /\ ProjectWork(w, e).healthy = w.healthy
      /\ ProjectWork(w, e).approval = w.approval
  BY <1>1, Zenon DEF ProjectWork, ProjectCreated, Worlds, WorkEvidence, WorkKinds, Phases
<1>3. Project(w, e) = [ProjectWork(w, e) EXCEPT !.revision = w.revision + 1]
  BY <1>1, Zenon DEF Project
<1> QED
  BY <1>2, <1>3 DEF Worlds

\* What it changes depends only on the allocations' part of the world.
LEMMA ProjectWorkLocal ==
    ASSUME NEW w \in Worlds, NEW v \in Worlds, NEW e \in WorkEvidence,
           w.phase = v.phase, w.node = v.node, w.ready = v.ready
    PROVE  /\ Project(w, e).phase = Project(v, e).phase
           /\ Project(w, e).node = Project(v, e).node
           /\ Project(w, e).ready = Project(v, e).ready
<1>1. e.kind \in WorkKinds
  BY KindsDisjoint, Zenon
<1>2. /\ ProjectWork(w, e).phase = ProjectWork(v, e).phase
      /\ ProjectWork(w, e).node = ProjectWork(v, e).node
      /\ ProjectWork(w, e).ready = ProjectWork(v, e).ready
      /\ ProjectWork(w, e) \in Worlds
      /\ ProjectWork(v, e) \in Worlds
  BY <1>1, ZenonT(30) DEF ProjectWork, ProjectCreated, Worlds, WorkEvidence, WorkKinds, Phases
<1>3. /\ Project(w, e) = [ProjectWork(w, e) EXCEPT !.revision = w.revision + 1]
      /\ Project(v, e) = [ProjectWork(v, e) EXCEPT !.revision = v.revision + 1]
  BY <1>1, Zenon DEF Project
<1> QED
  BY <1>2, <1>3, Zenon DEF Worlds

\* An observation leaves the allocations alone.
LEMMA ProjectObservationFields ==
    ASSUME NEW w \in Worlds, NEW o \in Observations
    PROVE  /\ Project(w, o) \in Worlds
           /\ Project(w, o).revision = w.revision + 1
           /\ Project(w, o).phase = w.phase
           /\ Project(w, o).node = w.node
           /\ Project(w, o).ready = w.ready
<1>1. o.kind \notin WorkKinds
  BY KindsDisjoint, Zenon
<1>2. ProjectObservation(w, o) \in Worlds
      /\ ProjectObservation(w, o).phase = w.phase
      /\ ProjectObservation(w, o).node = w.node
      /\ ProjectObservation(w, o).ready = w.ready
  BY Zenon DEF ProjectObservation, ProjectNode, ProjectApproval, Worlds,
         Observations, NodeEvidence,
         ApprovalEvidence, NodeKinds, ApprovalStates
<1>3. Project(w, o) = [ProjectObservation(w, o) EXCEPT !.revision = w.revision + 1]
  BY <1>1, Zenon DEF Project
<1> QED
  BY <1>2, <1>3 DEF Worlds

\* What it changes depends only on the cordons, the health and the approvals.
LEMMA ProjectObservationLocal ==
    ASSUME NEW w \in Worlds, NEW v \in Worlds, NEW o \in Observations,
           w.cordoned = v.cordoned, w.healthy = v.healthy,
           w.approval = v.approval
    PROVE  /\ Project(w, o).cordoned = Project(v, o).cordoned
           /\ Project(w, o).healthy = Project(v, o).healthy
           /\ Project(w, o).approval = Project(v, o).approval
<1>1. o.kind \notin WorkKinds
  BY KindsDisjoint, Zenon
<1>2. /\ ProjectObservation(w, o).cordoned = ProjectObservation(v, o).cordoned
      /\ ProjectObservation(w, o).healthy = ProjectObservation(v, o).healthy
      /\ ProjectObservation(w, o).approval = ProjectObservation(v, o).approval
      /\ ProjectObservation(w, o) \in Worlds
      /\ ProjectObservation(v, o) \in Worlds
  BY Zenon DEF ProjectObservation, ProjectNode, ProjectApproval, Worlds,
         Observations, NodeEvidence,
         ApprovalEvidence, NodeKinds, ApprovalStates
<1>3. /\ Project(w, o) = [ProjectObservation(w, o) EXCEPT !.revision = w.revision + 1]
      /\ Project(v, o) = [ProjectObservation(v, o) EXCEPT !.revision = v.revision + 1]
  BY <1>1, Zenon DEF Project
<1> QED
  BY <1>2, <1>3, Zenon DEF Worlds

\* Whether evidence about an allocation is accepted depends on its phase only.
LEMMA ProjectsLocal ==
    ASSUME NEW w, NEW v, NEW e, w.phase = v.phase, Projects(w, e)
    PROVE  Projects(v, e)
  BY Zenon DEF Projects

\* Two worlds with the same fields are the same world.
LEMMA WorldsEqual ==
    ASSUME NEW w \in Worlds, NEW v \in Worlds,
           w.revision = v.revision, w.phase = v.phase, w.node = v.node,
           w.ready = v.ready, w.healthy = v.healthy,
           w.cordoned = v.cordoned, w.approval = v.approval
    PROVE  w = v
  BY DEF Worlds

\* Evidence of the reconcile loop and an observation of a handler may be
\* projected in either order (control/projection.go projectInto): the log and
\* the memory of the server order them differently and still agree.
THEOREM ProjectionsCommute ==
    ASSUME NEW w \in Worlds, NEW e \in WorkEvidence, NEW o \in Observations
    PROVE  Project(Project(w, e), o) = Project(Project(w, o), e)
<1> DEFINE we == Project(w, e)
           wo == Project(w, o)
<1>1. /\ we \in Worlds /\ we.revision = w.revision + 1
      /\ we.cordoned = w.cordoned /\ we.healthy = w.healthy
      /\ we.approval = w.approval
  BY ProjectWorkFields, Zenon
<1>2. /\ wo \in Worlds /\ wo.revision = w.revision + 1
      /\ wo.phase = w.phase /\ wo.node = w.node /\ wo.ready = w.ready
  BY ProjectObservationFields, Zenon
<1>3. /\ Project(we, o) \in Worlds /\ Project(we, o).revision = we.revision + 1
      /\ Project(we, o).phase = we.phase /\ Project(we, o).node = we.node
      /\ Project(we, o).ready = we.ready
  BY <1>1, ProjectObservationFields, Zenon
<1>4. /\ Project(wo, e) \in Worlds /\ Project(wo, e).revision = wo.revision + 1
      /\ Project(wo, e).cordoned = wo.cordoned
      /\ Project(wo, e).healthy = wo.healthy
      /\ Project(wo, e).approval = wo.approval
  BY <1>2, ProjectWorkFields, Zenon
<1>5. /\ Project(wo, e).phase = we.phase /\ Project(wo, e).node = we.node
      /\ Project(wo, e).ready = we.ready
  BY <1>2, ProjectWorkLocal, Zenon
<1>6. /\ Project(we, o).cordoned = wo.cordoned
      /\ Project(we, o).healthy = wo.healthy
      /\ Project(we, o).approval = wo.approval
  BY <1>1, ProjectObservationLocal, Zenon
<1> HIDE DEF we, wo
<1>7. Project(we, o) = Project(wo, e)
  BY <1>1, <1>2, <1>3, <1>4, <1>5, <1>6, WorldsEqual
<1> QED
  BY <1>7, Zenon DEF we, wo

-----------------------------------------------------------------------------
(* The inductive invariant.                                                 *)

\* The loop is at label l, or will be after the record in progress.
At(l) == pc = l \/ (pc \in {"reserve", "append"} /\ rec.next = l)

\* What each control point implies of the local state around it.
Control ==
    /\ ~up => obs.at = "free" /\ pc = "idle"
    /\ obs.at # "free" => obs.ev \in Observations
    /\ obs.by = "loop" => pc = "observing" /\ run.todo \subseteq Nodes
    /\ pc = "project" => rec.ev \in WorkEvidence
    /\ run.turn \in 1 .. Len(Agents) + 1
    /\ \A l \in {"authorize", "execute", "dispatch", "observe"} :
           At(l) => run.turn \in 1 .. Len(Agents)
    /\ pc = "project" => run.turn \in 1 .. Len(Agents)
    /\ At("dispatch") \/ pc = "project" => run.plan # <<>>

\* The loop passed through the mutex before it read the head, so a handler
\* that is about to witness has read the same head or a later one.
Anchored ==
    /\ anchor <= count
    /\ obs.at = "witness" => anchor <= obs.head /\ obs.head <= count
    /\ pc = "anchor" => run.head <= count
    /\ pc \in {"head", "anchor"} /\ obs.at = "witness" => obs.head = count

\* What operators decided is in the log, and in memory once it is projected.
Decided ==
    up /\ replayable =>
        LET w == IF Unprojected THEN Project(world, obs.ev) ELSE world
        IN  /\ w.cordoned = durable.cordoned
            /\ w.healthy = durable.healthy
            /\ w.approval = durable.approval

IInv == TypeOK /\ Control /\ Anchored /\ WorldIsReplay /\ Decided

-----------------------------------------------------------------------------
(* The operators the actions are built from.                                *)

\* The loop goes through the three agents of the server.
LEMMA AgentsLength == Len(Agents) = 3
  BY Zenon DEF Agents

\* The values a record call, a run and the mutex are reset to have their types.
LEMMA IdleTypes ==
    /\ IdleRecord \in Records
    /\ IdleRun \in Runs
    /\ MutexFree \in Holders
  BY BaseWorldType DEF IdleRecord, Records, IdleRun, Runs, MutexFree, Holders,
                       Labels, Returns

\* No piece of evidence is the empty one that an event without evidence
\* carries.
LEMMA NoEvidenceDistinct ==
    /\ NoEvidence \notin WorkEvidence
    /\ NoEvidence \notin Observations
  BY Zenon DEF NoEvidence, WorkEvidence, Observations, NodeEvidence,
         ApprovalEvidence, WorkKinds, NodeKinds

\* Projection stays inside Worlds.
LEMMA ProjectType ==
    ASSUME NEW w \in Worlds, NEW e \in Evidence
    PROVE  Project(w, e) \in Worlds
  BY ProjectWorkFields, ProjectObservationFields, Zenon DEF Evidence

\* Committing a record keeps the log well typed and makes it one longer.
LEMMA CommitType ==
    ASSUME TypeOK, NEW e \in Evidence \cup {NoEvidence}, Commit(e)
    PROVE  /\ durable' \in Worlds /\ replayable' \in BOOLEAN
           /\ count' \in Nat /\ count' = count + 1
<1>1. CASE e = NoEvidence
  BY <1>1 DEF TypeOK, Commit
<1>2. CASE e \in Evidence /\ e # NoEvidence
  <2>1. Project(durable, e) \in Worlds
    BY <1>2, ProjectType, Zenon DEF TypeOK
  <2>2. CASE replayable /\ Projects(durable, e)
    BY <1>2, <2>1, <2>2 DEF TypeOK, Commit
  <2>3. CASE ~(replayable /\ Projects(durable, e))
    <3>1. replayable' = FALSE /\ durable' = durable /\ count' = count + 1
      BY <1>2, <2>3, Zenon DEF Commit
    <3>2. replayable' \in BOOLEAN
      BY <3>1, Zenon
    <3>3. durable' \in Worlds /\ count' \in Nat
      BY <3>1 DEF TypeOK
    <3> QED
      BY <3>1, <3>2, <3>3, Zenon
  <2> QED
    BY <2>2, <2>3, Zenon
<1> QED
  BY <1>1, <1>2, Zenon

\* Anchor.Witness leaves a sequence number in the anchor.
LEMMA WitnessType ==
    ASSUME anchor \in Nat, NEW h \in Nat, Witness(h)
    PROVE  anchor' \in Nat
  BY Zenon DEF Witness

\* What the engine sees of a world is a world.
LEMMA ObservedType ==
    ASSUME NEW w \in Worlds, NEW o \in Observed(w)
    PROVE  o \in Worlds
  BY DEF Worlds, Observed

\* Whatever an agent proposes is a sequence of actions.
LEMMA PlansType ==
    ASSUME NEW i \in 1 .. Len(Agents), NEW w \in Worlds,
           NEW p \in Plans(Agents[i], w)
    PROVE  p \in Seq(Actions)
<1> DEFINE agent == Agents[i]
<1>0. agent \in {"remediation-agent", "rollout-agent", "placement-agent"}
  BY DEF Agents
<1> HIDE DEF agent
<1>1. ASSUME NEW a \in Allocations, NEW n \in Nodes \cup {NoNode},
             NEW k \in {"create", "start", "stop", "delete"}
      PROVE  Step(k, a, n) \in Actions
  BY Zenon DEF Step, Actions, WorkActions
<1>2. ASSUME NEW n \in Nodes
      PROVE  Step("cordon", n, NoNode) \in Actions
  BY Zenon DEF Step, Actions
<1>3. <<>> \in Seq(Actions)
  OBVIOUS
<1>4. RemediationPlans(w) \subseteq Seq(Actions)
  <2>1. ASSUME NEW a \in Allocations
        PROVE  /\ <<Step("delete", a, NoNode)>> \in Seq(Actions)
               /\ <<Step("stop", a, NoNode), Step("delete", a, NoNode)>>
                      \in Seq(Actions)
    BY <1>1
  <2>2. ASSUME NEW n \in Nodes
        PROVE  <<Step("cordon", n, NoNode)>> \in Seq(Actions)
    BY <1>2
  <2> QED
    BY <1>3, <2>1, <2>2, Zenon DEF RemediationPlans
<1>5. PlacementPlans(w) \subseteq Seq(Actions)
  <2>1. ASSUME NEW a \in Allocations
        PROVE  Place(a, w) \subseteq Seq(Actions)
    <3>1. ASSUME NEW n \in Nodes
          PROVE  <<Step("create", a, n), Step("start", a, n)>> \in Seq(Actions)
      BY <1>1
    <3>2. w.healthy \subseteq Nodes
      BY Zenon DEF Worlds
    <3> QED
      BY <3>1, <3>2, Zenon DEF Place
  <2> DEFINE open == {a \in Allocations : w.phase[a] \in {"absent", "stopped"}}
             pairs(a, b) == {s \o t : s \in Place(a, w), t \in Place(b, w)}
             batch(a) == IF open = {a} THEN Place(a, w)
                         ELSE UNION {pairs(a, b) : b \in open \ {a}}
  <2>2. ASSUME NEW a \in Allocations, NEW b \in Allocations, NEW q \in pairs(a, b)
        PROVE  q \in Seq(Actions)
    <3>1. PICK s \in Place(a, w), t \in Place(b, w) : q = s \o t
      OBVIOUS
    <3>2. s \in Seq(Actions) /\ t \in Seq(Actions)
      BY <2>1
    <3> QED
      BY <3>1, <3>2
  <2>3. open \subseteq Allocations
    BY Zenon
  <2>4. PlacementPlans(w) = IF open = {} THEN {<<>>} ELSE UNION {batch(a) : a \in open}
    BY DEF PlacementPlans
  <2> HIDE DEF open, pairs
  <2>5. ASSUME NEW a \in open
        PROVE  batch(a) \subseteq Seq(Actions)
    <3>1. ASSUME NEW b \in open
          PROVE  pairs(a, b) \subseteq Seq(Actions)
      BY <2>2, <2>3, Zenon
    <3>2. UNION {pairs(a, b) : b \in open \ {a}} \subseteq Seq(Actions)
      BY <3>1, Zenon
    <3>3. Place(a, w) \subseteq Seq(Actions)
      BY <2>1, <2>3, Zenon
    <3> QED
      BY <3>2, <3>3, Zenon
  <2> HIDE DEF batch
  <2>6. ASSUME NEW q \in UNION {batch(a) : a \in open}
        PROVE  q \in Seq(Actions)
    <3>1. PICK a \in open : q \in batch(a)
      BY Zenon
    <3> QED
      BY <3>1, <2>5, Zenon
  <2>7. CASE open = {}
    BY <1>3, <2>4, <2>7, Zenon
  <2>8. CASE open # {}
    BY <2>4, <2>6, <2>8, Zenon
  <2> QED
    BY <2>7, <2>8, Zenon
<1>6. AnyPlans(agent, w) \subseteq Seq(Actions)
  <2> DEFINE granted == {act \in WorkActions :
                            /\ act.kind \in Grants(agent) /\ act.node # NoNode
                            /\ act.kind = "create" \/ w.node[act.target] \in {NoNode, act.node}}
  <2>1. granted \subseteq Actions
    BY Zenon DEF Actions
  <2>2. ASSUME NEW n \in 0 .. PlanLength, NEW q \in [1 .. n -> granted]
        PROVE  q \in Seq(Actions)
    <3>1. q \in [1 .. n -> Actions]
      BY <2>1, Zenon
    <3> QED
      BY <3>1, ControlPlaneAssumption
  <2>3. AnyPlans(agent, w) \subseteq UNION {[1 .. n -> granted] : n \in 0 .. PlanLength}
    BY Zenon DEF AnyPlans
  <2> HIDE DEF granted
  <2> QED
    BY <2>2, <2>3, Zenon
<1> QED
  BY <1>0, <1>3, <1>4, <1>5, <1>6, Zenon DEF Plans, StockPlans, agent

\* A handler takes the mutex, and gives it back.
LEMMA HolderTypes ==
    /\ \A who \in {"api", "loop"}, e \in Observations :
           Begin(who, e) => obs' \in Holders
    /\ TypeOK /\ Release => obs' \in Holders /\ pc' \in Labels
  BY IdleTypes, Zenon DEF Begin, Release, MutexFree, Holders, TypeOK, Labels, Returns

\* ObserveNodes records an observation about a node.
LEMMA FlipType ==
    ASSUME NEW n \in Nodes
    PROVE  Flip(n) \in Observations
  BY Zenon DEF Flip, Observations, NodeEvidence, NodeKinds

\* ObserveNodes goes on with the next node, or the mutex is free.
LEMMA ObserveProjectEnds ==
    ASSUME ObserveProject
    PROVE  obs'.at \in {"free", "reserve"}
<1>1. CASE Release
  BY <1>1, Zenon DEF Release, MutexFree
<1>2. ASSUME NEW n, Begin("loop", Flip(n))
      PROVE  obs'.at = "reserve"
  BY <1>2, Zenon DEF Begin, MutexFree
<1> QED
  BY <1>1, <1>2, Zenon DEF ObserveProject

\* A call of record leaves the loop at a label, with a record of its type.
LEMMA RecordType ==
    ASSUME NEW e \in WorkEvidence \cup {NoEvidence}, NEW l \in Returns, Record(e, l)
    PROVE  pc' \in Labels /\ rec' \in Records
  BY Zenon DEF Record, Labels, Records, Returns


\* A node that handles the next action of the plan has it in its inventory,
\* and answers with evidence about an allocation.
LEMMA HandleType ==
    ASSUME IInv, At("dispatch"), Handle(Head(run.plan))
    PROVE  /\ runtime' \in Containers /\ ledger' \in SUBSET Keys
           /\ EvidenceOf(Head(run.plan)) \in WorkEvidence
<1> DEFINE act == Head(run.plan)
<1> USE DEF IInv
<1>1. run.plan # <<>> /\ run.plan \in Seq(Actions)
  BY Zenon DEF Control, TypeOK, Runs
<1>2. act \in Actions
  BY <1>1
<1>3. act.node \in Nodes
  BY Zenon DEF Handle, TypeOK
<1>4. act \in WorkActions
  BY <1>2, <1>3, WorldAssumption, Zenon DEF Actions
<1>5. /\ act.kind \in {"create", "start", "stop", "delete"}
      /\ act.target \in Allocations
  BY <1>4, Zenon DEF WorkActions
<1>6. Key(act) \in Keys
  <2>1. run.turn \in 1 .. Len(Agents) /\ run.snap.revision \in Nat
    BY Zenon DEF Control, TypeOK, Runs, Worlds
  <2> QED
    BY <1>3, <1>5, <2>1, Zenon DEF Key, Keys
<1>7. RuntimeAfter(act) \in {"absent", "created", "running"}
  BY <1>3, <1>5, Zenon DEF RuntimeAfter, TypeOK, Containers
<1>8. EvidenceOf(act) \in WorkEvidence
  BY <1>3, <1>5, Zenon DEF EvidenceOf, WorkEvidence, WorkKinds
<1> HIDE DEF act
<1>9. ledger' \in SUBSET Keys
  BY <1>6, Zenon DEF Handle, TypeOK, nodeVars, act
<1>10. runtime' \in Containers
  BY <1>3, <1>5, <1>7, SMTT(30) DEF Handle, TypeOK, Containers, nodeVars, act
<1> QED
  BY <1>8, <1>9, <1>10, Zenon DEF act

-----------------------------------------------------------------------------
(* Type correctness.                                                        *)

\* Every step of the server, its handlers and its nodes keeps the types.
LEMMA TypeStep == IInv /\ [Next]_vars => TypeOK'
<1> SUFFICES ASSUME IInv, [Next]_vars PROVE TypeOK'
  BY Zenon
<1> USE DEF IInv
<1>1. ASSUME NEW e \in Decisions, Decide(e) PROVE TypeOK'
  <2>1. obs' \in Holders
    BY <1>1, ControlPlaneAssumption, HolderTypes, Zenon DEF Decide
  <2> QED
    BY <1>1, <2>1, Zenon DEF TypeOK, Decide, serverVars, logVars, nodeVars
<1>2. ASSUME ObserveReserve PROVE TypeOK'
  <2>1. count + 1 \in Nat
    BY DEF TypeOK
  <2>2. obs' \in Holders
    BY <1>2, <2>1, Zenon DEF ObserveReserve, TypeOK, Holders
  <2> QED
    BY <1>2, <2>2, Zenon DEF TypeOK, ObserveReserve, serverVars, logVars, nodeVars
<1>3. ASSUME ObserveAppend PROVE TypeOK'
  <2>1. obs' \in Holders
    BY <1>3, Zenon DEF ObserveAppend, TypeOK, Holders
  <2>2. obs.ev \in Evidence
    BY <1>3, Zenon DEF ObserveAppend, Control, Evidence
  <2>3. durable' \in Worlds /\ replayable' \in BOOLEAN /\ count' \in Nat
    BY <1>3, <2>2, CommitType, Zenon DEF ObserveAppend
  <2> QED
    BY <1>3, <2>1, <2>2, <2>3, Zenon DEF TypeOK, ObserveAppend, serverVars, nodeVars
<1>4. ASSUME ObserveRefused PROVE TypeOK'
  <2>1. obs' \in Holders /\ pc' \in Labels
    BY <1>4, HolderTypes, Zenon DEF ObserveRefused
  <2> QED
    BY <1>4, <2>1, Zenon DEF TypeOK, ObserveRefused, serverVars, logVars, nodeVars
<1>5. ASSUME ObserveHead PROVE TypeOK'
  <2>1. obs' \in Holders
    BY <1>5, Zenon DEF ObserveHead, TypeOK, Holders
  <2> QED
    BY <1>5, <2>1, Zenon DEF TypeOK, ObserveHead, serverVars, logVars, nodeVars
<1>6. ASSUME ObserveWitness PROVE TypeOK'
  <2>1. obs' \in Holders /\ pc' \in Labels
    BY <1>6, HolderTypes, Zenon DEF ObserveWitness, TypeOK, Holders
  <2>2. anchor' \in Nat
    BY <1>6, WitnessType, Zenon DEF ObserveWitness, TypeOK, Holders
  <2>3. lapsed' \in BOOLEAN
    BY <1>6, Zenon DEF ObserveWitness, TypeOK
  <2> QED
    BY <1>6, <2>1, <2>2, <2>3, Zenon DEF TypeOK, ObserveWitness, serverVars, logVars,
       nodeVars
<1>7. ASSUME ObserveProject PROVE TypeOK'
  <2>1. obs.ev \in Observations
    BY <1>7, Zenon DEF ObserveProject, Control
  <2>2. world' \in Worlds
    BY <1>7, <2>1, ProjectType, Zenon DEF ObserveProject, TypeOK, Evidence
  <2>3. CASE Release /\ UNCHANGED run
    BY <1>7, <2>2, <2>3, HolderTypes, Zenon DEF TypeOK, ObserveProject, serverVars,
       logVars, nodeVars
  <2>4. ASSUME NEW n \in run.todo, obs.by = "loop", Begin("loop", Flip(n)),
               run' = [run EXCEPT !.todo = @ \ {n}], UNCHANGED pc
        PROVE  TypeOK'
    <3>1. Flip(n) \in Observations
      BY <2>4, FlipType, Zenon DEF Control
    <3>2. obs' \in Holders
      BY <2>4, <3>1, HolderTypes, Zenon
    <3>3. run' \in Runs
      BY <2>4, Zenon DEF TypeOK, Runs
    <3> QED
      BY <1>7, <2>2, <2>4, <3>2, <3>3, Zenon DEF TypeOK, ObserveProject, serverVars,
         logVars, nodeVars
  <2> QED
    BY <1>7, <2>3, <2>4, Zenon DEF ObserveProject
<1>8. ASSUME Submit PROVE TypeOK'
  BY <1>8, Zenon DEF TypeOK, Submit, serverVars, logVars, nodeVars
<1>9. ASSUME NEW n \in Nodes, Enroll(n) PROVE TypeOK'
  BY <1>9, Zenon DEF TypeOK, Enroll, serverVars, logVars, nodeVars
<1>10. ASSUME Tick PROVE TypeOK'
  <2> DEFINE changed == {n \in Nodes : (n \in world.healthy) # (n \in connected)}
  <2>1. CASE pc' = "reconcile" /\ UNCHANGED <<obs, run>>
    BY <1>10, <2>1, Zenon DEF TypeOK, Tick, Labels, serverVars, logVars, nodeVars
  <2>2. ASSUME NEW n \in changed, Begin("loop", Flip(n)),
               run' = [run EXCEPT !.todo = changed \ {n}], pc' = "observing"
        PROVE  TypeOK'
    <3>1. obs' \in Holders
      BY <2>2, FlipType, HolderTypes, Zenon
    <3>2. run' \in Runs
      BY <2>2, Zenon DEF TypeOK, Runs
    <3>3. pc' \in Labels
      BY <2>2, Zenon DEF Labels
    <3> QED
      BY <1>10, <3>1, <3>2, <3>3, Zenon DEF TypeOK, Tick, serverVars, logVars,
         nodeVars
  <2> QED
    BY <1>10, <2>1, <2>2, Zenon DEF Tick
<1>11. ASSUME Reconcile PROVE TypeOK'
  <2>1. run' \in Runs
    BY <1>11, IdleTypes, Zenon DEF Reconcile
  <2>2. pc' \in Labels /\ rec' \in Records
    BY <1>11, RecordType, Zenon DEF Reconcile, TypeOK, Labels, Returns
  <2> QED
    BY <1>11, <2>1, <2>2, Zenon DEF TypeOK, Reconcile, serverVars, logVars, nodeVars
<1>12. ASSUME Reserve PROVE TypeOK'
  <2>1. pc' \in Labels /\ rec' \in Records
    BY <1>12 DEF Reserve, TypeOK, Labels, Records
  <2> QED
    BY <1>12, <2>1, Zenon DEF TypeOK, Reserve, serverVars, logVars, nodeVars
<1>13. ASSUME AppendRecord PROVE TypeOK'
  <2>1. pc' \in Labels /\ rec' \in Records
    BY <1>13, IdleTypes, Zenon DEF AppendRecord, TypeOK, Records, Returns, Labels
  <2>2. rec.ev \in Evidence \cup {NoEvidence}
    BY <1>13, Zenon DEF TypeOK, Records, Evidence
  <2>3. durable' \in Worlds /\ replayable' \in BOOLEAN /\ count' \in Nat
    BY <1>13, <2>2, CommitType, Zenon DEF AppendRecord
  <2> QED
    BY <1>13, <2>1, <2>2, <2>3, Zenon DEF TypeOK, AppendRecord, serverVars, nodeVars
<1>14. ASSUME AppendRefused PROVE TypeOK'
  <2>1. pc' \in Labels /\ rec' \in Records
    BY <1>14, IdleTypes, Zenon DEF AppendRefused, Labels
  <2>2. lapsed' \in BOOLEAN
    BY <1>14, Zenon DEF AppendRefused, TypeOK
  <2> QED
    BY <1>14, <2>1, <2>2, Zenon DEF TypeOK, AppendRefused, serverVars, logVars,
       nodeVars
<1>15. ASSUME Round PROVE TypeOK'
  <2>1. run' \in Runs
    <3> DEFINE running == {a \in Allocations : world.phase[a] = "running"}
    <3>1. run \in Runs /\ run.rounds + 1 \in Nat /\ running \in SUBSET (Allocations \cup Nodes)
      BY DEF TypeOK, Runs
    <3> HIDE DEF running
    <3>2. [run EXCEPT !.rounds = @ + 1, !.todo = running] \in Runs
      BY <3>1, Zenon DEF Runs
    <3> QED BY <1>15, <3>1, <3>2, Zenon DEF Round, running
  <2>2. pc' \in Labels /\ rec' \in Records
    BY <1>15, RecordType, Zenon DEF Round, TypeOK, Labels, Returns
  <2> QED
    BY <1>15, <2>1, <2>2, Zenon DEF TypeOK, Round, serverVars, logVars, nodeVars
<1>16. ASSUME NEW a \in Allocations, Probe(a) PROVE TypeOK'
  <2>1. run' \in Runs
    BY <1>16, Zenon DEF Probe, TypeOK, Runs
  <2>2. world' \in Worlds /\ pc' \in Labels /\ rec' \in Records
    <3>1. CASE UNCHANGED <<world, pc, rec>>
      BY <3>1, Zenon DEF TypeOK
    <3>2. ASSUME NEW e \in Measured(a), world' = Project(world, e), Record(e, pc)
          PROVE  world' \in Worlds /\ pc' \in Labels /\ rec' \in Records
      <4>1. e \in WorkEvidence
        BY Zenon DEF Measured
      <4> QED
        BY <1>16, <3>2, <4>1, ProjectType, RecordType, Zenon
           DEF Probe, TypeOK, Evidence, Returns
    <3> QED
      BY <1>16, <3>1, <3>2, Zenon DEF Probe
  <2> QED
    BY <1>16, <2>1, <2>2, Zenon DEF TypeOK, Probe, serverVars, logVars, nodeVars
<1>17. ASSUME Refreshed PROVE TypeOK'
  <2>1. run' \in Runs
    <3>1. [run EXCEPT !.turn = 1, !.progress = FALSE] \in Runs
      BY Zenon DEF TypeOK, Runs
    <3> QED
      BY <1>17, <3>1, Zenon DEF Refreshed, TypeOK
  <2>2. pc' \in Labels /\ rec' \in Records
    BY <1>17, RecordType, Zenon DEF Refreshed, TypeOK, Labels, Returns
  <2> QED
    BY <1>17, <2>1, <2>2, Zenon DEF TypeOK, Refreshed, serverVars, logVars, nodeVars
<1>18. ASSUME Propose PROVE TypeOK'
  <2>1. run' \in Runs
    <3>1. run.turn \in 1 .. Len(Agents)
      <4>1. run.turn <= Len(Agents)
        BY <1>18, Zenon DEF Propose
      <4>2. run.turn \in 1 .. Len(Agents) + 1
        BY Zenon DEF Control
      <4> QED
        BY <4>1, <4>2, AgentsLength
    <3>2. [run EXCEPT !.turn = @ + 1] \in Runs
      BY DEF TypeOK, Runs
    <3>3. ASSUME NEW o \in Observed(world), NEW p \in Plans(Agents[run.turn], world)
          PROVE  [run EXCEPT !.snap = o, !.plan = p] \in Runs
      <4>1. p \in Seq(Actions)
        BY <3>1, PlansType, Zenon DEF TypeOK
      <4>2. o \in Worlds
        BY ObservedType, Zenon DEF TypeOK
      <4> QED
        BY <4>1, <4>2, Zenon DEF TypeOK, Runs
    <3> QED
      BY <1>18, <3>2, <3>3, Zenon DEF Propose
  <2>2. pc' \in Labels /\ rec' \in Records
    BY <1>18, RecordType, Zenon DEF Propose, TypeOK, Labels, Returns
  <2> QED
    BY <1>18, <2>1, <2>2, Zenon DEF TypeOK, Propose, serverVars, logVars, nodeVars
<1>19. ASSUME EndRound PROVE TypeOK'
  <2>1. pc' \in Labels /\ rec' \in Records
    BY <1>19, RecordType, Zenon DEF EndRound, TypeOK, Labels, Returns
  <2> QED
    BY <1>19, <2>1, Zenon DEF TypeOK, EndRound, serverVars, logVars, nodeVars
<1>20. ASSUME Authorize PROVE TypeOK'
  <2>1. run' \in Runs
    <3> DEFINE started == {run.plan[i].target :
                   i \in {j \in 1 .. Len(run.plan) : run.plan[j].kind = "start"}}
    <3>1. started \subseteq Allocations
      BY DEF TypeOK, Runs, Actions, WorkActions
    <3>2. [run EXCEPT !.checks = started] \in Runs
      BY <3>1, Zenon DEF TypeOK, Runs
    <3>3. [run EXCEPT !.turn = @ + 1, !.plan = <<>>] \in Runs
      <4>1. <<>> \in Seq(Actions) /\ run.turn + 1 \in Nat
        BY DEF TypeOK, Runs
      <4> QED
        BY <4>1, Zenon DEF TypeOK, Runs
    <3> QED
      BY <1>20, <3>2, <3>3, Zenon DEF Authorize
  <2>2. pc' \in Labels /\ rec' \in Records
    BY <1>20, RecordType, Zenon DEF Authorize, TypeOK, Labels, Returns
  <2> QED
    BY <1>20, <2>1, <2>2, Zenon DEF TypeOK, Authorize, serverVars, logVars, nodeVars
<1>21. ASSUME Execute PROVE TypeOK'
  <2>1. run' \in Runs
    BY <1>21, Zenon DEF Execute, TypeOK, Runs
  <2>2. pc' \in Labels /\ rec' \in Records
    BY <1>21, RecordType, Zenon DEF Execute, TypeOK, Labels, Returns
  <2> QED
    BY <1>21, <2>1, <2>2, Zenon DEF TypeOK, Execute, serverVars, logVars, nodeVars
<1>22. ASSUME Dispatch PROVE TypeOK'
  <2>1. At("dispatch")
    BY <1>22, Zenon DEF Dispatch, At
  <2>2. /\ runtime' \in Containers /\ ledger' \in SUBSET Keys
        /\ EvidenceOf(Head(run.plan)) \in WorkEvidence
    BY <1>22, <2>1, HandleType, Zenon DEF Dispatch
  <2>3. pc' \in Labels /\ rec' \in Records
    BY <1>22, <2>2, Zenon DEF Dispatch, IdleRecord, Labels, Records, Returns
  <2> QED
    BY <1>22, <2>2, <2>3, Zenon DEF TypeOK, Dispatch, serverVars, logVars, nodeVars
<1>23. ASSUME ReplyLost PROVE TypeOK'
  <2>1. pc' \in Labels /\ rec' \in Records
    BY <1>23, RecordType, Zenon DEF ReplyLost, Labels, Returns
  <2>2. runtime' \in Containers /\ ledger' \in SUBSET Keys
    BY <1>23, HandleType, Zenon DEF ReplyLost, At
  <2> QED
    BY <1>23, <2>1, <2>2, Zenon DEF TypeOK, ReplyLost, serverVars, logVars, nodeVars
<1>24. ASSUME DispatchFails PROVE TypeOK'
  <2>1. pc' \in Labels /\ rec' \in Records
    BY <1>24, RecordType, Zenon DEF DispatchFails, Labels, Returns
  <2> QED
    BY <1>24, <2>1, Zenon DEF TypeOK, DispatchFails, serverVars, logVars, nodeVars
<1>25. ASSUME ProjectEvidence PROVE TypeOK'
  <2>1. rec.ev \in WorkEvidence
    BY <1>25, Zenon DEF ProjectEvidence, Control
  <2>2. pc' \in Labels /\ rec' \in Records
    BY <1>25, <2>1, RecordType, Zenon DEF ProjectEvidence, Labels, Returns
  <2>3. world' \in Worlds
    BY <1>25, <2>1, ProjectType, Zenon DEF ProjectEvidence, TypeOK, Evidence
  <2>4. run' \in Runs
    <3>1. run.plan # <<>> /\ run.plan \in Seq(Actions)
      BY <1>25, Zenon DEF ProjectEvidence, Control, TypeOK, Runs
    <3>2. Tail(run.plan) \in Seq(Actions)
      BY <3>1
    <3> QED
      BY <1>25, <3>2, Zenon DEF ProjectEvidence, TypeOK, Runs
  <2> QED
    BY <1>25, <2>1, <2>2, <2>3, <2>4, Zenon DEF TypeOK, ProjectEvidence, serverVars,
       logVars, nodeVars
<1>26. ASSUME Verify PROVE TypeOK'
  <2>1. run' \in Runs
    BY <1>26 DEF Verify, TypeOK, Runs
  <2>2. pc' \in Labels /\ rec' \in Records
    BY <1>26, RecordType, Zenon DEF Verify, TypeOK, Labels, Returns
  <2> QED
    BY <1>26, <2>1, <2>2, Zenon DEF TypeOK, Verify, serverVars, logVars, nodeVars
<1>27. ASSUME WitnessLock PROVE TypeOK'
  <2>1. pc' \in Labels
    BY <1>27, Zenon DEF WitnessLock, Labels
  <2> QED
    BY <1>27, <2>1, Zenon DEF TypeOK, WitnessLock, serverVars, logVars, nodeVars
<1>28. ASSUME WitnessHead PROVE TypeOK'
  <2>1. pc' \in Labels
    BY <1>28, Zenon DEF WitnessHead, Labels
  <2>2. run' \in Runs
    BY <1>28, IdleTypes, Zenon DEF WitnessHead, TypeOK, Runs
  <2> QED
    BY <1>28, <2>1, <2>2, Zenon DEF TypeOK, WitnessHead, serverVars, logVars,
       nodeVars
<1>29. ASSUME WitnessAnchor PROVE TypeOK'
  <2>1. pc' \in Labels /\ run' \in Runs
    BY <1>29, IdleTypes, Zenon DEF WitnessAnchor, Labels
  <2>2. anchor' \in Nat
    BY <1>29, WitnessType, Zenon DEF WitnessAnchor, TypeOK, Runs
  <2> QED
    BY <1>29, <2>1, <2>2, Zenon DEF TypeOK, WitnessAnchor, serverVars, logVars,
       nodeVars
<1>30. ASSUME Crash PROVE TypeOK'
  <2>1. pc' \in Labels /\ rec' \in Records /\ run' \in Runs /\ obs' \in Holders /\ world' \in Worlds
    BY <1>30, IdleTypes, BaseWorldType, Zenon DEF Crash, Labels
  <2>2. up' \in BOOLEAN /\ submitted' \in BOOLEAN
    BY <1>30, Zenon DEF Crash
  <2> QED
    BY <1>30, <2>1, <2>2, Zenon DEF TypeOK, Crash, serverVars, logVars, nodeVars
<1>31. ASSUME Restart PROVE TypeOK'
  <2>1. anchor' \in Nat
    BY <1>31, WitnessType, Zenon DEF Restart, TypeOK
  <2>2. up' \in BOOLEAN /\ lapsed' \in BOOLEAN
    BY <1>31, Zenon DEF Restart
  <2> QED
    BY <1>31, <2>1, <2>2, Zenon DEF TypeOK, Restart, serverVars, logVars, nodeVars
<1>32. CASE UNCHANGED vars
  BY <1>32, Zenon DEF TypeOK, vars
<1> QED
  BY <1>1, <1>2, <1>3, <1>4, <1>5, <1>6, <1>7, <1>8, <1>9, <1>10, <1>11,
     <1>12, <1>13, <1>14, <1>15, <1>16, <1>17, <1>18, <1>19, <1>20, <1>21,
     <1>22, <1>23, <1>24, <1>25, <1>26, <1>27, <1>28, <1>29, <1>30, <1>31,
     <1>32, Zenon DEF Next, Handlers, Loop

-----------------------------------------------------------------------------
(* Control.                                                                 *)

\* The loop goes on at l, at once or after a record: what l needs of the turn
\* and of the plan is all there is to check.
LEMMA GoOn ==
    ASSUME IInv, pc \notin {"idle", "observing"}, UNCHANGED <<up, obs>>,
           NEW l \in Returns, NEW e,
           Record(e, l) \/ (pc' = l /\ UNCHANGED rec),
           run'.turn \in 1 .. Len(Agents) + 1,
           l \in {"authorize", "execute", "dispatch", "observe"} =>
               run'.turn \in 1 .. Len(Agents),
           l = "dispatch" => run'.plan # <<>>
    PROVE  Control'
<1> USE DEF IInv
<1>1. up /\ obs.by # "loop"
  BY Zenon DEF Control, TypeOK
<1>2. CASE Record(e, l)
  <2>1. pc' = "reserve" /\ rec'.next = l
    BY <1>2, Zenon DEF Record
  <2> QED
    BY <1>1, <2>1, Zenon DEF Control, At
<1>3. CASE pc' = l /\ UNCHANGED rec
  BY <1>1, <1>3, Zenon DEF Control, At, Returns
<1> QED
  BY <1>2, <1>3, Zenon

\* Every step keeps the loop and the handlers in consistent program states.
LEMMA ControlStep == IInv /\ [Next]_vars => Control'
<1> SUFFICES ASSUME IInv, [Next]_vars PROVE Control'
  BY Zenon
<1> USE DEF IInv
<1>1. ASSUME NEW e \in Decisions, Decide(e) PROVE Control'
  BY <1>1, ControlPlaneAssumption, Zenon DEF Control, At, TypeOK, Holders, Records,
     Runs, Begin, MutexFree, Decide, serverVars, logVars, nodeVars
<1>2. ASSUME ObserveReserve PROVE Control'
  BY <1>2, AgentsLength, Zenon DEF Control, At, TypeOK, Holders, Records, Runs,
     ObserveReserve, serverVars, logVars, nodeVars
<1>3. ASSUME ObserveAppend PROVE Control'
  BY <1>3, AgentsLength, Zenon DEF Control, At, TypeOK, Holders, Records, Runs,
     ObserveAppend, serverVars, nodeVars
<1>4. ASSUME ObserveRefused PROVE Control'
  BY <1>4, AgentsLength, Zenon DEF Control, At, TypeOK, Holders, Records, Runs,
     Release, MutexFree, ObserveRefused, serverVars, logVars, nodeVars
<1>5. ASSUME ObserveHead PROVE Control'
  BY <1>5, AgentsLength, Zenon DEF Control, At, TypeOK, Holders, Records, Runs,
     ObserveHead, serverVars, logVars, nodeVars
<1>6. ASSUME ObserveWitness PROVE Control'
  <2>1. obs.at = "witness" /\ UNCHANGED <<up, rec, run>>
    BY <1>6, Zenon DEF ObserveWitness, serverVars
  <2>2. CASE obs' = [obs EXCEPT !.at = "project"] /\ UNCHANGED pc
    <3>1. obs'.at = "project" /\ obs'.ev = obs.ev /\ obs'.by = obs.by
      BY <2>2, Zenon DEF TypeOK, Holders
    <3> QED BY <2>1, <2>2, <3>1, Zenon DEF Control, At
  <2>3. CASE Release
    BY <2>1, <2>3, Zenon DEF Control, At, Release, MutexFree
  <2> QED BY <1>6, <2>2, <2>3, Zenon DEF ObserveWitness
<1>7. ASSUME ObserveProject PROVE Control'
  <2>1. CASE Release /\ UNCHANGED run
    BY <1>7, <2>1, Zenon DEF Control, At, Release, MutexFree, TypeOK, ObserveProject,
                      serverVars
  <2>2. ASSUME NEW n \in run.todo, obs.by = "loop", Begin("loop", Flip(n)),
               run' = [run EXCEPT !.todo = @ \ {n}], UNCHANGED pc
        PROVE  Control'
    <3>1. pc = "observing" /\ run.todo \subseteq Nodes /\ up
      BY <2>2, Zenon DEF Control, TypeOK
    <3>2. obs'.ev \in Observations
      BY <2>2, <3>1, FlipType, Zenon DEF Begin, MutexFree
    <3>3. run'.todo \subseteq Nodes /\ run'.turn = run.turn
      BY <2>2, <3>1, Zenon DEF TypeOK, Runs
    <3>4. UNCHANGED <<up, rec>>
      BY <1>7, Zenon DEF ObserveProject, serverVars
    <3> QED
      BY <2>2, <3>1, <3>2, <3>3, <3>4, Zenon DEF Control, At
  <2> QED
    BY <1>7, <2>1, <2>2, Zenon DEF ObserveProject
<1>8. ASSUME Submit PROVE Control'
  BY <1>8, AgentsLength, Zenon DEF Control, At, TypeOK, Holders, Records, Runs,
     Submit, logVars, nodeVars
<1>9. ASSUME NEW n \in Nodes, Enroll(n) PROVE Control'
  BY <1>9, AgentsLength, Zenon DEF Control, At, TypeOK, Holders, Records, Runs,
     Enroll, logVars, nodeVars
<1>10. ASSUME Tick PROVE Control'
  <2> DEFINE changed == {n \in Nodes : (n \in world.healthy) # (n \in connected)}
  <2>1. CASE pc' = "reconcile" /\ UNCHANGED <<obs, run>>
    BY <1>10, <2>1, Zenon DEF Control, At, Tick, serverVars
  <2>2. ASSUME NEW n \in changed, Begin("loop", Flip(n)),
               run' = [run EXCEPT !.todo = changed \ {n}], pc' = "observing"
        PROVE  Control'
    <3>1. obs'.ev \in Observations
      BY <2>2, FlipType, Zenon DEF Begin, MutexFree
    <3>2. run'.todo \subseteq Nodes /\ run'.turn = run.turn
      BY <2>2, Zenon DEF TypeOK, Runs
    <3>3. up /\ UNCHANGED <<up, rec>>
      BY <1>10, Zenon DEF Tick, serverVars
    <3> QED
      BY <2>2, <3>1, <3>2, <3>3, Zenon DEF Control, At
  <2> QED
    BY <1>10, <2>1, <2>2, Zenon DEF Tick
<1>11. ASSUME Reconcile PROVE Control'
  BY <1>11, AgentsLength DEF Control, At, TypeOK, Holders, Records, Runs,
     Record, IdleRun, Reconcile, serverVars, logVars, nodeVars
<1>12. ASSUME Reserve PROVE Control'
  BY <1>12, AgentsLength, Zenon DEF Control, At, TypeOK, Holders, Records, Runs,
     Reserve, serverVars, logVars, nodeVars
<1>13. ASSUME AppendRecord PROVE Control'
  <2>1. /\ pc = "append" /\ pc' = rec.next /\ rec' = IdleRecord
        /\ UNCHANGED <<up, obs, run>>
    BY <1>13, Zenon DEF AppendRecord, serverVars
  <2>2. rec.next \in Returns /\ rec'.next = "idle"
    BY <2>1, Zenon DEF TypeOK, Records, IdleRecord
  <2> QED
    BY <2>1, <2>2, Zenon DEF Control, At, Returns, TypeOK
<1>14. ASSUME AppendRefused PROVE Control'
  BY <1>14, AgentsLength, Zenon DEF Control, At, TypeOK, Holders, Records, Runs,
     IdleRecord, AppendRefused, serverVars, logVars, nodeVars
<1>15. ASSUME Round PROVE Control'
  <2>1. pc = "round" /\ UNCHANGED <<up, obs>>
    BY <1>15, Zenon DEF Round, serverVars
  <2>2. run'.turn = run.turn
    BY <1>15, Zenon DEF Round, TypeOK, Runs
  <2>3. run.turn \in 1 .. Len(Agents) + 1
    BY Zenon DEF Control
  <2>4. \/ Record(NoEvidence, "witness")
        \/ pc' = "refresh" /\ UNCHANGED rec
    BY <1>15, Zenon DEF Round
  <2> QED
    BY <2>1, <2>2, <2>3, <2>4, GoOn, Zenon DEF Returns
<1>16. ASSUME NEW a \in Allocations, Probe(a) PROVE Control'
  BY <1>16, AgentsLength, SMTT(30) DEF Control, At, TypeOK, Holders, Records, Runs,
     Record, Probe, serverVars, logVars, nodeVars
<1>17. ASSUME Refreshed PROVE Control'
  <2>1. pc = "refresh" /\ UNCHANGED <<up, obs>>
    BY <1>17, Zenon DEF Refreshed, serverVars
  <2>2. run'.turn \in {1, run.turn}
    BY <1>17, Zenon DEF Refreshed, TypeOK, Runs
  <2>3. run'.turn \in 1 .. Len(Agents) + 1
    BY <2>2, AgentsLength DEF Control
  <2>4. \/ Record(NoEvidence, "witness")
        \/ pc' = "agent" /\ UNCHANGED rec
    BY <1>17, Zenon DEF Refreshed
  <2> QED
    BY <2>1, <2>3, <2>4, GoOn, Zenon DEF Returns
<1>18. ASSUME Propose PROVE Control'
  <2>1. pc = "agent" /\ UNCHANGED <<up, obs>> /\ run.turn <= Len(Agents)
    BY <1>18, Zenon DEF Propose, serverVars
  <2>2. run.turn \in 1 .. Len(Agents)
    BY <2>1, AgentsLength DEF Control
  <2>3. CASE run' = [run EXCEPT !.turn = @ + 1]
             /\ (Record(NoEvidence, "agent") \/ UNCHANGED <<pc, rec>>)
    <3>1. run'.turn = run.turn + 1
      BY <2>3, Zenon DEF TypeOK, Runs
    <3>2. run'.turn \in 1 .. Len(Agents) + 1
      BY <2>2, <3>1, AgentsLength
    <3> QED
      BY <2>1, <2>3, <3>2, GoOn, Zenon DEF Returns
  <2>4. ASSUME NEW o, NEW p, run' = [run EXCEPT !.snap = o, !.plan = p],
               Record(NoEvidence, "authorize")
        PROVE  Control'
    <3>1. run'.turn = run.turn
      BY <2>4, Zenon DEF TypeOK, Runs
    <3> QED
      BY <2>1, <2>2, <2>4, <3>1, AgentsLength, GoOn DEF Returns
  <2> QED
    BY <1>18, <2>3, <2>4, Zenon DEF Propose
<1>19. ASSUME EndRound PROVE Control'
  BY <1>19, AgentsLength DEF Control, At, TypeOK, Holders, Records, Runs,
     Record, EndRound, serverVars, logVars, nodeVars
<1>20. ASSUME Authorize PROVE Control'
  <2>1. pc = "authorize" /\ UNCHANGED <<up, obs>>
    BY <1>20, Zenon DEF Authorize, serverVars
  <2>2. run.turn \in 1 .. Len(Agents)
    BY <2>1, Zenon DEF Control, At
  <2>3. CASE run' = [run EXCEPT !.turn = @ + 1, !.plan = <<>>]
             /\ Record(NoEvidence, "agent")
    <3>1. run'.turn = run.turn + 1
      BY <2>3, Zenon DEF TypeOK, Runs
    <3>2. run'.turn \in 1 .. Len(Agents) + 1
      BY <2>2, <3>1, AgentsLength
    <3> QED
      BY <2>1, <2>3, <3>2, GoOn, Zenon DEF Returns
  <2>4. ASSUME NEW c, run' = [run EXCEPT !.checks = c],
               Record(NoEvidence, "execute")
        PROVE  Control'
    <3>1. run'.turn = run.turn
      BY <2>4, Zenon DEF TypeOK, Runs
    <3> QED
      BY <2>1, <2>2, <2>4, <3>1, AgentsLength, GoOn DEF Returns
  <2> QED
    BY <1>20, <2>3, <2>4, Zenon DEF Authorize
<1>21. ASSUME Execute PROVE Control'
  BY <1>21, AgentsLength, Zenon DEF Control, At, TypeOK, Holders, Records, Runs,
     Record, Execute, serverVars, logVars, nodeVars
<1>22. ASSUME Dispatch PROVE Control'
  <2>1. pc = "dispatch" /\ pc' = "project" /\ UNCHANGED <<up, obs, run>>
    BY <1>22, Zenon DEF Dispatch, serverVars
  <2>2. run.turn \in 1 .. Len(Agents) /\ run.plan # <<>> /\ up /\ obs.by # "loop"
    BY <2>1, Zenon DEF Control, At, TypeOK
  <2>3. rec'.ev \in WorkEvidence
    BY <1>22, <2>1, HandleType, Zenon DEF Dispatch, At, IdleRecord
  <2> QED
    BY <2>1, <2>2, <2>3, Zenon DEF Control, At
<1>23. ASSUME ReplyLost PROVE Control'
  BY <1>23, AgentsLength, Zenon DEF Control, At, TypeOK, Holders, Records, Runs,
     Record, ReplyLost, serverVars, logVars, nodeVars
<1>24. ASSUME DispatchFails PROVE Control'
  BY <1>24, AgentsLength, Zenon DEF Control, At, TypeOK, Holders, Records, Runs,
     Record, DispatchFails, serverVars, logVars, nodeVars
<1>25. ASSUME ProjectEvidence PROVE Control'
  <2>1. pc = "project" /\ UNCHANGED <<up, obs>>
    BY <1>25, Zenon DEF ProjectEvidence, serverVars
  <2>2. run.turn \in 1 .. Len(Agents)
    BY <2>1, Zenon DEF Control
  <2>3. run'.turn = run.turn
    BY <1>25, Zenon DEF ProjectEvidence, TypeOK, Runs
  <2>4. Record(rec.ev, "execute") \/ Record(NoEvidence, "witness")
    BY <1>25, Zenon DEF ProjectEvidence
  <2> QED
    BY <2>1, <2>2, <2>3, <2>4, AgentsLength, GoOn DEF Returns
<1>26. ASSUME Verify PROVE Control'
  BY <1>26, AgentsLength, SMTT(30) DEF Control, At, TypeOK, Holders, Records, Runs,
     Record, Verify, serverVars, logVars, nodeVars
<1>27. ASSUME WitnessLock PROVE Control'
  BY <1>27, AgentsLength, Zenon DEF Control, At, TypeOK, Holders, Records, Runs,
     WitnessLock, serverVars, logVars, nodeVars
<1>28. ASSUME WitnessHead PROVE Control'
  BY <1>28, AgentsLength DEF Control, At, TypeOK, Holders, Records, Runs,
     IdleRun, WitnessHead, serverVars, logVars, nodeVars
<1>29. ASSUME WitnessAnchor PROVE Control'
  BY <1>29, AgentsLength DEF Control, At, TypeOK, Holders, Records, Runs,
     IdleRun, WitnessAnchor, serverVars, logVars, nodeVars
<1>30. ASSUME Crash PROVE Control'
  BY <1>30, AgentsLength DEF Control, At, TypeOK, Holders, Records, Runs,
     MutexFree, IdleRecord, IdleRun, Crash, logVars, nodeVars
<1>31. ASSUME Restart PROVE Control'
  BY <1>31, AgentsLength, Zenon DEF Control, At, TypeOK, Holders, Records, Runs,
     Restart, logVars, nodeVars
<1>32. CASE UNCHANGED vars
  BY <1>32, Zenon DEF Control, At, TypeOK, Holders, Records, Runs, Begin, Release,
     Record, MutexFree, IdleRecord, IdleRun, vars
<1> QED
  BY <1>1, <1>2, <1>3, <1>4, <1>5, <1>6, <1>7, <1>8, <1>9, <1>10, <1>11,
     <1>12, <1>13, <1>14, <1>15, <1>16, <1>17, <1>18, <1>19, <1>20, <1>21,
     <1>22, <1>23, <1>24, <1>25, <1>26, <1>27, <1>28, <1>29, <1>30, <1>31,
     <1>32, Zenon DEF Next, Handlers, Loop


\* Every step keeps the anchor behind the heads that were read for it.
LEMMA AnchoredStep == IInv /\ [Next]_vars => Anchored'
<1> SUFFICES ASSUME IInv, [Next]_vars PROVE Anchored'
  BY Zenon
<1> USE DEF IInv
<1>1. ASSUME NEW e \in Decisions, Decide(e) PROVE Anchored'
  BY <1>1, Zenon DEF Anchored, Control, TypeOK, Holders, Runs, Begin, MutexFree,
     Decide, serverVars, logVars, nodeVars
<1>2. ASSUME ObserveReserve PROVE Anchored'
  BY <1>2, Zenon DEF Anchored, Control, TypeOK, Holders, Runs, ObserveReserve,
     serverVars, logVars, nodeVars
<1>3. ASSUME ObserveAppend PROVE Anchored'
  BY <1>3 DEF Anchored, Control, TypeOK, Holders, Runs, Commit, Witness,
     ObserveAppend, serverVars, nodeVars
<1>4. ASSUME ObserveRefused PROVE Anchored'
  BY <1>4, Zenon DEF Anchored, Control, TypeOK, Holders, Runs, Release, MutexFree,
     ObserveRefused, serverVars, logVars, nodeVars
<1>5. ASSUME ObserveHead PROVE Anchored'
  BY <1>5 DEF Anchored, Control, TypeOK, Holders, Runs, ObserveHead,
     serverVars, logVars, nodeVars
<1>6. ASSUME ObserveWitness PROVE Anchored'
  BY <1>6, Zenon DEF Anchored, Control, TypeOK, Holders, Runs, Witness, Release,
     MutexFree, ObserveWitness, serverVars, logVars, nodeVars
<1>7. ASSUME ObserveProject PROVE Anchored'
  <2>1. /\ obs.at = "project" /\ UNCHANGED <<count, anchor>>
        /\ obs'.at \in {"free", "reserve"}
    BY <1>7, ObserveProjectEnds, Zenon DEF ObserveProject, logVars
  <2>2. pc' = "anchor" => pc = "anchor" /\ run' = run
    <3>1. CASE Release /\ UNCHANGED run
      BY <3>1, Zenon DEF Release
    <3>2. CASE obs.by = "loop" /\ UNCHANGED pc
      BY <3>2, Zenon DEF Control
    <3> QED
      BY <1>7, <3>1, <3>2, Zenon DEF ObserveProject
  <2> QED
    BY <2>1, <2>2, Zenon DEF Anchored
<1>8. ASSUME Submit PROVE Anchored'
  BY <1>8, Zenon DEF Anchored, Control, TypeOK, Holders, Runs, Submit, logVars,
     nodeVars
<1>9. ASSUME NEW n \in Nodes, Enroll(n) PROVE Anchored'
  BY <1>9, Zenon DEF Anchored, Control, TypeOK, Holders, Runs, Enroll, logVars,
     nodeVars
<1>10. ASSUME Tick PROVE Anchored'
  BY <1>10, Zenon DEF Anchored, Control, TypeOK, Holders, Runs, Begin, MutexFree,
     Tick, serverVars, logVars, nodeVars
<1>11. ASSUME Reconcile PROVE Anchored'
  BY <1>11, Zenon DEF Anchored, Control, TypeOK, Holders, Runs, Record, IdleRun,
     Reconcile, serverVars, logVars, nodeVars
<1>12. ASSUME Reserve PROVE Anchored'
  BY <1>12, Zenon DEF Anchored, Control, TypeOK, Holders, Runs, Reserve, serverVars,
     logVars, nodeVars
<1>13. ASSUME AppendRecord PROVE Anchored'
  <2>1. /\ pc = "append" /\ pc' = rec.next /\ count' = count + 1
        /\ UNCHANGED <<anchor, obs, run>>
    BY <1>13, Zenon DEF AppendRecord, Commit
  <2>2. pc' \notin {"head", "anchor"}
    BY <2>1, Zenon DEF TypeOK, Records, Returns
  <2> QED
    BY <2>1, <2>2 DEF Anchored, TypeOK, Holders
<1>14. ASSUME AppendRefused PROVE Anchored'
  BY <1>14, Zenon DEF Anchored, Control, TypeOK, Holders, Runs, AppendRefused,
     serverVars, logVars, nodeVars
<1>15. ASSUME Round PROVE Anchored'
  BY <1>15, Zenon DEF Anchored, Control, TypeOK, Holders, Runs, Record, Round,
     serverVars, logVars, nodeVars
<1>16. ASSUME NEW a \in Allocations, Probe(a) PROVE Anchored'
  BY <1>16, Zenon DEF Anchored, Control, TypeOK, Holders, Runs, Record, Probe,
     serverVars, logVars, nodeVars
<1>17. ASSUME Refreshed PROVE Anchored'
  BY <1>17, Zenon DEF Anchored, Control, TypeOK, Holders, Runs, Record, Refreshed,
     serverVars, logVars, nodeVars
<1>18. ASSUME Propose PROVE Anchored'
  BY <1>18, Zenon DEF Anchored, Control, TypeOK, Holders, Runs, Record, Propose,
     serverVars, logVars, nodeVars
<1>19. ASSUME EndRound PROVE Anchored'
  BY <1>19, Zenon DEF Anchored, Control, TypeOK, Holders, Runs, Record, EndRound,
     serverVars, logVars, nodeVars
<1>20. ASSUME Authorize PROVE Anchored'
  BY <1>20, Zenon DEF Anchored, Control, TypeOK, Holders, Runs, Record, Authorize,
     serverVars, logVars, nodeVars
<1>21. ASSUME Execute PROVE Anchored'
  BY <1>21, Zenon DEF Anchored, Control, TypeOK, Holders, Runs, Record, Execute,
     serverVars, logVars, nodeVars
<1>22. ASSUME Dispatch PROVE Anchored'
  BY <1>22, Zenon DEF Anchored, Control, TypeOK, Holders, Runs, Dispatch, serverVars,
     logVars, nodeVars
<1>23. ASSUME ReplyLost PROVE Anchored'
  BY <1>23, Zenon DEF Anchored, Control, TypeOK, Holders, Runs, Record, ReplyLost,
     serverVars, logVars, nodeVars
<1>24. ASSUME DispatchFails PROVE Anchored'
  BY <1>24, Zenon DEF Anchored, Control, TypeOK, Holders, Runs, Record,
     DispatchFails, serverVars, logVars, nodeVars
<1>25. ASSUME ProjectEvidence PROVE Anchored'
  BY <1>25, Zenon DEF Anchored, Control, TypeOK, Holders, Runs, Record,
     ProjectEvidence, serverVars, logVars, nodeVars
<1>26. ASSUME Verify PROVE Anchored'
  BY <1>26, Zenon DEF Anchored, Control, TypeOK, Holders, Runs, Record, Verify,
     serverVars, logVars, nodeVars
<1>27. ASSUME WitnessLock PROVE Anchored'
  BY <1>27, Zenon DEF Anchored, Control, TypeOK, Holders, Runs, WitnessLock,
     serverVars, logVars, nodeVars
<1>28. ASSUME WitnessHead PROVE Anchored'
  BY <1>28 DEF Anchored, Control, TypeOK, Holders, Runs, IdleRun, WitnessHead,
     serverVars, logVars, nodeVars
<1>29. ASSUME WitnessAnchor PROVE Anchored'
  BY <1>29, Zenon DEF Anchored, Control, TypeOK, Holders, Runs, Witness, IdleRun,
     WitnessAnchor, serverVars, logVars, nodeVars
<1>30. ASSUME Crash PROVE Anchored'
  BY <1>30, Zenon DEF Anchored, Control, TypeOK, Holders, Runs, MutexFree, IdleRun,
     Crash, logVars, nodeVars
<1>31. ASSUME Restart PROVE Anchored'
  BY <1>31 DEF Anchored, Control, TypeOK, Holders, Runs, Witness, Restart,
     logVars, nodeVars
<1>32. CASE UNCHANGED vars
  BY <1>32, Zenon DEF Anchored, Control, TypeOK, Holders, Runs, Commit, Witness,
     Begin, Release, Record, MutexFree, IdleRun, vars
<1> QED
  BY <1>1, <1>2, <1>3, <1>4, <1>5, <1>6, <1>7, <1>8, <1>9, <1>10, <1>11,
     <1>12, <1>13, <1>14, <1>15, <1>16, <1>17, <1>18, <1>19, <1>20, <1>21,
     <1>22, <1>23, <1>24, <1>25, <1>26, <1>27, <1>28, <1>29, <1>30, <1>31,
     <1>32, Zenon DEF Next, Handlers, Loop

-----------------------------------------------------------------------------
(* The log and the world in memory.                                         *)

\* A step that neither projects nor records evidence, and leaves what is in
\* flight between the two as it is.
Quiet ==
    /\ UNCHANGED <<world, durable, replayable, lapsed, up>>
    /\ Unrecorded' <=> Unrecorded
    /\ Unprojected' <=> Unprojected
    /\ Unrecorded => rec'.ev = rec.ev
    /\ Unprojected => obs'.ev = obs.ev

\* A step that touches neither a world nor evidence in flight keeps the replay
\* facts.
LEMMA QuietKeeps ==
    ASSUME WorldIsReplay, Decided, Quiet
    PROVE  WorldIsReplay' /\ Decided'
<1> DEFINE ahead == IF Unprojected THEN Project(world, obs.ev) ELSE world
           behind == IF Unrecorded THEN Project(durable, rec.ev) ELSE durable
<1>1. ahead' = ahead
  BY Zenon DEF Quiet
<1>2. behind' = behind
  BY Zenon DEF Quiet
<1>3. Decided'
  BY <1>1, Zenon DEF Quiet, Decided
<1>4. WorldIsReplay'
  BY <1>1, <1>2, Zenon DEF Quiet, WorldIsReplay
<1> QED
  BY <1>3, <1>4, Zenon

\* Most steps are of this kind.
LEMMA QuietSteps ==
    ASSUME IInv
    PROVE  /\ \A e \in Decisions : Decide(e) => Quiet
           /\ \A n \in Nodes : Enroll(n) => Quiet
           /\ ObserveReserve => Quiet
           /\ ObserveRefused => Quiet
           /\ ObserveHead => Quiet
           /\ Submit => Quiet
           /\ Tick => Quiet
           /\ Reconcile => Quiet
           /\ Reserve => Quiet
           /\ Round => Quiet
           /\ Refreshed => Quiet
           /\ Propose => Quiet
           /\ EndRound => Quiet
           /\ Authorize => Quiet
           /\ Execute => Quiet
           /\ Dispatch => Quiet
           /\ ReplyLost => Quiet
           /\ DispatchFails => Quiet
           /\ Verify => Quiet
           /\ WitnessLock => Quiet
           /\ WitnessHead => Quiet
           /\ WitnessAnchor => Quiet
<1> USE DEF IInv
<1>1. ASSUME NEW e \in Decisions, Decide(e) PROVE Quiet
  BY <1>1, Zenon DEF Quiet, Unrecorded, Unprojected, Decide, Begin, MutexFree,
     serverVars, logVars, nodeVars
<1>2. ASSUME ObserveReserve PROVE Quiet
  BY <1>2, Zenon DEF Quiet, Unrecorded, Unprojected, ObserveReserve, TypeOK, Holders,
     serverVars, logVars, nodeVars
<1>3. ASSUME ObserveRefused PROVE Quiet
  BY <1>3, Zenon DEF Quiet, Control, Unrecorded, Unprojected, ObserveRefused,
     Release,
              MutexFree, serverVars, logVars, nodeVars
<1>4. ASSUME ObserveHead PROVE Quiet
  BY <1>4, Zenon DEF Quiet, Unrecorded, Unprojected, ObserveHead, TypeOK, Holders,
     serverVars, logVars, nodeVars
<1>5. ASSUME Submit PROVE Quiet
  BY <1>5, Zenon DEF Quiet, Unrecorded, Unprojected, Submit, logVars, nodeVars
<1>6. ASSUME NEW n \in Nodes, Enroll(n) PROVE Quiet
  BY <1>6, Zenon DEF Quiet, Unrecorded, Unprojected, Enroll, logVars, nodeVars
<1>7. ASSUME Tick PROVE Quiet
  BY <1>7, Zenon DEF Quiet, Unrecorded, Unprojected, Tick, Begin, MutexFree,
     serverVars, logVars, nodeVars
<1>8. ASSUME Reconcile PROVE Quiet
  BY <1>8 DEF Quiet, Unrecorded, Unprojected, Reconcile, Record, serverVars,
     logVars, nodeVars
<1>9. ASSUME Reserve PROVE Quiet
  BY <1>9, Zenon DEF Quiet, Unrecorded, Unprojected, Reserve, TypeOK, Records,
     serverVars, logVars, nodeVars
<1>10. ASSUME Round PROVE Quiet
  BY <1>10 DEF Quiet, Unrecorded, Unprojected, Round, Record, serverVars,
     logVars, nodeVars
<1>11. ASSUME Refreshed PROVE Quiet
  BY <1>11 DEF Quiet, Unrecorded, Unprojected, Refreshed, Record, serverVars,
     logVars, nodeVars
<1>12. ASSUME Propose PROVE Quiet
  <2>1. /\ pc = "agent"
        /\ UNCHANGED <<world, durable, replayable, lapsed, up, obs>>
    BY <1>12, Zenon DEF Propose, serverVars, logVars
  <2>2. \/ \E l \in Labels : Record(NoEvidence, l)
        \/ UNCHANGED <<pc, rec>>
    BY <1>12, Zenon DEF Propose, Labels
  <2> QED
    BY <2>1, <2>2 DEF Quiet, Unrecorded, Unprojected, Record
<1>13. ASSUME EndRound PROVE Quiet
  BY <1>13 DEF Quiet, Unrecorded, Unprojected, EndRound, Record, serverVars,
     logVars, nodeVars
<1>14. ASSUME Authorize PROVE Quiet
  BY <1>14 DEF Quiet, Unrecorded, Unprojected, Authorize, Record, serverVars,
     logVars, nodeVars
<1>15. ASSUME Execute PROVE Quiet
  BY <1>15 DEF Quiet, Unrecorded, Unprojected, Execute, Record, serverVars,
     logVars, nodeVars
<1>16. ASSUME Dispatch PROVE Quiet
  BY <1>16, Zenon DEF Quiet, Unrecorded, Unprojected, Dispatch, serverVars, logVars,
     nodeVars
<1>17. ASSUME ReplyLost PROVE Quiet
  BY <1>17, Zenon DEF Quiet, Unrecorded, Unprojected, ReplyLost, Record, serverVars,
     logVars, nodeVars
<1>18. ASSUME DispatchFails PROVE Quiet
  BY <1>18, Zenon DEF Quiet, Unrecorded, Unprojected, DispatchFails, Record,
     serverVars, logVars, nodeVars
<1>19. ASSUME Verify PROVE Quiet
  BY <1>19 DEF Quiet, Unrecorded, Unprojected, Verify, Record, serverVars,
     logVars, nodeVars
<1>20. ASSUME WitnessLock PROVE Quiet
  BY <1>20, Zenon DEF Quiet, Unrecorded, Unprojected, WitnessLock, serverVars,
     logVars, nodeVars
<1>21. ASSUME WitnessHead PROVE Quiet
  BY <1>21, Zenon DEF Quiet, Unrecorded, Unprojected, WitnessHead, serverVars,
     logVars, nodeVars
<1>22. ASSUME WitnessAnchor PROVE Quiet
  BY <1>22, Zenon DEF Quiet, Unrecorded, Unprojected, WitnessAnchor, serverVars,
     logVars, nodeVars
<1> QED
  BY <1>1, <1>2, <1>3, <1>4, <1>5, <1>6, <1>7, <1>8, <1>9, <1>10, <1>11,
     <1>12, <1>13, <1>14, <1>15, <1>16, <1>17, <1>18, <1>19, <1>20, <1>21,
     <1>22, Zenon

\* Committing a record of evidence that projects, to a log that replays.
LEMMA CommitProjects ==
    ASSUME NEW e \in Evidence, Commit(e), replayable, Projects(durable, e)
    PROVE  durable' = Project(durable, e) /\ replayable'
<1>1. e # NoEvidence
  BY NoEvidenceDistinct, Zenon DEF Evidence
<1> QED
  BY <1>1, Zenon DEF Commit

\* Evidence that is projected by the loop while an observation may be recorded
\* and not yet projected: it will be recorded after that observation.
LEMMA LoopProjects ==
    ASSUME IInv, NEW e \in WorkEvidence, NEW l, Projects(world, e),
           up, ~Unrecorded, world' = Project(world, e), Record(e, l),
           UNCHANGED <<durable, replayable, lapsed, up, obs>>
    PROVE  WorldIsReplay' /\ Decided'
<1> USE DEF IInv
<1>1. /\ world \in Worlds /\ durable \in Worlds
      /\ Unprojected => obs.ev \in Observations
  BY Zenon DEF TypeOK, Control, Unprojected
<1>2. /\ Unrecorded' /\ rec'.ev = e /\ (Unprojected' <=> Unprojected)
      /\ obs' = obs
  BY NoEvidenceDistinct, Zenon DEF Record, Unrecorded, Unprojected
<1>3. ASSUME ~lapsed
      PROVE  /\ replayable /\ Projects(durable, e)
             /\ up => (IF Unprojected THEN Project(world', obs.ev) ELSE world')
                      = Project(durable, e)
  <2>1. CASE up /\ Unprojected
    <3>1. durable = Project(world, obs.ev) /\ replayable
      BY <1>3, <2>1, Zenon DEF WorldIsReplay
    <3>2. Projects(durable, e)
      BY <1>1, <2>1, <3>1, ProjectsLocal, ProjectObservationFields, Zenon
    <3>3. Project(world', obs.ev) = Project(durable, e)
      BY <1>1, <2>1, <3>1, ProjectionsCommute, Zenon
    <3> QED
      BY <2>1, <3>1, <3>2, <3>3, Zenon
  <2>2. CASE up /\ ~Unprojected
    BY <1>3, <2>2, Zenon DEF WorldIsReplay
  <2> QED
    BY <2>1, <2>2, Zenon
<1>4. WorldIsReplay'
  BY <1>2, <1>3, Zenon DEF WorldIsReplay
<1>5. Decided'
  <2> SUFFICES ASSUME up, replayable
               PROVE  LET w == IF Unprojected THEN Project(world', obs.ev) ELSE world'
                      IN  /\ w.cordoned = durable.cordoned
                          /\ w.healthy = durable.healthy
                          /\ w.approval = durable.approval
    BY <1>2, Zenon DEF Decided
  <2>1. /\ world' \in Worlds /\ world'.cordoned = world.cordoned
        /\ world'.healthy = world.healthy /\ world'.approval = world.approval
    BY <1>1, ProjectWorkFields, Zenon
  <2>2. CASE Unprojected
    BY <1>1, <2>1, <2>2, ProjectObservationLocal, Zenon DEF Decided
  <2>3. CASE ~Unprojected
    BY <2>1, <2>3, Zenon DEF Decided
  <2> QED
    BY <2>2, <2>3, Zenon
<1> QED
  BY <1>4, <1>5, Zenon

\* An observation is recorded while evidence of the loop may be projected and
\* not yet recorded.
LEMMA ObservationRecorded ==
    ASSUME IInv, ObserveAppend
    PROVE  WorldIsReplay' /\ Decided'
<1> USE DEF IInv
<1> DEFINE o == obs.ev
<1>1. /\ world \in Worlds /\ durable \in Worlds /\ o \in Observations
      /\ Unrecorded => rec.ev \in WorkEvidence
  BY Zenon DEF TypeOK, Records, Control, Unrecorded, ObserveAppend
<1>2. /\ ~Unprojected /\ Unprojected' /\ obs'.ev = o
      /\ (Unrecorded' <=> Unrecorded) /\ rec' = rec
      /\ UNCHANGED <<world, up, lapsed>> /\ Commit(o)
  BY Zenon DEF ObserveAppend, Unprojected, Unrecorded, TypeOK, Holders, serverVars
<1>3. ASSUME replayable
      PROVE  durable' = Project(durable, o) /\ replayable'
  BY <1>1, <1>2, <1>3, ObservationProjects, CommitProjects, Zenon DEF Evidence
<1>4. replayable' => replayable
  BY <1>2, Zenon DEF Commit
<1>5. WorldIsReplay'
  <2> SUFFICES ASSUME ~lapsed
               PROVE  /\ replayable'
                      /\ Unrecorded => Projects(durable', rec.ev)
                      /\ up => Project(world, o) =
                            (IF Unrecorded THEN Project(durable', rec.ev) ELSE durable')
    BY <1>2, Zenon DEF WorldIsReplay
  <2>1. replayable' /\ durable' = Project(durable, o)
    BY <1>3, Zenon DEF WorldIsReplay
  <2>2. CASE Unrecorded
    <3>1. Projects(durable, rec.ev) /\ (up => world = Project(durable, rec.ev))
      BY <1>2, <2>2, Zenon DEF WorldIsReplay
    <3>2. Projects(durable', rec.ev)
      BY <1>1, <2>1, <3>1, ProjectsLocal, ProjectObservationFields, Zenon
    <3>3. up => Project(world, o) = Project(durable', rec.ev)
      BY <1>1, <2>1, <2>2, <3>1, ProjectionsCommute, Zenon
    <3> QED
      BY <2>1, <2>2, <3>2, <3>3, Zenon
  <2>3. CASE ~Unrecorded
    BY <1>2, <2>1, <2>3, Zenon DEF WorldIsReplay
  <2> QED
    BY <2>2, <2>3, Zenon
<1>6. Decided'
  <2> SUFFICES ASSUME up, replayable'
               PROVE  /\ Project(world, o).cordoned = durable'.cordoned
                      /\ Project(world, o).healthy = durable'.healthy
                      /\ Project(world, o).approval = durable'.approval
    BY <1>2, Zenon DEF Decided
  <2> QED
    BY <1>1, <1>2, <1>3, <1>4, ProjectObservationLocal DEF Decided
<1> QED
  BY <1>5, <1>6, Zenon

\* The observation is projected after it was recorded.
LEMMA ObservationProjected ==
    ASSUME IInv, ObserveProject
    PROVE  WorldIsReplay' /\ Decided'
<1> USE DEF IInv
<1>1. /\ Unprojected /\ world' = Project(world, obs.ev)
      /\ UNCHANGED <<durable, replayable, lapsed, up, rec>>
  BY Zenon DEF ObserveProject, Unprojected, serverVars, logVars
<1>2. ~Unprojected'
  BY ObserveProjectEnds, Zenon DEF Unprojected
<1>3. Unrecorded' <=> Unrecorded
  <2>1. pc' = pc \/ (pc = "observing" /\ pc' = "reconcile")
    BY Zenon DEF ObserveProject, Release, Control
  <2> QED
    BY <1>1, <2>1, Zenon DEF Unrecorded
<1>4. WorldIsReplay'
  BY <1>1, <1>2, <1>3, Zenon DEF WorldIsReplay
<1>5. Decided'
  BY <1>1, <1>2, Zenon DEF Decided
<1> QED
  BY <1>4, <1>5, Zenon

\* The loop's record is committed.
LEMMA LoopRecords ==
    ASSUME IInv, AppendRecord
    PROVE  WorldIsReplay' /\ Decided'
<1> USE DEF IInv
<1> DEFINE e == rec.ev
<1>1. /\ world \in Worlds /\ durable \in Worlds
      /\ Unprojected => obs.ev \in Observations
      /\ e \in WorkEvidence \cup {NoEvidence}
  BY Zenon DEF TypeOK, Records, Control, Unprojected
<1>2. /\ ~Unrecorded' /\ (Unprojected' <=> Unprojected) /\ obs' = obs
      /\ UNCHANGED <<world, up, lapsed>> /\ Commit(e) /\ pc = "append"
  BY Zenon DEF AppendRecord, Unprojected, Unrecorded, IdleRecord, serverVars
<1>3. CASE e = NoEvidence
  <2>1. UNCHANGED <<durable, replayable>> /\ ~Unrecorded
    BY <1>2, <1>3, Zenon DEF Commit, Unrecorded
  <2>2. Quiet
    BY <1>2, <2>1, Zenon DEF Quiet
  <2> QED
    BY <2>2, QuietKeeps, Zenon
<1>4. CASE e \in WorkEvidence
  <2>1. Unrecorded /\ e \in Evidence /\ e # NoEvidence
    BY <1>2, <1>4, NoEvidenceDistinct, Zenon DEF Unrecorded, Evidence
  <2>2. ASSUME ~lapsed
        PROVE  /\ replayable' /\ durable' = Project(durable, e)
               /\ up => (IF Unprojected THEN Project(world, obs.ev) ELSE world)
                        = Project(durable, e)
    <3>1. replayable /\ Projects(durable, e)
      BY <2>1, <2>2, Zenon DEF WorldIsReplay
    <3>2. replayable' /\ durable' = Project(durable, e)
      BY <1>2, <2>1, <3>1, CommitProjects, Zenon
    <3> QED
      BY <2>1, <2>2, <3>2, Zenon DEF WorldIsReplay
  <2>3. WorldIsReplay'
    BY <1>2, <2>2, Zenon DEF WorldIsReplay
  <2>4. replayable' => replayable /\ durable' = Project(durable, e)
    BY <1>2, <2>1, Zenon DEF Commit
  <2>5. Decided'
    <3> SUFFICES ASSUME up, replayable'
                 PROVE  LET w == IF Unprojected THEN Project(world, obs.ev) ELSE world
                        IN  /\ w.cordoned = durable'.cordoned
                            /\ w.healthy = durable'.healthy
                            /\ w.approval = durable'.approval
      BY <1>2, Zenon DEF Decided
    <3>1. /\ durable'.cordoned = durable.cordoned
          /\ durable'.healthy = durable.healthy
          /\ durable'.approval = durable.approval
      BY <1>1, <1>4, <2>4, ProjectWorkFields
    <3> QED
      BY <2>4, <3>1, Zenon DEF Decided
  <2> QED
    BY <2>3, <2>5, Zenon
<1> QED
  BY <1>1, <1>3, <1>4, Zenon

\* The log and the world agree after every step.
LEMMA ReplayStep == IInv /\ [Next]_vars => WorldIsReplay' /\ Decided'
<1> SUFFICES ASSUME IInv, [Next]_vars PROVE WorldIsReplay' /\ Decided'
  BY Zenon
<1> USE DEF IInv
<1>1. CASE Quiet
  BY <1>1, QuietKeeps, Zenon
<1>2. CASE ObserveAppend
  BY <1>2, ObservationRecorded, Zenon
<1>3. CASE ObserveProject
  BY <1>3, ObservationProjected, Zenon
<1>4. CASE AppendRecord
  BY <1>4, LoopRecords, Zenon
<1>5. CASE ObserveWitness
  <2>1. obs.head >= anchor
    BY <1>5, Zenon DEF ObserveWitness, Anchored, TypeOK, Holders
  <2>2. /\ obs' = [obs EXCEPT !.at = "project"] /\ obs.at = "witness"
        /\ UNCHANGED <<world, durable, replayable, lapsed, up, pc, rec>>
    BY <1>5, <2>1, Zenon DEF ObserveWitness, serverVars, logVars
  <2>3. Quiet
    BY <2>2, Zenon DEF Quiet, Unrecorded, Unprojected, TypeOK, Holders
  <2> QED
    BY <2>3, QuietKeeps, Zenon
<1>6. CASE AppendRefused
  <2>1. /\ UNCHANGED <<world, durable, replayable, up, obs>>
        /\ pc = "append" /\ pc' = "witness"
        /\ lapsed' = (lapsed \/ rec.ev # NoEvidence)
    BY <1>6, Zenon DEF AppendRefused, serverVars, logVars
  <2>2. CASE rec.ev = NoEvidence
    <3>1. lapsed' = lapsed
      BY <2>1, <2>2, Zenon DEF TypeOK
    <3>2. Quiet
      BY <2>1, <2>2, <3>1, Zenon DEF Quiet, Unrecorded, Unprojected
    <3> QED
      BY <3>2, QuietKeeps, Zenon
  <2>3. CASE rec.ev # NoEvidence
    <3>1. lapsed'
      BY <2>1, <2>3, Zenon
    <3>2. Unprojected' <=> Unprojected
      BY <2>1, Zenon DEF Unprojected
    <3> QED
      BY <2>1, <3>1, <3>2, Zenon DEF WorldIsReplay, Decided
  <2> QED
    BY <2>2, <2>3, Zenon
<1>7. ASSUME NEW a \in Allocations, Probe(a)
      PROVE  WorldIsReplay' /\ Decided'
  <2>1. /\ pc \in {"refresh", "observe"} /\ ~Unrecorded
        /\ UNCHANGED <<durable, replayable, lapsed, up, obs>>
    BY <1>7, Zenon DEF Probe, Unrecorded, serverVars, logVars
  <2>2. up
    BY <2>1, Zenon DEF Control
  <2>3. CASE UNCHANGED <<world, pc, rec>>
    <3>1. Quiet
      BY <2>1, <2>3, Zenon DEF Quiet, Unrecorded, Unprojected
    <3> QED
      BY <3>1, QuietKeeps, Zenon
  <2>4. ASSUME NEW e \in Measured(a), world' = Project(world, e), Record(e, pc)
        PROVE  WorldIsReplay' /\ Decided'
    <3>1. e \in WorkEvidence /\ Projects(world, e)
      BY Zenon DEF Measured, Projects
    <3> QED
      BY <2>1, <2>2, <2>4, <3>1, LoopProjects, Zenon
  <2> QED
    BY <1>7, <2>3, <2>4, Zenon DEF Probe
<1>8. CASE ProjectEvidence
  <2>1. /\ pc = "project" /\ ~Unrecorded /\ rec.ev \in WorkEvidence /\ up
        /\ UNCHANGED <<durable, replayable, lapsed, up, obs>>
    BY <1>8, Zenon DEF ProjectEvidence, Unrecorded, Control, serverVars, logVars
  <2>2. CASE Projects(world, rec.ev)
    BY <1>8, <2>1, <2>2, LoopProjects, Zenon DEF ProjectEvidence
  <2>3. CASE ~Projects(world, rec.ev)
    <3>1. UNCHANGED world /\ Record(NoEvidence, "witness")
      BY <1>8, <2>3, Zenon DEF ProjectEvidence
    <3>2. Quiet
      BY <2>1, <3>1, Zenon DEF Quiet, Unrecorded, Unprojected, Record
    <3> QED
      BY <3>2, QuietKeeps, Zenon
  <2> QED
    BY <2>2, <2>3, Zenon
<1>9. CASE Crash
  <2>1. ~up' /\ ~Unrecorded' /\ UNCHANGED <<durable, replayable, lapsed>>
    BY <1>9, Zenon DEF Crash, Unrecorded, logVars
  <2> QED
    BY <2>1, Zenon DEF WorldIsReplay, Decided
<1>10. CASE Restart
  <2>1. /\ replayable /\ ~Unrecorded /\ ~Unprojected /\ world' = durable
        /\ UNCHANGED <<durable, replayable, obs, pc, rec>>
    BY <1>10, Zenon DEF Restart, Control, Unrecorded, Unprojected, logVars
  <2>2. ~Unrecorded' /\ ~Unprojected' /\ replayable'
    BY <2>1, Zenon DEF Unrecorded, Unprojected
  <2> QED
    BY <2>1, <2>2, Zenon DEF WorldIsReplay, Decided
<1>11. CASE UNCHANGED vars
  <2>1. Quiet
    BY <1>11, Zenon DEF vars, Quiet, Unrecorded, Unprojected
  <2> QED
    BY <2>1, QuietKeeps, Zenon
<1> QED
  BY <1>1, <1>2, <1>3, <1>4, <1>5, <1>6, <1>7, <1>8, <1>9, <1>10, <1>11,
     QuietSteps, Zenon DEF Next, Handlers, Loop

-----------------------------------------------------------------------------
(* The theorems.                                                            *)

\* The inductive invariant holds when the server starts on an empty log.
LEMMA Initially == Init => IInv
<1> SUFFICES ASSUME Init PROVE IInv
  BY Zenon
<1>1. TypeOK
  <2>1. runtime \in Containers /\ ledger \in SUBSET Keys /\ pc \in Labels
    BY Zenon DEF Init, Containers, Labels
  <2>2. /\ world \in Worlds /\ durable \in Worlds /\ obs \in Holders
        /\ rec \in Records /\ run \in Runs
    BY BaseWorldType, IdleTypes, Zenon DEF Init
  <2>3. up \in BOOLEAN /\ submitted \in BOOLEAN /\ lapsed \in BOOLEAN
        /\ replayable \in BOOLEAN
    BY Zenon DEF Init
  <2> QED
    BY <2>1, <2>2, <2>3, Zenon DEF Init, TypeOK
<1>2. Control
  BY AgentsLength DEF Init, Control, At, MutexFree, IdleRecord, IdleRun
<1>3. Anchored
  BY DEF Init, Anchored, MutexFree
<1>4. WorldIsReplay /\ Decided
  BY Zenon DEF Init, WorldIsReplay, Decided, Unrecorded, Unprojected, MutexFree
<1> QED
  BY <1>1, <1>2, <1>3, <1>4, Zenon DEF IInv

\* The inductive invariant holds throughout.
THEOREM Invariance == Spec => []IInv
<1>1. IInv /\ [Next]_vars => IInv'
  BY TypeStep, ControlStep, AnchoredStep, ReplayStep, Zenon DEF IInv
<1> QED
  BY <1>1, Initially, PTL DEF Spec

\* Every variable keeps its type.
THEOREM TypeCorrect == Spec => []TypeOK
<1>1. IInv => TypeOK
  BY Zenon DEF IInv
<1> QED
  BY <1>1, Invariance, PTL

\* control/engine.go, control/durable.go: whatever the loop, the handlers,
\* crashes and restarts do, the world in memory is what the log replays to,
\* up to the evidence in flight, unless a record of projected evidence was
\* refused.
THEOREM ProjectionIsReplay == Spec => []WorldIsReplay
<1>1. IInv => WorldIsReplay
  BY Zenon DEF IInv
<1> QED
  BY <1>1, Invariance, PTL

\* server/server.go appendObservation: what operators decided survives a
\* restart, whatever records the loop loses.
THEOREM DecisionsSurvive == Spec => []DecisionsDurable
<1>1. IInv => DecisionsDurable
  BY Zenon DEF IInv, Decided, DecisionsDurable
<1> QED
  BY <1>1, Invariance, PTL

\* eventlog/anchor.go: the server's own log always passes its anchor's check.
THEOREM AnchorNeverAhead == Spec => []AnchorSound
<1>1. IInv => AnchorSound
  BY Zenon DEF IInv, Anchored, AnchorSound
<1> QED
  BY <1>1, Invariance, PTL

-----------------------------------------------------------------------------
(* Plans the kernel authorizes.                                             *)

\* The simulated worlds begin with the observed one, and each action leads from
\* one to the next.
LEMMA SimulationForms ==
    ASSUME LeastMembers, NEW w, NEW p, Len(p) \in Nat
    PROVE  /\ Simulation(w, p)[0] = w
           /\ \A k \in 1 .. Len(p) :
                Simulation(w, p)[k] = SimulateAction(Simulation(w, p)[k - 1], p[k])
<1> DEFINE Good(f, n) == f = [k \in 0 .. n |->
                                IF k = 0 THEN w ELSE SimulateAction(f[k - 1], p[k])]
           bad == {n \in Nat : ~ \E f : Good(f, n)}
<1>1. Good([k \in {0} |-> w], 0)
  <2>1. 0 .. 0 = {0}
    OBVIOUS
  <2> QED BY <2>1, Zenon
<1>2. ASSUME NEW n \in Nat, NEW f, Good(f, n)
      PROVE  \E h : Good(h, n + 1)
  <2> DEFINE h == [k \in 0 .. n + 1 |-> IF k = n + 1 THEN SimulateAction(f[n], p[n + 1]) ELSE f[k]]
  <2>1. ASSUME NEW k \in 0 .. n + 1
        PROVE  h[k] = IF k = 0 THEN w ELSE SimulateAction(h[k - 1], p[k])
    <3>1. CASE k = n + 1
      <4>1. h[n] = f[n] /\ h[n + 1] = SimulateAction(f[n], p[n + 1]) /\ k # 0 /\ k - 1 = n
        BY <3>1
      <4> QED BY <3>1, <4>1, Zenon
    <3>2. CASE k # n + 1
      <4>1. k \in 0 .. n /\ h[k] = f[k] /\ (k # 0 => k - 1 \in 0 .. n /\ h[k - 1] = f[k - 1])
        BY <3>2
      <4>2. f[k] = IF k = 0 THEN w ELSE SimulateAction(f[k - 1], p[k])
        BY <1>2, <4>1, Zenon
      <4> HIDE DEF h
      <4> QED BY <4>1, <4>2, Zenon
    <3> QED BY <3>1, <3>2, Zenon
  <2>2. Good(h, n + 1)
    BY <2>1, Zenon
  <2> QED BY <2>2, Zenon
<1>3. bad = {}
  <2> SUFFICES ASSUME bad # {} PROVE FALSE
    BY Zenon
  <2>1. bad \in SUBSET Nat
    BY Zenon
  <2> HIDE DEF bad
  <2>2. PICK m \in bad : \A y \in bad : m <= y
    BY <2>1, Zenon DEF LeastMembers
  <2>3. m \in Nat /\ ~ \E f : Good(f, m)
    BY <2>2, Zenon DEF bad
  <2>4. m # 0
    BY <1>1, <2>3, Zenon
  <2>5. m - 1 \in Nat /\ m - 1 \notin bad /\ (m - 1) + 1 = m
    BY <2>2, <2>3, <2>4
  <2>6. PICK f : Good(f, m - 1)
    BY <2>5, Zenon DEF bad
  <2>7. \E h : Good(h, (m - 1) + 1)
    BY <1>2, <2>5, <2>6, Zenon
  <2> QED BY <2>3, <2>5, <2>7, Zenon
<1>4. \E f : Good(f, Len(p))
  BY <1>3, Zenon
<1>5. Simulation(w, p) = CHOOSE f : Good(f, Len(p))
  BY Zenon DEF Simulation
<1>6. Good(Simulation(w, p), Len(p))
  BY <1>4, <1>5, Zenon
<1> QED BY <1>6

\* The phase an action is assumed to leave.
PhaseAfter(kind) ==
    CASE kind = "create" -> "created"
      [] kind = "start"  -> "running"
      [] kind = "stop"   -> "stopped"
      [] kind = "delete" -> "absent"

\* World v differs from w in the phase of the action's allocation.
Leaves(w, act, v) ==
    /\ v \in Worlds
    /\ act.kind = "cordon" => \A a \in Allocations : v.phase[a] = w.phase[a]
    /\ act.kind # "cordon" => \A a \in Allocations :
          v.phase[a] = IF a = act.target THEN PhaseAfter(act.kind) ELSE w.phase[a]

LEMMA SimulateForms ==
    ASSUME NEW w \in Worlds, NEW act \in Actions, NEW v, v = SimulateAction(w, act)
    PROVE  Leaves(w, act, v)
<1> SUFFICES /\ v \in Worlds
             /\ act.kind = "cordon" => \A a \in Allocations : v.phase[a] = w.phase[a]
             /\ act.kind # "cordon" => \A a \in Allocations :
                   v.phase[a] = IF a = act.target THEN PhaseAfter(act.kind) ELSE w.phase[a]
  BY Zenon DEF Leaves
<1>1. CASE act \in WorkActions
  <2>1. CASE act.kind = "create"
    BY <1>1, <2>1, Zenon DEF SimulateAction, WorkActions, Worlds, Phases, PhaseAfter
  <2>2. CASE act.kind = "start"
    BY <1>1, <2>2, Zenon DEF SimulateAction, WorkActions, Worlds, Phases, PhaseAfter
  <2>3. CASE act.kind = "stop"
    BY <1>1, <2>3, Zenon DEF SimulateAction, WorkActions, Worlds, Phases, PhaseAfter
  <2>4. CASE act.kind = "delete"
    BY <1>1, <2>4, Zenon DEF SimulateAction, WorkActions, Worlds, Phases, PhaseAfter
  <2> QED BY <1>1, <2>1, <2>2, <2>3, <2>4, Zenon DEF WorkActions
<1>2. CASE act \in [kind : {"cordon"}, target : Nodes, node : {NoNode}]
  BY <1>2, Zenon DEF SimulateAction, Worlds
<1> QED BY <1>1, <1>2, Zenon DEF Actions

\* One of the first k actions of a plan does x to allocation a.
Does(p, k, x, a) == \E j \in 1 .. k : p[j].kind = x /\ p[j].target = a

\* A plan of the placement agent, and one of the others (Grants).
Adds(p) == \A i \in 1 .. Len(p) : p[i].kind \in {"create", "start"}
Removes(p) == \A i \in 1 .. Len(p) : p[i].kind \in {"stop", "delete", "cordon"}

\* The phase of an allocation after k actions of an authorized plan.
PhaseAt(w, p, k, a) ==
    IF Adds(p)
      THEN IF Does(p, k, "start", a) THEN "running"
           ELSE IF Does(p, k, "create", a) THEN "created" ELSE w.phase[a]
      ELSE IF Does(p, k, "delete", a) THEN "absent"
           ELSE IF Does(p, k, "stop", a) THEN "stopped" ELSE w.phase[a]

LEMMA DoesForms ==
    ASSUME NEW p, NEW k \in Nat, NEW x, NEW a
    PROVE  /\ ~Does(p, 0, x, a)
           /\ Does(p, k + 1, x, a) <=>
                 Does(p, k, x, a) \/ (p[k + 1].kind = x /\ p[k + 1].target = a)
<1>1. 1 .. 0 = {} /\ 1 .. (k + 1) = (1 .. k) \cup {k + 1}
  OBVIOUS
<1> QED BY <1>1, Zenon DEF Does

LEMMA SimulatedPhases ==
    ASSUME LeastMembers, NEW w \in Worlds, NEW p \in Seq(Actions), Authorized(w, p), Adds(p) \/ Removes(p)
    PROVE  \A k \in 0 .. Len(p) :
              /\ Simulation(w, p)[k] \in Worlds
              /\ \A a \in Allocations : Simulation(w, p)[k].phase[a] = PhaseAt(w, p, k, a)
<1> DEFINE sim == Simulation(w, p)
           Good(k) == /\ sim[k] \in Worlds
                      /\ \A a \in Allocations : sim[k].phase[a] = PhaseAt(w, p, k, a)
           bad == {k \in 0 .. Len(p) : ~Good(k)}
<1>0. Len(p) \in Nat /\ \A k \in 1 .. Len(p) : p[k] \in Actions
  OBVIOUS
<1>1. sim[0] = w /\ \A k \in 1 .. Len(p) : sim[k] = SimulateAction(sim[k - 1], p[k])
  BY <1>0, SimulationForms
<1>2. \A k \in 1 .. Len(p) : ValidateAction(sim[k - 1], p[k])
  BY Zenon DEF Authorized
<1> HIDE DEF sim
<1>3. Good(0)
  BY <1>1, DoesForms, Zenon DEF PhaseAt
<1>4. ASSUME NEW k \in 1 .. Len(p), Good(k - 1) PROVE Good(k)
  <2> DEFINE act == p[k]
  <2>1. /\ act \in Actions /\ sim[k - 1] \in Worlds /\ sim[k] = SimulateAction(sim[k - 1], act)
        /\ ValidateAction(sim[k - 1], act) /\ k - 1 \in Nat /\ (k - 1) + 1 = k
    BY <1>0, <1>1, <1>2, <1>4
  <2>2. act.kind \in IF Adds(p) THEN {"create", "start"} ELSE {"stop", "delete", "cordon"}
    BY Zenon DEF Adds, Removes
  <2>3. ASSUME NEW x, NEW a
        PROVE  Does(p, k, x, a) <=> Does(p, k - 1, x, a) \/ (act.kind = x /\ act.target = a)
    BY <2>1, DoesForms
  <2> HIDE DEF act
  <2>4. /\ sim[k] \in Worlds
        /\ act.kind = "cordon" => \A a \in Allocations : sim[k].phase[a] = sim[k - 1].phase[a]
        /\ act.kind # "cordon" => \A a \in Allocations :
              sim[k].phase[a] = IF a = act.target THEN PhaseAfter(act.kind)
                                ELSE sim[k - 1].phase[a]
    <3>1. Leaves(sim[k - 1], act, sim[k])
      BY <2>1, SimulateForms, Zenon
    <3> QED BY <3>1, Zenon DEF Leaves
  <2>5. ASSUME NEW a \in Allocations PROVE sim[k].phase[a] = PhaseAt(w, p, k, a)
    <3>1. sim[k - 1].phase[a] = PhaseAt(w, p, k - 1, a)
      BY <1>4, Zenon
    <3>2. CASE act.kind = "cordon"
      <4>1. sim[k].phase[a] = sim[k - 1].phase[a] /\ ~Adds(p)
        BY <2>2, <2>4, <3>2, Zenon
      <4>2. \A x \in {"stop", "delete"} : Does(p, k, x, a) <=> Does(p, k - 1, x, a)
        BY <2>3, <3>2, Zenon
      <4>3. PhaseAt(w, p, k, a) = PhaseAt(w, p, k - 1, a)
        BY <4>1, <4>2, Zenon DEF PhaseAt
      <4> QED BY <3>1, <4>1, <4>3, Zenon
    <3>3. CASE act.kind # "cordon" /\ act.target # a
      <4>1. sim[k].phase[a] = sim[k - 1].phase[a]
        BY <2>4, <3>3, Zenon
      <4>2. \A x \in {"create", "start", "stop", "delete"} :
               Does(p, k, x, a) <=> Does(p, k - 1, x, a)
        BY <2>3, <3>3, Zenon
      <4>3. PhaseAt(w, p, k, a) = PhaseAt(w, p, k - 1, a)
        BY <4>2, Zenon DEF PhaseAt
      <4> QED BY <3>1, <4>1, <4>3, Zenon
    <3>4. CASE act.kind # "cordon" /\ act.target = a
      <4>1. sim[k].phase[a] = PhaseAfter(act.kind)
        BY <2>4, <3>4, Zenon
      <4>2. CASE Adds(p)
        BY <2>1, <2>2, <2>3, <3>1, <3>4, <4>1, <4>2, Zenon
           DEF PhaseAt, ValidateAction, ValidateCreate, PhaseAfter
      <4>3. CASE ~Adds(p)
        BY <2>1, <2>2, <2>3, <3>1, <3>4, <4>1, <4>3, Zenon DEF PhaseAt, ValidateAction, PhaseAfter
      <4> QED BY <4>2, <4>3, Zenon
    <3> QED BY <3>2, <3>3, <3>4, Zenon
  <2> QED BY <2>4, <2>5, Zenon
<1>5. bad = {}
  <2> SUFFICES ASSUME bad # {} PROVE FALSE
    BY Zenon
  <2>1. bad \in SUBSET Nat
    BY <1>0
  <2> HIDE DEF bad
  <2>2. PICK m \in bad : \A y \in bad : m <= y
    BY <2>1, Zenon DEF LeastMembers
  <2>3. m \in 0 .. Len(p) /\ ~Good(m)
    BY <2>2, Zenon DEF bad
  <2> HIDE DEF Good
  <2>4. m # 0
    BY <1>3, <2>3, Zenon
  <2>5. m \in 1 .. Len(p) /\ m - 1 \in 0 .. Len(p) /\ m - 1 \notin bad
    BY <1>0, <2>2, <2>3, <2>4
  <2>6. Good(m - 1)
    BY <2>5, Zenon DEF bad
  <2> QED BY <1>4, <2>3, <2>5, <2>6, Zenon
<1> QED BY <1>5, Zenon DEF sim

\* An allocation that exists has a node.
Housed(w) == \A a \in Allocations : (w.phase[a] = "absent") <=> (w.node[a] = NoNode)

\* What the kernel does not check of a plan: it is within one agent's grants, and
\* what is sent to a node is sent where the allocation is or will be.
Sent(w, p) ==
    /\ Adds(p) \/ Removes(p)
    /\ \A i \in 1 .. Len(p) : p[i].node # NoNode /\ p[i].kind # "create" =>
          \/ w.node[p[i].target] \in {NoNode, p[i].node}
          \/ \E j \in 1 .. i - 1 : p[j].kind = "create" /\ p[j].target = p[i].target
    /\ \A i, j \in 1 .. Len(p) : p[i].target = p[j].target => p[i].node = p[j].node

\* The world an action is carried out in.
Suits(w, act) ==
    /\ act.kind = "create" => w.phase[act.target] = "absent"
    /\ act.kind = "start" => w.phase[act.target] = "created"
    /\ act.kind = "stop" => w.phase[act.target] = "running"
    /\ act.kind = "delete" => w.phase[act.target] \in {"created", "stopped"}
    /\ act.kind # "create" => w.node[act.target] = act.node

Follow(first, second) ==
    \/ first.kind = "create" /\ second.kind = "start"
    \/ first.kind = "stop" /\ second.kind = "delete"

\* A plan that can be carried out one action after the other: each finds the
\* world that suits it, or follows the one that leads there.
Fits(w, p) ==
    \A i \in 1 .. Len(p) : p[i].node # NoNode =>
       /\ (\A j \in 1 .. i - 1 : p[j].target # p[i].target) => Suits(w, p[i])
       /\ \A j \in 1 .. i - 1 : p[j].target = p[i].target =>
             p[j].node = p[i].node /\ Follow(p[j], p[i])

\* An action that is sent to a node is about an allocation.
LEMMA SentWork ==
    ASSUME NEW act \in Actions, act.node # NoNode
    PROVE  /\ act.target \in Allocations /\ act.node \in Nodes
           /\ act.kind \in {"create", "start", "stop", "delete"}
  BY Zenon DEF Actions, WorkActions

\* Kernel.Authorize: an authorized plan fits the world it was authorized in.
LEMMA AuthorizedFits ==
    ASSUME LeastMembers, NEW w \in Worlds, NEW p \in Seq(Actions), Authorized(w, p), Sent(w, p), Housed(w)
    PROVE  Fits(w, p)
<1> SUFFICES ASSUME NEW i \in 1 .. Len(p), p[i].node # NoNode
             PROVE  /\ (\A j \in 1 .. i - 1 : p[j].target # p[i].target) => Suits(w, p[i])
                    /\ \A j \in 1 .. i - 1 : p[j].target = p[i].target =>
                          p[j].node = p[i].node /\ Follow(p[j], p[i])
  BY Zenon DEF Fits
<1> DEFINE sim == Simulation(w, p)
           a == p[i].target
           here == {j \in 1 .. i - 1 : p[j].target = a}
<1>1. /\ Len(p) \in Nat /\ i - 1 \in 0 .. Len(p) /\ p[i] \in Actions
      /\ \A j \in here : j \in 1 .. Len(p)
  OBVIOUS
<1>2. a \in Allocations /\ p[i].kind \in {"create", "start", "stop", "delete"}
  BY <1>1, SentWork, Zenon
<1>3. Adds(p) \/ Removes(p)
  BY Zenon DEF Sent
<1>4. sim[i - 1].phase[a] = PhaseAt(w, p, i - 1, a) /\ ValidateAction(sim[i - 1], p[i])
  <2>1. sim[i - 1].phase[a] = PhaseAt(w, p, i - 1, a)
    BY <1>1, <1>2, <1>3, SimulatedPhases, Zenon
  <2>2. ValidateAction(sim[i - 1], p[i])
    BY Zenon DEF Authorized
  <2> QED BY <2>1, <2>2, Zenon
<1>5. \A j \in here : p[j].node = p[i].node
  BY <1>1, Zenon DEF Sent
<1>6. \A x : Does(p, i - 1, x, a) <=> \E j \in here : p[j].kind = x
  BY Zenon DEF Does
<1>7. p[i].kind # "create" /\ here = {} => w.node[a] \in {NoNode, p[i].node}
  BY Zenon DEF Sent
<1> HIDE DEF sim, a, here
<1>8. CASE Adds(p)
  <2>1. p[i].kind \in {"create", "start"} /\ \A j \in here : p[j].kind \in {"create", "start"}
    BY <1>1, <1>8, Zenon DEF Adds
  <2>2. CASE p[i].kind = "create"
    <3>1. PhaseAt(w, p, i - 1, a) = "absent"
      BY <1>4, <2>2, Zenon DEF ValidateAction, ValidateCreate, a
    <3>2. here = {} /\ w.phase[a] = "absent"
      BY <1>6, <1>8, <2>1, <3>1 DEF PhaseAt
    <3> QED BY <2>2, <3>2, Zenon DEF Suits, a, here
  <2>3. CASE p[i].kind = "start"
    <3>1. PhaseAt(w, p, i - 1, a) = "created"
      BY <1>4, <2>3, Zenon DEF ValidateAction, a
    <3>2. \A j \in here : p[j].kind = "create"
      BY <1>6, <1>8, <2>1, <3>1, Zenon DEF PhaseAt
    <3>3. here = {} => w.phase[a] = "created"
      BY <1>6, <1>8, <3>1, Zenon DEF PhaseAt
    <3>4. here = {} => w.node[a] = p[i].node
      BY <1>2, <1>7, <2>3, <3>3, Zenon DEF Housed
    <3> QED BY <1>5, <2>3, <3>2, <3>3, <3>4, Zenon DEF Suits, Follow, a, here
  <2> QED BY <2>1, <2>2, <2>3, Zenon
<1>9. CASE ~Adds(p)
  <2>1. p[i].kind \in {"stop", "delete"} /\ \A j \in here : p[j].kind \in {"stop", "delete", "cordon"}
    BY <1>1, <1>2, <1>3, <1>9, Zenon DEF Removes
  <2>0. \A j \in here : p[j].kind # "cordon"
    BY <1>1, <1>5 DEF Actions, WorkActions
  <2>2. CASE p[i].kind = "stop"
    <3>1. PhaseAt(w, p, i - 1, a) = "running"
      BY <1>4, <2>2, Zenon DEF ValidateAction, a
    <3>2. here = {} /\ w.phase[a] = "running"
      BY <1>6, <1>9, <2>0, <2>1, <3>1 DEF PhaseAt
    <3>3. w.node[a] = p[i].node
      BY <1>2, <1>7, <2>2, <3>2, Zenon DEF Housed
    <3> QED BY <2>2, <3>2, <3>3, Zenon DEF Suits, a, here
  <2>3. CASE p[i].kind = "delete"
    <3>1. PhaseAt(w, p, i - 1, a) \in {"created", "stopped"}
      BY <1>4, <2>3, Zenon DEF ValidateAction, a
    <3>2. \A j \in here : p[j].kind = "stop"
      BY <1>6, <1>9, <2>0, <2>1, <3>1, Zenon DEF PhaseAt
    <3>3. here = {} => w.phase[a] \in {"created", "stopped"}
      BY <1>6, <1>9, <3>1, Zenon DEF PhaseAt
    <3>4. here = {} => w.node[a] = p[i].node
      BY <1>2, <1>7, <2>3, <3>3, Zenon DEF Housed
    <3> QED BY <1>5, <2>3, <3>2, <3>3, <3>4, Zenon DEF Suits, Follow, a, here
  <2> QED BY <2>1, <2>2, <2>3, Zenon
<1> QED BY <1>8, <1>9, Zenon
\* The phase and the node that evidence about an allocation leaves it in.
PhaseProjected(w, e) ==
    CASE e.kind = "created" -> IF w.phase[e.target] = "absent" THEN "created"
                                                               ELSE w.phase[e.target]
      [] e.kind = "running" -> "running"
      [] e.kind = "stopped" -> "stopped"
      [] e.kind = "deleted" -> "absent"
      [] OTHER -> w.phase[e.target]

NodeProjected(w, e) ==
    CASE e.kind = "created" -> IF w.phase[e.target] = "absent" THEN e.node
                                                               ELSE w.node[e.target]
      [] e.kind = "deleted" -> NoNode
      [] OTHER -> w.node[e.target]

\* Evidence about an allocation changes that allocation only.
LEMMA WorkProjected ==
    ASSUME NEW w \in Worlds, NEW e \in WorkEvidence, NEW v, v = Project(w, e)
    PROVE  /\ v \in Worlds /\ v.revision = w.revision + 1
           /\ \A a \in Allocations :
                /\ v.phase[a] = IF a = e.target THEN PhaseProjected(w, e) ELSE w.phase[a]
                /\ v.node[a] = IF a = e.target THEN NodeProjected(w, e) ELSE w.node[a]
<1> DEFINE u == ProjectWork(w, e)
<1>1. e.kind \in WorkKinds
  BY KindsDisjoint, Zenon
<1>2. /\ u \in Worlds
      /\ \A a \in Allocations :
           /\ u.phase[a] = IF a = e.target THEN PhaseProjected(w, e) ELSE w.phase[a]
           /\ u.node[a] = IF a = e.target THEN NodeProjected(w, e) ELSE w.node[a]
  <2>1. CASE e.kind = "created"
    BY <2>1, Zenon DEF ProjectWork, ProjectCreated, Worlds, WorkEvidence, Phases, PhaseProjected, NodeProjected
  <2>2. CASE e.kind = "running"
    BY <2>2, Zenon DEF ProjectWork, Worlds, WorkEvidence, Phases, PhaseProjected, NodeProjected
  <2>3. CASE e.kind = "stopped"
    BY <2>3, Zenon DEF ProjectWork, Worlds, WorkEvidence, Phases, PhaseProjected, NodeProjected
  <2>4. CASE e.kind = "deleted"
    BY <2>4, Zenon DEF ProjectWork, Worlds, WorkEvidence, Phases, PhaseProjected, NodeProjected
  <2>5. CASE e.kind \in {"ready", "unready"}
    BY <2>5, Zenon DEF ProjectWork, Worlds, WorkEvidence, Phases, PhaseProjected, NodeProjected
  <2> QED BY <1>1, <2>1, <2>2, <2>3, <2>4, <2>5, Zenon DEF WorkKinds
<1>3. v = [u EXCEPT !.revision = w.revision + 1]
  BY <1>1, Zenon DEF Project
<1> HIDE DEF u
<1> QED BY <1>2, <1>3 DEF Worlds

\* Whether a plan fits depends on the phases and the nodes only.
LEMMA FitsLocal ==
    ASSUME NEW w, NEW v, NEW p, w.phase = v.phase, w.node = v.node, Fits(w, p)
    PROVE  Fits(v, p)
  BY Zenon DEF Fits, Suits

\* The rest of a plan fits the world that its first action leads to.
LEMMA TailFits ==
    ASSUME NEW w \in Worlds, NEW p \in Seq(Actions), p # <<>>, Fits(w, p), Head(p).node \in Nodes
    PROVE  Fits(Project(w, EvidenceOf(Head(p))), Tail(p))
<1> DEFINE act == Head(p)
           v == Project(w, EvidenceOf(act))
           q == Tail(p)
<1>1. /\ act = p[1] /\ act \in Actions /\ 1 \in 1 .. Len(p) /\ act.node # NoNode
      /\ q \in Seq(Actions) /\ Len(q) = Len(p) - 1 /\ Len(p) \in Nat
      /\ \A i \in 1 .. Len(q) : i + 1 \in 1 .. Len(p) /\ q[i] = p[i + 1]
  BY WorldAssumption
<1>2. /\ act.target \in Allocations /\ act.node \in Nodes
      /\ act.kind \in {"create", "start", "stop", "delete"}
  BY <1>1, SentWork, Zenon
<1>3. EvidenceOf(act) \in WorkEvidence
  BY <1>2, Zenon DEF EvidenceOf, WorkEvidence, WorkKinds
<1>4. Suits(w, act)
  BY <1>1 DEF Fits
<1>5. \A a \in Allocations : a # act.target => v.phase[a] = w.phase[a] /\ v.node[a] = w.node[a]
  <2>1. EvidenceOf(act).target = act.target
    BY Zenon DEF EvidenceOf
  <2> QED BY <1>3, <2>1, WorkProjected
<1>6. /\ act.kind = "create" => v.phase[act.target] = "created" /\ v.node[act.target] = act.node
      /\ act.kind = "stop" => v.phase[act.target] = "stopped" /\ v.node[act.target] = act.node
  <2> DEFINE e == EvidenceOf(act)
  <2>1. /\ e.target = act.target /\ e.node = act.node
        /\ act.kind = "create" => e.kind = "created"
        /\ act.kind = "stop" => e.kind = "stopped"
    BY Zenon DEF EvidenceOf
  <2> HIDE DEF e, act
  <2>2. v.phase[e.target] = PhaseProjected(w, e) /\ v.node[e.target] = NodeProjected(w, e)
    BY <1>2, <1>3, <2>1, WorkProjected DEF e
  <2> HIDE DEF v
  <2> QED BY <1>4, <2>1, <2>2, Zenon DEF PhaseProjected, NodeProjected, Suits
<1> SUFFICES ASSUME NEW i \in 1 .. Len(q), q[i].node # NoNode
             PROVE  /\ (\A j \in 1 .. i - 1 : q[j].target # q[i].target) => Suits(v, q[i])
                    /\ \A j \in 1 .. i - 1 : q[j].target = q[i].target =>
                          q[j].node = q[i].node /\ Follow(q[j], q[i])
  BY Zenon DEF Fits
<1> HIDE DEF act, v, q
<1>7. i + 1 \in 1 .. Len(p) /\ q[i] = p[i + 1] /\ q[i] \in Actions
  BY <1>1
<1>8. q[i].target \in Allocations
  BY <1>7, SentWork, Zenon
<1>9. ASSUME NEW j \in 1 .. (i + 1) - 1, p[j].target = q[i].target
      PROVE  p[j].node = q[i].node /\ Follow(p[j], q[i])
  BY <1>7, <1>9, Zenon DEF Fits
<1>10. ASSUME NEW j \in 1 .. i - 1, q[j].target = q[i].target
       PROVE  q[j].node = q[i].node /\ Follow(q[j], q[i])
  <2>1. j \in 1 .. Len(q) /\ j + 1 \in 1 .. (i + 1) - 1
    BY <1>1
  <2> QED BY <1>1, <1>9, <1>10, <2>1, Zenon
<1>11. ASSUME \A j \in 1 .. i - 1 : q[j].target # q[i].target
       PROVE  Suits(v, q[i])
  <2>1. CASE act.target = q[i].target
    <3>1. 1 \in 1 .. (i + 1) - 1
      OBVIOUS
    <3>2. act.node = q[i].node /\ Follow(act, q[i])
      BY <1>1, <1>9, <2>1, <3>1, Zenon
    <3> QED BY <1>6, <2>1, <3>2, Zenon DEF Follow, Suits
  <2>2. CASE act.target # q[i].target
    <3>1. ASSUME NEW j \in 1 .. (i + 1) - 1 PROVE p[j].target # q[i].target
      <4>1. CASE j = 1
        BY <1>1, <2>2, <4>1, Zenon
      <4>2. CASE j # 1
        <5>1. j - 1 \in 1 .. i - 1 /\ j - 1 \in 1 .. Len(q) /\ (j - 1) + 1 = j
          BY <1>1, <4>2
        <5>2. q[j - 1] = p[j]
          BY <1>1, <5>1, Zenon
        <5> QED BY <1>11, <5>1, <5>2, Zenon
      <4> QED BY <4>1, <4>2, Zenon
    <3>2. Suits(w, q[i])
      BY <1>7, <3>1, Zenon DEF Fits
    <3>3. v.phase[q[i].target] = w.phase[q[i].target] /\ v.node[q[i].target] = w.node[q[i].target]
      BY <1>5, <1>8, <2>2, Zenon
    <3> QED BY <3>2, <3>3, Zenon DEF Suits
  <2> QED BY <2>1, <2>2, Zenon
<1> QED BY <1>10, <1>11, Zenon

-----------------------------------------------------------------------------
(* At most one incarnation of an allocation, when no record is refused: no  *)
(* append fails, and without operators no handler takes a sequence number   *)
(* the loop has reserved.                                                   *)

\* Every record gets the sequence number it reserved.
Calm ==
    /\ ~lapsed
    /\ obs.at # "free" => obs.by = "loop"
    /\ pc = "append" => rec.seq = count + 1
    /\ obs.at = "append" => obs.seq = count + 1

\* What runs is where the log has it, and the log knows it was created.
Located ==
    \A n \in Nodes : \A a \in Allocations :
        runtime[n][a] = "running" =>
            durable.node[a] = n /\ durable.phase[a] \in {"created", "running"}

\* A node that answers a request of the current revision from its ledger is
\* not running what it was asked to stop or to delete.
Kept ==
    \A k \in ledger :
        /\ k[3] <= durable.revision
        /\ k[3] = durable.revision /\ k[4] = "stop" =>
               durable.phase[k[5]] = "running" /\ runtime[k[1]][k[5]] # "running"
        /\ k[3] = durable.revision /\ k[4] = "delete" =>
               durable.phase[k[5]] \in {"created", "stopped"} /\ runtime[k[1]][k[5]] = "absent"

Stored == Housed(durable) /\ Located /\ Kept

\* Evidence that an allocation was stopped or deleted is true until recorded.
Silent ==
    (pc = "project" \/ Unrecorded) /\ rec.ev.kind \in {"stopped", "deleted"} =>
        \A n \in Nodes : runtime[n][rec.ev.target] # "running"

\* The kernel judges a plan against the world the log replays to.
Judged ==
    At("authorize") =>
        /\ pc # "authorize" => rec.ev = NoEvidence
        /\ run.snap.revision = durable.revision
        /\ run.snap.phase = durable.phase /\ run.snap.node = durable.node
        /\ Sent(run.snap, run.plan)

\* The world the log will replay to once the record in progress is appended.
Ahead == IF Unrecorded THEN Project(durable, rec.ev) ELSE durable

Executing == At("execute") \/ At("dispatch") \/ pc = "project"

\* What is left of the plan fits that world, and a stop or delete of it that is
\* answered from the ledger is still true.
Underway ==
    Executing =>
        /\ run.snap.revision <= durable.revision
        /\ Fits(Ahead, run.plan)
        /\ \A i \in 1 .. Len(run.plan) :
              LET act == run.plan[i]
              IN  act.kind \in {"stop", "delete"} /\ act.node # NoNode /\ Key(act) \in ledger =>
                      runtime[act.node][act.target] # "running"
        /\ At("dispatch") => ~Unrecorded
        /\ pc = "project" => rec.ev = EvidenceOf(Head(run.plan)) /\ Head(run.plan).node \in Nodes

Flow == Silent /\ Judged /\ Underway

SInv == IInv /\ Calm /\ Stored /\ Flow

\* A plan in which every start follows the creation of the same allocation.
Opening(p) ==
    /\ Adds(p)
    /\ \A k \in 1 .. Len(p) : p[k].kind # "create" =>
          \E j \in 1 .. k - 1 : p[j].kind = "create" /\ p[j].target = p[k].target
    /\ \A k, j \in 1 .. Len(p) : p[k].target = p[j].target => p[k].node = p[j].node

\* A plan that names no node to send its removals to.
Unsent(p) == Removes(p) /\ \A k \in 1 .. Len(p) : p[k].node = NoNode

\* What the remediation agent proposes reaches no node (control/remediation.go).
LEMMA RemediationForms ==
    ASSUME NEW w, NEW q \in RemediationPlans(w)
    PROVE  Unsent(q)
<1>1. \A a : Unsent(<<Step("cordon", a, NoNode)>>)
  BY DEF Unsent, Removes, Step
<1>2. \A a : Unsent(<<Step("delete", a, NoNode)>>)
  BY DEF Unsent, Removes, Step
<1>3. \A a : Unsent(<<Step("stop", a, NoNode), Step("delete", a, NoNode)>>)
  BY DEF Unsent, Removes, Step
<1>4. Unsent(<<>>)
  BY DEF Unsent, Removes
<1> QED BY <1>1, <1>2, <1>3, <1>4, Zenon DEF RemediationPlans

\* The placement agent creates each allocation it starts (control/agents.go).
LEMMA PlacementForms ==
    ASSUME NEW w, NEW q \in PlacementPlans(w)
    PROVE  Opening(q)
<1>0. Opening(<<>>)
  BY DEF Opening, Adds
<1> DEFINE open == {a \in Allocations : w.phase[a] \in {"absent", "stopped"}}
           one(a, n) == <<Step("create", a, n), Step("start", a, n)>>
           two(a, n, b, m) == <<Step("create", a, n), Step("start", a, n),
                                Step("create", b, m), Step("start", b, m)>>
           pairs(a, b) == {s \o t : s \in Place(a, w), t \in Place(b, w)}
           batch(a) == IF open = {a} THEN Place(a, w)
                       ELSE UNION {pairs(a, b) : b \in open \ {a}}
<1>1. \A a, n : Opening(one(a, n))
  BY DEF Opening, Adds, Step
<1>2. ASSUME NEW a, NEW n, NEW b, NEW m, a # b PROVE Opening(two(a, n, b, m))
  <2> DEFINE s == two(a, n, b, m)
  <2>1. /\ Len(s) = 4 /\ 1 .. 4 = {1, 2, 3, 4}
        /\ s[1] = Step("create", a, n) /\ s[2] = Step("start", a, n)
        /\ s[3] = Step("create", b, m) /\ s[4] = Step("start", b, m)
    OBVIOUS
  <2> HIDE DEF s
  <2>2. Adds(s)
    BY <2>1 DEF Adds, Step
  <2>3. \A k \in 1 .. 4 : s[k].kind # "create" =>
           \E j \in 1 .. k - 1 : s[j].kind = "create" /\ s[j].target = s[k].target
    <3>1. ASSUME NEW k \in {2, 4}
          PROVE  \E j \in 1 .. k - 1 : s[j].kind = "create" /\ s[j].target = s[k].target
      <4>1. k - 1 \in 1 .. k - 1 /\ k - 1 \in {1, 3}
        OBVIOUS
      <4>2. s[k - 1].kind = "create" /\ s[k - 1].target = s[k].target
        BY <2>1 DEF Step
      <4> QED BY <4>1, <4>2, Zenon
    <3>2. s[1].kind = "create" /\ s[3].kind = "create"
      BY <2>1 DEF Step
    <3> QED BY <2>1, <3>1, <3>2, Zenon
  <2>4. \A k, j \in 1 .. 4 : s[k].target = s[j].target => s[k].node = s[j].node
    BY <1>2, <2>1 DEF Step
  <2>5. Opening(s)
    BY <2>1, <2>2, <2>3, <2>4, Zenon DEF Opening
  <2> QED BY <2>5, Zenon DEF s
<1>3. PlacementPlans(w) = IF open = {} THEN {<<>>} ELSE UNION {batch(a) : a \in open}
  BY DEF PlacementPlans
<1>4. ASSUME NEW a, NEW s \in Place(a, w) PROVE \E n : s = one(a, n)
  BY Zenon DEF Place
<1>5. ASSUME NEW a, NEW b, a # b, NEW s \in pairs(a, b) PROVE Opening(s)
  <2>1. PICK x \in Place(a, w), y \in Place(b, w) : s = x \o y
    OBVIOUS
  <2>2. PICK n, m : x = one(a, n) /\ y = one(b, m)
    BY <1>4
  <2>3. s = two(a, n, b, m)
    <3>1. ASSUME NEW c, NEW d, NEW e, NEW f
          PROVE  <<c, d>> \o <<e, f>> = <<c, d, e, f>>
      <4> DEFINE x1 == <<c, d>>
                 y1 == <<e, f>>
                 z == <<c, d, e, f>>
                 S == {c, d, e, f}
      <4>1. x1 \in Seq(S) /\ y1 \in Seq(S) /\ z \in Seq(S)
        OBVIOUS
      <4>2. Len(x1) = 2 /\ Len(y1) = 2 /\ Len(z) = 4
        OBVIOUS
      <4>3. /\ x1[1] = c /\ x1[2] = d /\ y1[1] = e /\ y1[2] = f
            /\ z[1] = c /\ z[2] = d /\ z[3] = e /\ z[4] = f
        OBVIOUS
      <4> HIDE DEF x1, y1, z, S
      <4> DEFINE h == x1 \o y1
      <4>4. /\ h \in Seq(S) /\ Len(h) = Len(x1) + Len(y1)
            /\ \A k \in 1 .. Len(x1) + Len(y1) :
                  h[k] = IF k <= Len(x1) THEN x1[k] ELSE y1[k - Len(x1)]
        BY <4>1
      <4> HIDE DEF h
      <4>5. Len(h) = 4 /\ \A k \in 1 .. 4 : h[k] = z[k]
        BY <4>2, <4>3, <4>4
      <4>6. h \in Seq(S) /\ z \in Seq(S) /\ Len(h) = Len(z) /\ \A k \in 1 .. Len(h) : h[k] = z[k]
        BY <4>1, <4>2, <4>4, <4>5
      <4>7. h = z
        BY <4>6
      <4> QED BY <4>7 DEF h, x1, y1, z
    <3>2. x \o y = <<Step("create", a, n), Step("start", a, n),
                    Step("create", b, m), Step("start", b, m)>>
      BY <2>2, <3>1
    <3> QED BY <2>1, <3>2
  <2> HIDE DEF two
  <2> QED BY <1>2, <1>5, <2>3
<1> HIDE DEF open, one, two, pairs
<1>6. ASSUME NEW a \in open, NEW s \in batch(a) PROVE Opening(s)
  BY <1>1, <1>4, <1>5
<1> QED BY <1>0, <1>3, <1>6

\* Every plan is one of additions or one of removals, sent where the
\* allocations are (control/agents.go, control/remediation.go).
LEMMA PlansSent ==
    ASSUME NEW i \in 1 .. Len(Agents), NEW w \in Worlds, NEW p \in Plans(Agents[i], w)
    PROVE  Sent(w, p)
<1> DEFINE agent == Agents[i]
<1>0. agent \in {"remediation-agent", "rollout-agent", "placement-agent"}
  BY DEF Agents
<1> HIDE DEF agent
<1>1. Sent(w, <<>>)
  BY DEF Sent, Adds
<1>2. ASSUME NEW q \in RemediationPlans(w) PROVE Sent(w, q)
  BY RemediationForms, Zenon DEF Sent, Unsent
<1>3. ASSUME NEW q \in PlacementPlans(w) PROVE Sent(w, q)
  BY PlacementForms, Zenon DEF Sent, Opening
<1>4. ASSUME NEW q \in AnyPlans(agent, w), agent # "remediation-agent" PROVE Sent(w, q)
  <2> DEFINE granted == {act \in WorkActions :
                            /\ act.kind \in Grants(agent) /\ act.node # NoNode
                            /\ act.kind = "create" \/ w.node[act.target] \in {NoNode, act.node}}
  <2>1. \A k, j \in 1 .. Len(q) : q[k].target = q[j].target => q[k].node = q[j].node
    BY Zenon DEF AnyPlans
  <2>2. PICK n \in 0 .. PlanLength : q \in [1 .. n -> granted]
    BY Zenon DEF AnyPlans
  <2>3. n \in Nat /\ Len(q) = n
    BY <2>2, ControlPlaneAssumption
  <2>4. \A k \in 1 .. Len(q) : q[k] \in granted
    BY <2>2, <2>3, Zenon
  <2>5. Adds(q) \/ Removes(q)
    BY <1>0, <1>4, <2>4, Zenon DEF Adds, Removes, Grants
  <2> QED BY <2>1, <2>4, <2>5, Zenon DEF Sent
<1> QED BY <1>0, <1>1, <1>2, <1>3, <1>4, Zenon DEF Plans, StockPlans, agent
\* The loop and ObserveNodes never reserve a sequence number at the same time.
LEMMA CalmStep ==
    ASSUME Decisions = {}, "append" \notin Faults, IInv, Calm, [Next]_vars
    PROVE  Calm'
<1> USE DEF IInv
<1>0. /\ obs.at # "free" => pc = "observing"
      /\ obs \in Holders /\ rec \in Records /\ count \in Nat /\ rec.next \in Returns
  BY Zenon DEF Calm, Control, TypeOK, Records
<1>1. CASE ObserveReserve
  BY <1>0, <1>1, Zenon DEF ObserveReserve, Calm, Holders, logVars
<1>2. CASE ObserveAppend
  BY <1>0, <1>2, Zenon DEF ObserveAppend, Calm, Holders
<1>3. ~ObserveRefused
  BY <1>0, Zenon DEF ObserveRefused, Calm, Appendable
<1>4. CASE ObserveHead
  BY <1>0, <1>4, Zenon DEF ObserveHead, Calm, Holders, logVars
<1>5. CASE ObserveWitness
  <2>1. obs.head >= anchor
    BY <1>5, Zenon DEF ObserveWitness, Anchored, TypeOK, Holders
  <2>2. obs' = [obs EXCEPT !.at = "project"] /\ obs.at = "witness" /\ UNCHANGED <<pc, lapsed, count>>
    BY <1>5, <2>1, Zenon DEF ObserveWitness, logVars
  <2> QED BY <1>0, <2>2, Zenon DEF Calm, Holders
<1>6. CASE ObserveProject
  <2>1. obs.at = "project" /\ UNCHANGED <<count, lapsed, rec>>
    BY <1>6, Zenon DEF ObserveProject, logVars
  <2>2. CASE Release
    BY <1>0, <2>1, <2>2, Zenon DEF Release, MutexFree, Calm
  <2>3. ASSUME NEW n, Begin("loop", Flip(n)), UNCHANGED pc PROVE Calm'
    BY <1>0, <2>1, <2>3, Zenon DEF Begin, MutexFree, Calm
  <2> QED BY <1>6, <2>2, <2>3, Zenon DEF ObserveProject
<1>7. CASE Tick
  <2>1. UNCHANGED <<count, lapsed, rec>> /\ pc' \in {"reconcile", "observing"}
    BY <1>7, Zenon DEF Tick, logVars
  <2>2. CASE UNCHANGED obs
    BY <1>0, <1>7, <2>1, <2>2 DEF Calm, Tick
  <2>3. ASSUME NEW n, Begin("loop", Flip(n)) PROVE Calm'
    BY <2>1, <2>3, Zenon DEF Begin, MutexFree, Calm
  <2> QED BY <1>7, <2>2, <2>3, Zenon DEF Tick
<1>8. CASE Reserve
  BY <1>0, <1>8, Zenon DEF Reserve, Calm, Records, logVars
<1>9. CASE AppendRecord
  <2>1. pc' = rec.next /\ UNCHANGED <<obs, lapsed>> /\ obs.at = "free"
    BY <1>0, <1>9, Zenon DEF AppendRecord
  <2> QED BY <1>0, <2>1, Zenon DEF Calm, Returns
<1>10. ~AppendRefused
  BY Zenon DEF AppendRefused, Calm, Appendable
<1>11. CASE UNCHANGED <<obs, lapsed, count>> /\ (pc' # "append" \/ UNCHANGED <<pc, rec>>)
  BY <1>11, Zenon DEF Calm
<1>12. CASE Crash
  BY <1>12, Zenon DEF Crash, Calm, MutexFree, logVars
<1>13. CASE Restart
  <2>1. lapsed' = FALSE /\ UNCHANGED <<obs, count, pc, rec>>
    BY <1>13, Zenon DEF Restart, logVars
  <2> QED BY <2>1, Zenon DEF Calm
<1>14. \A n \in Nodes : Enroll(n) => UNCHANGED <<obs, lapsed, count, pc, rec>>
  BY Zenon DEF Enroll, logVars
<1>15. Submit => UNCHANGED <<obs, lapsed, count, pc, rec>>
  BY Zenon DEF Submit, logVars
<1>16. \A e, l : Record(e, l) => pc' = "reserve"
  BY Zenon DEF Record
<1>17. \A a \in Allocations : Probe(a) => UNCHANGED <<obs, lapsed, count>> /\ pc' # "append"
  BY <1>16, Zenon DEF Probe, logVars
<1>18. Reconcile \/ Round \/ Refreshed \/ EndRound => UNCHANGED <<obs, lapsed, count>> /\ pc' # "append"
  BY <1>16, Zenon DEF Reconcile, Round, Refreshed, EndRound, logVars
<1>19. Propose \/ Authorize \/ Execute => UNCHANGED <<obs, lapsed, count>> /\ pc' # "append"
  BY <1>16, Zenon DEF Propose, Authorize, Execute, logVars
<1>20. Dispatch \/ ReplyLost \/ DispatchFails \/ ProjectEvidence =>
          UNCHANGED <<obs, lapsed, count>> /\ pc' # "append"
  BY <1>16, Zenon DEF Dispatch, ReplyLost, DispatchFails, ProjectEvidence, logVars
<1>21. Verify \/ WitnessLock \/ WitnessHead \/ WitnessAnchor =>
          UNCHANGED <<obs, lapsed, count>> /\ pc' # "append"
  BY <1>16, Zenon DEF Verify, WitnessLock, WitnessHead, WitnessAnchor, logVars
<1>22. CASE UNCHANGED vars
  BY <1>11, <1>22, Zenon DEF vars
<1> QED
  BY <1>1, <1>2, <1>3, <1>4, <1>5, <1>6, <1>7, <1>8, <1>9, <1>10, <1>11, <1>12, <1>13,
     <1>14, <1>15, <1>17, <1>18, <1>19, <1>20, <1>21, <1>22, Zenon DEF Next, Handlers, Loop

\* Outside ObserveNodes, the world in memory is the one the log is about to
\* replay to.
LEMMA WorldIsAhead ==
    ASSUME IInv, Calm, pc \notin {"idle", "observing"}
    PROVE  /\ up /\ world = Ahead /\ replayable /\ Ahead \in Worlds
           /\ Unrecorded => Projects(durable, rec.ev) /\ rec.ev \in WorkEvidence
<1> USE DEF IInv
<1>1. up /\ obs.at = "free" /\ ~lapsed /\ ~Unprojected
  BY Zenon DEF Control, Calm, Unprojected, TypeOK
<1>2. world = Ahead /\ replayable
  BY <1>1, Zenon DEF WorldIsReplay, Ahead
<1>3. Unrecorded => Projects(durable, rec.ev) /\ rec.ev \in WorkEvidence
  BY <1>1, Zenon DEF WorldIsReplay, Unrecorded, TypeOK, Records
<1>4. world \in Worlds
  BY Zenon DEF TypeOK
<1> QED BY <1>1, <1>2, <1>3, <1>4, Zenon

\* A step that neither records nor reaches a node keeps what is stored.
LEMMA StoredKept ==
    ASSUME Stored, UNCHANGED <<durable, runtime, ledger>>
    PROVE  Stored'
  BY Zenon DEF Stored, Housed, Located, Kept

\* Recording evidence that is still true keeps what runs where the log has it.
LEMMA StoredRecorded ==
    ASSUME TypeOK, Stored, NEW e \in WorkEvidence, Projects(durable, e),
           e.kind \in {"stopped", "deleted"} => \A n \in Nodes : runtime[n][e.target] # "running",
           durable' = Project(durable, e), UNCHANGED <<runtime, ledger>>
    PROVE  Stored'
<1> DEFINE w == durable
           v == durable'
<1>1. w \in Worlds /\ runtime \in Containers /\ ledger \in SUBSET Keys
  BY Zenon DEF TypeOK
<1>2. /\ v \in Worlds /\ v.revision = w.revision + 1 /\ w.revision \in Nat
      /\ \A a \in Allocations :
           /\ v.phase[a] = IF a = e.target THEN PhaseProjected(w, e) ELSE w.phase[a]
           /\ v.node[a] = IF a = e.target THEN NodeProjected(w, e) ELSE w.node[a]
  BY <1>1, WorkProjected DEF Worlds
<1>3. /\ e.target \in Allocations /\ e.node \in Nodes /\ e.node # NoNode
      /\ e.kind \in {"created", "running", "stopped", "deleted", "ready", "unready"}
  BY WorldAssumption, Zenon DEF WorkEvidence, WorkKinds
<1>4. /\ \A a \in Allocations : (w.phase[a] = "absent") <=> (w.node[a] = NoNode)
      /\ \A n \in Nodes : \A a \in Allocations : runtime[n][a] = "running" =>
            w.node[a] = n /\ w.phase[a] \in {"created", "running"}
  BY Zenon DEF Stored, Housed, Located
<1>5. /\ e.kind \in {"running", "stopped"} => w.phase[e.target] # "absent"
      /\ e.kind \in {"ready", "unready"} => w.phase[e.target] = "running"
  BY Zenon DEF Projects
<1> HIDE DEF w, v
<1>6. \A a \in Allocations : (v.phase[a] = "absent") <=> (v.node[a] = NoNode)
  BY <1>2, <1>3, <1>4, <1>5 DEF PhaseProjected, NodeProjected
<1>7. \A n \in Nodes : \A a \in Allocations : runtime[n][a] = "running" =>
         v.node[a] = n /\ v.phase[a] \in {"created", "running"}
  BY <1>2, <1>3, <1>4, <1>5 DEF PhaseProjected, NodeProjected
<1>8. \A k \in ledger : k[3] \in Nat /\ k[3] <= w.revision
  BY <1>1, Zenon DEF Keys, Stored, Kept, w
<1>9. \A k \in ledger : k[3] <= v.revision /\ k[3] # v.revision
  BY <1>2, <1>8
<1> QED BY <1>6, <1>7, <1>9, Zenon DEF Stored, Housed, Located, Kept, v

\* What a node does with the first action of a plan that fits.
Handled(act) ==
    /\ act = run.plan[1] /\ 1 \in 1 .. Len(run.plan) /\ Len(run.plan) \in Nat
    /\ act.node \in Nodes /\ act.node # NoNode /\ act.target \in Allocations
    /\ act.kind \in {"create", "start", "stop", "delete"}
    /\ Suits(durable, act) /\ Fits(durable, run.plan)
    /\ \A n \in Nodes : \A a \in Allocations :
          runtime'[n][a] # runtime[n][a] =>
              /\ n = act.node /\ a = act.target /\ Key(act) \notin ledger
              /\ RuntimeAccepts(act) /\ runtime'[n][a] = RuntimeAfter(act)
    /\ ledger' = ledger \cup {Key(act)}
    /\ act.kind \in {"stop", "delete"} => runtime'[act.node][act.target] # "running"

LEMMA HandleForms ==
    ASSUME SInv, pc = "dispatch", Handle(Head(run.plan)), NEW act, act = Head(run.plan)
    PROVE  Handled(act)
<1> SUFFICES /\ act = run.plan[1] /\ 1 \in 1 .. Len(run.plan) /\ Len(run.plan) \in Nat
             /\ act.node \in Nodes /\ act.node # NoNode /\ act.target \in Allocations
             /\ act.kind \in {"create", "start", "stop", "delete"}
             /\ Suits(durable, act) /\ Fits(durable, run.plan)
             /\ \A n \in Nodes : \A a \in Allocations :
                   runtime'[n][a] # runtime[n][a] =>
                       /\ n = act.node /\ a = act.target /\ Key(act) \notin ledger
                       /\ RuntimeAccepts(act) /\ runtime'[n][a] = RuntimeAfter(act)
             /\ ledger' = ledger \cup {Key(act)}
             /\ act.kind \in {"stop", "delete"} => runtime'[act.node][act.target] # "running"
  BY Zenon DEF Handled
<1> USE DEF SInv, IInv
<1>1. run.plan # <<>> /\ run.plan \in Seq(Actions) /\ runtime \in Containers /\ connected \subseteq Nodes
  BY Zenon DEF Control, At, TypeOK, Runs
<1>2. /\ act = run.plan[1] /\ 1 \in 1 .. Len(run.plan) /\ act \in Actions /\ Len(run.plan) \in Nat
      /\ act.node \in Nodes /\ act.node # NoNode
  BY <1>1, WorldAssumption DEF Handle
<1>3. act.target \in Allocations /\ act.kind \in {"create", "start", "stop", "delete"}
  BY <1>2, SentWork, Zenon
<1>4. /\ Fits(durable, run.plan)
      /\ act.kind \in {"stop", "delete"} /\ Key(act) \in ledger =>
            runtime[act.node][act.target] # "running"
  BY <1>2, Zenon DEF Flow, Underway, Executing, At, Ahead, Unrecorded
<1>5. Suits(durable, act)
  BY <1>2, <1>4 DEF Fits
<1>6. CASE Key(act) \in ledger
  <2>1. UNCHANGED <<runtime, ledger>>
    BY <1>6, ZenonT(30) DEF Handle, nodeVars
  <2> QED BY <1>2, <1>3, <1>4, <1>5, <1>6, <2>1, Zenon
<1>7. CASE Key(act) \notin ledger
  <2>1. /\ RuntimeAccepts(act) /\ ledger' = ledger \cup {Key(act)}
        /\ runtime' = [runtime EXCEPT ![act.node][act.target] = RuntimeAfter(act)]
    BY <1>7, Zenon DEF Handle
  <2>2. \A n \in Nodes : \A a \in Allocations :
           runtime'[n][a] = IF n = act.node /\ a = act.target THEN RuntimeAfter(act) ELSE runtime[n][a]
    BY <1>1, <1>2, <1>3, <2>1, Zenon DEF Containers
  <2>3. act.kind \in {"stop", "delete"} => RuntimeAfter(act) # "running"
    BY Zenon DEF RuntimeAfter
  <2> QED BY <1>2, <1>3, <1>4, <1>5, <1>7, <2>1, <2>2, <2>3
<1> QED BY <1>6, <1>7, Zenon

\* It starts an allocation only where the log has it, and stops it for good.
LEMMA StoredHandled ==
    ASSUME SInv, pc = "dispatch", Handle(Head(run.plan)), UNCHANGED durable
    PROVE  Stored'
<1> USE DEF SInv, IInv
<1> DEFINE act == Head(run.plan)
           w == durable
<1>1. /\ Handled(act)
      /\ act.node \in Nodes /\ act.node # NoNode /\ act.target \in Allocations
      /\ act.kind \in {"create", "start", "stop", "delete"} /\ Suits(w, act)
      /\ \A n \in Nodes : \A a \in Allocations :
            runtime'[n][a] # runtime[n][a] =>
                /\ n = act.node /\ a = act.target
                /\ RuntimeAccepts(act) /\ runtime'[n][a] = RuntimeAfter(act)
      /\ ledger' = ledger \cup {Key(act)}
      /\ act.kind \in {"stop", "delete"} => runtime'[act.node][act.target] # "running"
  <2>1. Handled(act)
    BY HandleForms, Zenon
  <2> QED BY <2>1, Zenon DEF Handled
<1>2. /\ runtime \in Containers /\ ledger \in SUBSET Keys /\ run.snap.revision \in Nat
      /\ w.revision \in Nat /\ run.snap.revision <= w.revision
  BY Zenon DEF TypeOK, Runs, Worlds, Flow, Underway, Executing, At
<1>3. Key(act)[1] = act.node /\ Key(act)[3] = run.snap.revision
      /\ Key(act)[4] = act.kind /\ Key(act)[5] = act.target
  BY Zenon DEF Key
<1>4. /\ \A n \in Nodes : \A a \in Allocations : runtime[n][a] = "running" =>
            w.node[a] = n /\ w.phase[a] \in {"created", "running"}
      /\ \A k \in ledger :
            /\ k[1] \in Nodes /\ k[5] \in Allocations
            /\ k[3] <= w.revision
            /\ k[3] = w.revision /\ k[4] = "stop" =>
                  w.phase[k[5]] = "running" /\ runtime[k[1]][k[5]] # "running"
            /\ k[3] = w.revision /\ k[4] = "delete" =>
                  w.phase[k[5]] \in {"created", "stopped"} /\ runtime[k[1]][k[5]] = "absent"
  BY <1>2, Zenon DEF Stored, Located, Kept, Keys
<1> HIDE DEF act, w
<1>5. ASSUME NEW n \in Nodes, NEW a \in Allocations, runtime'[n][a] = "running"
      PROVE  w.node[a] = n /\ w.phase[a] \in {"created", "running"}
  <2>1. CASE runtime'[n][a] = runtime[n][a]
    BY <1>4, <1>5, <2>1, Zenon
  <2>2. CASE runtime'[n][a] # runtime[n][a]
    <3>1. /\ n = act.node /\ a = act.target /\ RuntimeAfter(act) = "running"
          /\ runtime[act.node][act.target] # "running"
      BY <1>1, <1>5, <2>2, Zenon
    <3>2. act.kind = "start"
      <4>1. act.kind \in {"create", "start", "stop", "delete"}
        BY <1>1, SMTT(30)
      <4> QED BY <3>1, <4>1, SMTT(30) DEF RuntimeAfter
    <3> QED BY <1>1, <3>1, <3>2, Zenon DEF Suits
  <2> QED BY <2>1, <2>2, Zenon
<1>6. act.kind = "delete" => runtime'[act.node][act.target] = "absent" \/ Key(act) \in ledger
  BY <1>1 DEF Handled, Handle, RuntimeAfter, act, TypeOK, Containers
<1>7. ASSUME NEW k \in ledger, k[3] = w.revision, k[4] = "stop"
      PROVE  w.phase[k[5]] = "running" /\ runtime'[k[1]][k[5]] # "running"
  <2>1. k[1] \in Nodes /\ k[5] \in Allocations /\ w.phase[k[5]] = "running" /\ runtime[k[1]][k[5]] # "running"
    BY <1>4, <1>7, Zenon
  <2>2. CASE k[1] = act.node /\ k[5] = act.target
    BY <1>1, <2>1, <2>2, Zenon DEF Suits
  <2>3. CASE ~(k[1] = act.node /\ k[5] = act.target)
    BY <1>1, <2>1, <2>3, Zenon
  <2> QED BY <2>1, <2>2, <2>3, Zenon
<1>8. ASSUME NEW k \in ledger, k[3] = w.revision, k[4] = "delete"
      PROVE  w.phase[k[5]] \in {"created", "stopped"} /\ runtime'[k[1]][k[5]] = "absent"
  <2>1. /\ k[1] \in Nodes /\ k[5] \in Allocations
        /\ w.phase[k[5]] \in {"created", "stopped"} /\ runtime[k[1]][k[5]] = "absent"
    BY <1>4, <1>8, Zenon
  <2>2. ASSUME runtime'[k[1]][k[5]] # runtime[k[1]][k[5]] PROVE FALSE
    <3>1. /\ k[1] = act.node /\ k[5] = act.target
          /\ RuntimeAccepts(act) /\ runtime'[k[1]][k[5]] = RuntimeAfter(act)
      BY <1>1, <2>1, <2>2, Zenon
    <3>2. act.kind = "delete"
      BY <1>1, <2>1, <3>1, Zenon DEF Suits, RuntimeAccepts
    <3> QED BY <2>1, <2>2, <3>1, <3>2, Zenon DEF RuntimeAfter
  <2> QED BY <2>1, <2>2, Zenon
<1>9. ASSUME NEW k \in ledger'
      PROVE  /\ k[3] <= w.revision
             /\ k[3] = w.revision /\ k[4] = "stop" =>
                   w.phase[k[5]] = "running" /\ runtime'[k[1]][k[5]] # "running"
             /\ k[3] = w.revision /\ k[4] = "delete" =>
                   w.phase[k[5]] \in {"created", "stopped"} /\ runtime'[k[1]][k[5]] = "absent"
  <2>1. CASE k \in ledger
    BY <1>4, <1>7, <1>8, <2>1, Zenon
  <2>2. CASE k \notin ledger
    <3>1. k = Key(act)
      BY <1>1, <2>2, Zenon
    <3> QED BY <1>1, <1>2, <1>3, <1>6, <2>2, <3>1, Zenon DEF Suits
  <2> QED BY <2>1, <2>2, Zenon
<1> QED BY <1>5, <1>9, Zenon DEF Stored, Housed, Located, Kept, w
\* Outside a plan there is nothing to keep.
LEMMA FlowIdle ==
    ASSUME NEW l, l \notin {"authorize", "execute", "dispatch", "project", "reserve", "append"},
           NEW e, e.kind \notin {"stopped", "deleted"}, pc' = l \/ Record(e, l)
    PROVE  Flow'
<1>1. CASE pc' = l
  BY <1>1, Zenon DEF Flow, Silent, Judged, Underway, Executing, At, Unrecorded
<1>2. CASE Record(e, l)
  <2>1. pc' = "reserve" /\ rec'.ev = e /\ rec'.next = l
    BY <1>2, Zenon DEF Record
  <2> QED BY <2>1, Zenon DEF Flow, Silent, Judged, Underway, Executing, At, Unrecorded
<1> QED BY <1>1, <1>2, Zenon

\* A step elsewhere, or the reservation of a sequence number, keeps it all.
LEMMA FlowKept ==
    ASSUME Flow, UNCHANGED <<durable, runtime, ledger, run>>,
           rec'.ev = rec.ev, rec'.next = rec.next,
           UNCHANGED pc \/ (pc = "reserve" /\ pc' = "append")
    PROVE  Flow'
<1>1. /\ \A l \in {"authorize", "execute", "dispatch"} : At(l)' <=> At(l)
      /\ Unrecorded' <=> Unrecorded
      /\ (pc' = "project") <=> (pc = "project")
      /\ (pc' = "authorize") <=> (pc = "authorize")
  BY Zenon DEF At, Unrecorded
<1>2. Silent'
  BY <1>1, Zenon DEF Flow, Silent
<1>3. Judged'
  BY <1>1, Zenon DEF Flow, Judged
<1>4. Ahead' = Ahead
  BY <1>1, Zenon DEF Ahead
<1>5. Underway'
  BY <1>1, <1>4, Zenon DEF Flow, Underway, Executing, Key
<1> QED BY <1>2, <1>3, <1>5, Zenon DEF Flow

\* The appended record was the one the plan was waiting for.
LEMMA FlowRecorded ==
    ASSUME SInv, AppendRecord
    PROVE  /\ durable' = Ahead /\ durable.revision <= durable'.revision
           /\ Stored' /\ Flow'
<1> USE DEF SInv, IInv
<1>1. /\ pc = "append" /\ Commit(rec.ev) /\ pc' = rec.next /\ rec' = IdleRecord
      /\ UNCHANGED <<run, runtime, ledger>> /\ rec \in Records
  BY Zenon DEF AppendRecord, nodeVars, TypeOK
<1>2. rec.next \in Returns /\ pc' \notin {"reserve", "append", "project"}
  BY <1>1, Zenon DEF Records, Returns
<1>3. /\ replayable /\ Ahead \in Worlds /\ durable \in Worlds /\ durable.revision \in Nat
      /\ Unrecorded => Projects(durable, rec.ev) /\ rec.ev \in WorkEvidence
  BY <1>1, WorldIsAhead, Zenon DEF TypeOK, Worlds
<1>4. CASE rec.ev = NoEvidence
  <2>1. durable' = durable /\ ~Unrecorded
    BY <1>1, <1>4, Zenon DEF Commit, Unrecorded
  <2>2. durable' = Ahead /\ durable.revision <= durable'.revision
    BY <1>3, <2>1 DEF Ahead
  <2>3. Stored'
    BY <1>1, <2>1, StoredKept, Zenon
  <2>4. Flow'
    <3>1. /\ ~Unrecorded' /\ Ahead' = durable'
          /\ \A l \in {"authorize", "execute", "dispatch"} : At(l)' => At(l)
      BY <1>1, <1>2, Zenon DEF Unrecorded, Ahead, At
    <3>2. Silent'
      BY <1>2, <3>1, Zenon DEF Silent
    <3>3. Judged'
      BY <1>1, <1>2, <2>1, <3>1, Zenon DEF Flow, Judged, At
    <3>4. Underway'
      BY <1>1, <1>2, <2>1, <2>2, <3>1, Zenon DEF Flow, Underway, Executing, Key
    <3> QED BY <3>2, <3>3, <3>4, Zenon DEF Flow
  <2> QED BY <2>2, <2>3, <2>4, Zenon
<1>5. CASE rec.ev # NoEvidence
  <2>1. Unrecorded /\ Projects(durable, rec.ev) /\ rec.ev \in WorkEvidence
    BY <1>1, <1>3, <1>5, Zenon DEF Unrecorded
  <2>2. durable' = Project(durable, rec.ev)
    BY <1>1, <1>3, <2>1, CommitProjects, Zenon DEF Evidence
  <2>3. durable' = Ahead /\ durable'.revision = durable.revision + 1
    BY <1>3, <2>1, <2>2, WorkProjected DEF Ahead
  <2>4. Stored'
    BY <1>1, <2>1, <2>2, StoredRecorded, Zenon DEF Flow, Silent
  <2>5. Flow'
    <3>1. /\ ~Unrecorded' /\ Ahead' = Ahead
          /\ \A l \in {"authorize", "execute", "dispatch"} : At(l)' => At(l)
      BY <1>1, <1>2, <2>3, Zenon DEF Unrecorded, Ahead, At
    <3>2. Silent'
      BY <1>2, <3>1, Zenon DEF Silent
    <3>3. Judged'
      BY <1>1, <1>5, <3>1, Zenon DEF Flow, Judged
    <3>4. Executing => run.snap.revision <= durable'.revision
      <4>1. Executing => run.snap.revision <= durable.revision
        BY Zenon DEF Flow, Underway
      <4>2. run.snap.revision \in Nat
        BY Zenon DEF TypeOK, Runs, Worlds
      <4> QED BY <1>3, <2>3, <4>1, <4>2
    <3>5. Underway'
      BY <1>1, <1>2, <3>1, <3>4, Zenon DEF Flow, Underway, Executing, Key
    <3> QED BY <3>2, <3>3, <3>5, Zenon DEF Flow
  <2> QED BY <1>3, <2>3, <2>4, <2>5
<1> QED BY <1>4, <1>5, Zenon

\* The agent is shown the world the log replays to.
LEMMA FlowProposed ==
    ASSUME SInv, Propose
    PROVE  Flow'
<1> USE DEF SInv, IInv
<1>1. pc = "agent" /\ UNCHANGED durable /\ run.turn <= Len(Agents) /\ ~Unrecorded
  BY Zenon DEF Propose, logVars, Unrecorded
<1>2. world = durable /\ world \in Worlds
  BY <1>1, WorldIsAhead, Zenon DEF Ahead, TypeOK
<1>3. run.turn \in 1 .. Len(Agents) /\ run \in Runs
  BY <1>1, AgentsLength DEF TypeOK, Control
<1>4. NoEvidence.kind \notin {"stopped", "deleted"}
  BY Zenon DEF NoEvidence
<1>5. CASE Record(NoEvidence, "agent")
  BY <1>4, <1>5, FlowIdle, Zenon
<1>6. CASE UNCHANGED <<pc, rec>>
  BY <1>1, <1>4, <1>6, FlowIdle, Zenon
<1>7. ASSUME NEW o \in Observed(world), NEW p \in Plans(Agents[run.turn], world),
             run' = [run EXCEPT !.snap = o, !.plan = p], Record(NoEvidence, "authorize")
      PROVE  Flow'
  <2>1. run'.snap = o /\ run'.plan = p
    BY <1>3, <1>7, Zenon DEF Runs
  <2>2. o.revision = durable.revision /\ o.phase = durable.phase /\ o.node = durable.node
    BY <1>2, Zenon DEF Observed, Worlds
  <2>3. Sent(durable, p)
    BY <1>2, <1>3, PlansSent, Zenon
  <2>4. Sent(o, p)
    BY <2>2, <2>3, Zenon DEF Sent
  <2>5. pc' = "reserve" /\ rec'.ev = NoEvidence /\ rec'.next = "authorize"
    BY <1>7, Zenon DEF Record
  <2>6. Silent' /\ Underway'
    BY <1>4, <2>5, Zenon DEF Silent, Underway, Executing, At, Unrecorded
  <2>7. Judged'
    BY <1>1, <2>1, <2>2, <2>4, <2>5, Zenon DEF Judged
  <2> QED BY <2>6, <2>7, Zenon DEF Flow
<1> QED BY <1>5, <1>6, <1>7, Zenon DEF Propose
\* A plan the kernel authorized fits the world the log replays to.
LEMMA FlowAuthorized ==
    ASSUME LeastMembers, SInv, Authorize
    PROVE  Flow'
<1> USE DEF SInv, IInv
<1>1. pc = "authorize" /\ UNCHANGED <<durable, runtime, ledger>> /\ run \in Runs
  BY Zenon DEF Authorize, logVars, nodeVars, TypeOK
<1>2. NoEvidence.kind \notin {"stopped", "deleted"}
  BY Zenon DEF NoEvidence
<1>3. CASE Record(NoEvidence, "agent")
  BY <1>2, <1>3, FlowIdle, Zenon
<1>4. ASSUME Authorized(run.snap, run.plan), Record(NoEvidence, "execute"),
             NEW c, run' = [run EXCEPT !.checks = c]
      PROVE  Flow'
  <2>1. run'.snap = run.snap /\ run'.plan = run.plan /\ run'.turn = run.turn
    BY <1>1, <1>4, Zenon DEF Runs
  <2>2. /\ run.snap.revision = durable.revision /\ run.snap.phase = durable.phase
        /\ run.snap.node = durable.node /\ Sent(run.snap, run.plan)
    BY <1>1, Zenon DEF Flow, Judged, At
  <2>3. run.snap \in Worlds /\ run.plan \in Seq(Actions) /\ run.snap.revision \in Nat
    BY <1>1, Zenon DEF Runs, Worlds
  <2>4. Housed(run.snap)
    BY <2>2, Zenon DEF Stored, Housed
  <2>5. Fits(durable, run.plan)
    BY <1>4, <2>2, <2>3, <2>4, AuthorizedFits, FitsLocal, Zenon
  <2>6. pc' = "reserve" /\ rec'.ev = NoEvidence /\ rec'.next = "execute" /\ ~Unrecorded'
    BY <1>4, Zenon DEF Record, Unrecorded
  <2>7. Silent' /\ Judged'
    BY <2>6, Zenon DEF Silent, Judged, At
  <2>8. ASSUME NEW i \in 1 .. Len(run.plan), run.plan[i].kind \in {"stop", "delete"},
               Key(run.plan[i]) \in ledger
        PROVE  runtime[run.plan[i].node][run.plan[i].target] # "running"
    <3> DEFINE k == Key(run.plan[i])
    <3>1. /\ k[1] = run.plan[i].node /\ k[3] = durable.revision
          /\ k[4] = run.plan[i].kind /\ k[5] = run.plan[i].target
      BY <2>2, Zenon DEF Key
    <3> HIDE DEF k
    <3>2. k \in ledger
      BY <2>8, ZenonT(30) DEF k
    <3> QED BY <2>8, <3>1, <3>2, Zenon DEF Stored, Kept
  <2>9. Underway'
    BY <1>1, <2>1, <2>2, <2>3, <2>5, <2>6, <2>8 DEF Underway, Executing, At, Ahead, Key
  <2> QED BY <2>7, <2>9, Zenon DEF Flow
<1> QED BY <1>3, <1>4, Zenon DEF Authorize

\* Recording the intent changes nothing that the plan depends on.
LEMMA FlowExecuted ==
    ASSUME SInv, Execute
    PROVE  Flow'
<1> USE DEF SInv, IInv
<1>1. pc = "execute" /\ UNCHANGED <<durable, runtime, ledger>> /\ ~Unrecorded
  BY Zenon DEF Execute, logVars, nodeVars, Unrecorded
<1>2. NoEvidence.kind \notin {"stopped", "deleted"}
  BY Zenon DEF NoEvidence
<1>3. CASE pc' = "observe"
  BY <1>2, <1>3, FlowIdle, Zenon
<1>4. CASE Record(NoEvidence, "dispatch") /\ UNCHANGED run
  <2>1. pc' = "reserve" /\ rec'.ev = NoEvidence /\ rec'.next = "dispatch" /\ ~Unrecorded'
    BY <1>4, Zenon DEF Record, Unrecorded
  <2>2. Silent' /\ Judged'
    BY <2>1, Zenon DEF Silent, Judged, At
  <2>3. Ahead' = Ahead
    BY <1>1, <2>1, Zenon DEF Ahead
  <2>4. Underway'
    BY <1>1, <1>4, <2>1, <2>3, Zenon DEF Flow, Underway, Executing, At, Key
  <2> QED BY <2>2, <2>4, Zenon DEF Flow
<1> QED BY <1>3, <1>4, Zenon DEF Execute

\* What the node answers is true, and stays true of the rest of the plan.
LEMMA FlowDispatched ==
    ASSUME SInv, Dispatch
    PROVE  Flow'
<1> USE DEF SInv, IInv
<1> DEFINE act == Head(run.plan)
           plan == run.plan
<1>1. /\ pc = "dispatch" /\ Handle(act) /\ pc' = "project" /\ ~Unrecorded /\ ~Unrecorded'
      /\ UNCHANGED <<durable, run>> /\ rec' = [IdleRecord EXCEPT !.ev = EvidenceOf(act)]
  BY Zenon DEF Dispatch, logVars, Unrecorded
<1>2. /\ act = plan[1] /\ 1 \in 1 .. Len(plan) /\ Len(plan) \in Nat
      /\ act.node \in Nodes /\ act.target \in Allocations
      /\ act.kind \in {"create", "start", "stop", "delete"}
      /\ Suits(durable, act) /\ Fits(durable, plan)
      /\ \A n \in Nodes : \A a \in Allocations :
            runtime'[n][a] # runtime[n][a] =>
                n = act.node /\ a = act.target /\ runtime'[n][a] = RuntimeAfter(act)
      /\ ledger' = ledger \cup {Key(act)}
      /\ act.kind \in {"stop", "delete"} => runtime'[act.node][act.target] # "running"
  <2>1. Handled(act)
    BY <1>1, HandleForms, Zenon
  <2> QED BY <2>1, Zenon DEF Handled
<1>3. /\ rec'.ev = EvidenceOf(act) /\ rec'.ev.target = act.target /\ rec'.next = "idle"
      /\ rec'.ev.kind \in {"stopped", "deleted"} => act.kind \in {"stop", "delete"}
  BY <1>1, <1>2, Zenon DEF IdleRecord, EvidenceOf
<1>4. /\ run.snap.revision <= durable.revision
      /\ \A i \in 1 .. Len(plan) :
            plan[i].kind \in {"stop", "delete"} /\ plan[i].node # NoNode /\ Key(plan[i]) \in ledger =>
                runtime[plan[i].node][plan[i].target] # "running"
  BY <1>1, Zenon DEF Flow, Underway, Executing, At
<1>5. plan \in Seq(Actions)
  BY Zenon DEF TypeOK, Runs
<1> HIDE DEF act, plan
<1>6. Silent'
  <2> SUFFICES ASSUME act.kind \in {"stop", "delete"}, NEW n \in Nodes,
                      runtime'[n][act.target] = "running"
               PROVE  FALSE
    BY <1>3, Zenon DEF Silent
  <2>1. n # act.node
    BY <1>2, Zenon
  <2>2. runtime[n][act.target] = "running"
    BY <1>2, <2>1, Zenon
  <2>3. durable.node[act.target] = n
    BY <1>2, <2>2, Zenon DEF Stored, Located
  <2> QED BY <1>2, <2>1, <2>3, Zenon DEF Suits
<1>7. Judged'
  BY <1>1, Zenon DEF Judged, At
<1>8. ASSUME NEW i \in 1 .. Len(plan), plan[i].kind \in {"stop", "delete"},
             plan[i].node # NoNode, Key(plan[i]) \in ledger'
      PROVE  runtime'[plan[i].node][plan[i].target] # "running"
  <2>1. plan[i].node \in Nodes /\ plan[i].target \in Allocations
    BY <1>5, <1>8, SentWork
  <2>2. CASE plan[i].node = act.node /\ plan[i].target = act.target
    <3>1. CASE i = 1
      BY <1>2, <1>8, <3>1, Zenon
    <3>2. CASE i # 1
      <4>1. 1 \in 1 .. i - 1
        BY <1>2, <3>2
      <4>2. Follow(act, plan[i])
        BY <1>2, <1>8, <2>2, <4>1, Zenon DEF Fits
      <4> QED BY <1>2, <1>8, <2>2, <4>2, Zenon DEF Follow
    <3> QED BY <3>1, <3>2, Zenon
  <2>3. CASE ~(plan[i].node = act.node /\ plan[i].target = act.target)
    <3>1. Key(plan[i]) # Key(act)
      BY <2>3, Zenon DEF Key
    <3>2. Key(plan[i]) \in ledger
      BY <1>2, <1>8, <3>1, Zenon
    <3> QED BY <1>2, <1>4, <1>8, <2>1, <2>3, <3>2, Zenon
  <2> QED BY <2>2, <2>3, Zenon
<1>9. Underway'
  <2>1. Ahead' = durable /\ ~At("dispatch")'
    BY <1>1, Zenon DEF Ahead, At
  <2> QED
    BY <1>1, <1>2, <1>3, <1>4, <1>8, <2>1, Zenon DEF Underway, Executing, Key, plan, act
<1> QED BY <1>6, <1>7, <1>9, Zenon DEF Flow

\* The rest of the plan fits the world the evidence leads to.
LEMMA FlowProjected ==
    ASSUME SInv, ProjectEvidence
    PROVE  Flow'
<1> USE DEF SInv, IInv
<1>1. /\ pc = "project" /\ UNCHANGED <<durable, runtime, ledger>> /\ ~Unrecorded
      /\ run \in Runs /\ run.plan # <<>> /\ durable \in Worlds
  BY Zenon DEF ProjectEvidence, logVars, nodeVars, Unrecorded, TypeOK, Control
<1>2. NoEvidence.kind \notin {"stopped", "deleted"}
  BY Zenon DEF NoEvidence
<1>3. CASE Record(NoEvidence, "witness")
  BY <1>2, <1>3, FlowIdle, Zenon
<1>4. CASE /\ run' = [run EXCEPT !.plan = Tail(@), !.progress = TRUE]
           /\ Record(rec.ev, "execute")
  <2>1. run'.snap = run.snap /\ run'.plan = Tail(run.plan) /\ run'.turn = run.turn
    BY <1>1, <1>4, Zenon DEF Runs
  <2>2. rec.ev \in WorkEvidence /\ rec.ev # NoEvidence
    BY <1>1, NoEvidenceDistinct, Zenon DEF Control
  <2>3. pc' = "reserve" /\ rec'.ev = rec.ev /\ rec'.next = "execute" /\ Unrecorded'
    BY <1>4, <2>2, Zenon DEF Record, Unrecorded
  <2>4. /\ Fits(durable, run.plan) /\ rec.ev = EvidenceOf(Head(run.plan))
        /\ Head(run.plan).node \in Nodes /\ run.snap.revision <= durable.revision
        /\ \A i \in 1 .. Len(run.plan) :
              LET act == run.plan[i]
              IN  act.kind \in {"stop", "delete"} /\ act.node # NoNode /\ Key(act) \in ledger =>
                      runtime[act.node][act.target] # "running"
    BY <1>1, Zenon DEF Flow, Underway, Executing, Ahead
  <2>5. run.plan \in Seq(Actions)
    BY <1>1, Zenon DEF Runs
  <2>6. Fits(Ahead', run'.plan)
    <3>1. Ahead' = Project(durable, EvidenceOf(Head(run.plan)))
      BY <1>1, <2>3, <2>4, Zenon DEF Ahead
    <3> QED BY <1>1, <2>1, <2>4, <2>5, <3>1, TailFits, Zenon
  <2>7. Silent'
    BY <1>1, <2>3, Zenon DEF Flow, Silent
  <2>8. Judged'
    BY <2>3, Zenon DEF Judged, At
  <2>9. \A i \in 1 .. Len(Tail(run.plan)) :
           i + 1 \in 1 .. Len(run.plan) /\ Tail(run.plan)[i] = run.plan[i + 1]
    BY <1>1, <2>5
  <2>10. Underway'
    <3>1. ~At("dispatch")' /\ pc' # "project"
      BY <2>3, Zenon DEF At
    <3>2. \A i \in 1 .. Len(Tail(run.plan)) :
             LET act == Tail(run.plan)[i]
             IN  act.kind \in {"stop", "delete"} /\ act.node # NoNode /\ Key(act) \in ledger =>
                     runtime[act.node][act.target] # "running"
      BY <2>4, <2>9, Zenon
    <3> QED BY <1>1, <2>1, <2>4, <2>6, <3>1, <3>2, Zenon DEF Underway, Key
  <2> QED BY <2>7, <2>8, <2>10, Zenon DEF Flow
<1> QED BY <1>3, <1>4, Zenon DEF ProjectEvidence
\* Every step of a server whose records are never refused.
LEMMA IncarnationStep ==
    ASSUME LeastMembers, Decisions = {}, "append" \notin Faults, SInv, [Next]_vars
    PROVE  Stored' /\ Flow'
<1> USE DEF SInv, IInv
<1>0. /\ NoEvidence.kind \notin {"stopped", "deleted"}
      /\ obs.at # "free" => pc = "observing"
      /\ rec \in Records /\ durable \in Worlds
  BY Zenon DEF NoEvidence, Calm, Control, TypeOK
<1>1. CASE UNCHANGED <<durable, runtime, ledger, pc, rec, run>>
  BY <1>1, StoredKept, FlowKept, Zenon
<1>2. ASSUME UNCHANGED <<durable, runtime, ledger>>, NEW l,
             l \notin {"authorize", "execute", "dispatch", "project", "reserve", "append"},
             pc' = l \/ Record(NoEvidence, l)
      PROVE  Stored' /\ Flow'
  BY <1>0, <1>2, StoredKept, FlowIdle, Zenon
<1>3. CASE ObserveReserve \/ ObserveHead
  BY <1>1, <1>3, Zenon DEF ObserveReserve, ObserveHead, logVars, nodeVars
<1>4. CASE ObserveAppend
  <2>1. /\ pc = "observing" /\ pc' = "observing" /\ UNCHANGED <<runtime, ledger>>
        /\ Commit(obs.ev) /\ obs.ev \in Observations
    BY <1>0, <1>4, Zenon DEF ObserveAppend, Control, nodeVars
  <2>2. Flow'
    BY <1>0, <2>1, FlowIdle, Zenon
  <2>3. replayable
    BY Zenon DEF Calm, WorldIsReplay
  <2>4. durable' = Project(durable, obs.ev)
    BY <2>1, <2>3, CommitProjects, ObservationProjects, Zenon DEF Evidence
  <2>5. /\ durable'.phase = durable.phase /\ durable'.node = durable.node
        /\ durable'.revision = durable.revision + 1 /\ durable.revision \in Nat
    BY <1>0, <2>1, <2>4, ProjectObservationFields, Zenon DEF Worlds
  <2>6. \A k \in ledger : k[3] \in Nat /\ k[3] <= durable.revision
    BY Zenon DEF TypeOK, Keys, Stored, Kept
  <2>7. \A k \in ledger : k[3] <= durable'.revision /\ k[3] # durable'.revision
    BY <2>5, <2>6, SMTT(30)
  <2>8. Stored'
    BY <2>1, <2>5, <2>7 DEF Stored, Housed, Located, Kept
  <2> QED BY <2>2, <2>8, Zenon
<1>5. ~ObserveRefused /\ ~AppendRefused
  BY Zenon DEF ObserveRefused, AppendRefused, Calm, Appendable
<1>6. CASE ObserveWitness \/ ObserveProject
  <2>1. UNCHANGED <<durable, runtime, ledger>> /\ pc' \in {"observing", "reconcile"}
    BY <1>0, <1>6, Zenon DEF ObserveWitness, ObserveProject, Release, logVars, nodeVars
  <2> QED BY <1>2, <2>1, Zenon
<1>7. CASE Submit \/ \E n \in Nodes : Enroll(n)
  BY <1>1, <1>7, Zenon DEF Submit, Enroll, logVars, nodeVars
<1>8. CASE Tick \/ Reconcile
  <2>1. /\ UNCHANGED <<durable, runtime, ledger>>
        /\ pc' \in {"idle", "observing", "reconcile"} \/ Record(NoEvidence, "round")
    BY <1>8, Zenon DEF Tick, Reconcile, logVars, nodeVars
  <2> QED BY <1>2, <2>1, Zenon
<1>9. CASE Reserve
  <2>1. /\ rec'.ev = rec.ev /\ rec'.next = rec.next /\ pc = "reserve" /\ pc' = "append"
        /\ UNCHANGED <<durable, runtime, ledger, run>>
    BY <1>0, <1>9, Zenon DEF Reserve, Records, logVars, nodeVars
  <2> QED BY <2>1, StoredKept, FlowKept, Zenon
<1>10. CASE AppendRecord
  BY <1>10, FlowRecorded, Zenon
<1>11. CASE Round \/ Refreshed \/ EndRound
  <2>1. /\ UNCHANGED <<durable, runtime, ledger>>
        /\ pc' \in {"refresh", "agent", "round"} \/ Record(NoEvidence, "witness")
    BY <1>11, Zenon DEF Round, Refreshed, EndRound, logVars, nodeVars
  <2> QED BY <1>2, <2>1, Zenon
<1>12. ASSUME NEW a \in Allocations, Probe(a) PROVE Stored' /\ Flow'
  <2>1. pc \in {"refresh", "observe"} /\ UNCHANGED <<durable, runtime, ledger>>
    BY <1>12, Zenon DEF Probe, logVars, nodeVars
  <2>2. CASE UNCHANGED pc
    BY <1>2, <2>1, <2>2, Zenon
  <2>3. ASSUME NEW e \in Measured(a), Record(e, pc) PROVE Stored' /\ Flow'
    <3>1. e.kind \notin {"stopped", "deleted"}
      BY Zenon DEF Measured
    <3> QED BY <2>1, <2>3, <3>1, StoredKept, FlowIdle, Zenon
  <2> QED BY <1>12, <2>2, <2>3, Zenon DEF Probe
<1>13. CASE Propose
  <2>1. UNCHANGED <<durable, runtime, ledger>>
    BY <1>13, Zenon DEF Propose, logVars, nodeVars
  <2> QED BY <1>13, <2>1, StoredKept, FlowProposed, Zenon
<1>14. CASE Authorize
  <2>1. UNCHANGED <<durable, runtime, ledger>>
    BY <1>14, Zenon DEF Authorize, logVars, nodeVars
  <2> QED BY <1>14, <2>1, StoredKept, FlowAuthorized, Zenon
<1>15. CASE Execute
  <2>1. UNCHANGED <<durable, runtime, ledger>>
    BY <1>15, Zenon DEF Execute, logVars, nodeVars
  <2> QED BY <1>15, <2>1, StoredKept, FlowExecuted, Zenon
<1>16. CASE Dispatch
  BY <1>16, StoredHandled, FlowDispatched, Zenon DEF Dispatch, logVars
<1>17. CASE ReplyLost
  <2>1. Stored'
    BY <1>17, StoredHandled, Zenon DEF ReplyLost, logVars
  <2>2. Flow'
    BY <1>0, <1>17, FlowIdle, Zenon DEF ReplyLost
  <2> QED BY <2>1, <2>2, Zenon
<1>18. CASE DispatchFails \/ WitnessLock \/ WitnessHead \/ WitnessAnchor
  <2>1. /\ UNCHANGED <<durable, runtime, ledger>>
        /\ pc' \in {"idle", "head", "anchor"} \/ Record(NoEvidence, "witness")
    BY <1>18, Zenon DEF DispatchFails, WitnessLock, WitnessHead, WitnessAnchor, logVars, nodeVars
  <2> QED BY <1>2, <2>1, Zenon
<1>19. CASE ProjectEvidence
  <2>1. UNCHANGED <<durable, runtime, ledger>>
    BY <1>19, Zenon DEF ProjectEvidence, logVars, nodeVars
  <2> QED BY <1>19, <2>1, StoredKept, FlowProjected, Zenon
<1>20. CASE Verify
  <2>1. /\ UNCHANGED <<durable, runtime, ledger>>
        /\ pc' = "agent" \/ Record(NoEvidence, "witness")
    BY <1>20, Zenon DEF Verify, logVars, nodeVars
  <2> QED BY <1>2, <2>1, Zenon
<1>21. CASE Crash \/ Restart
  <2>1. UNCHANGED <<durable, runtime, ledger>> /\ pc' = "idle"
    BY <1>21, Zenon DEF Crash, Restart, Control, logVars, nodeVars
  <2> QED BY <1>2, <2>1, Zenon
<1>22. CASE UNCHANGED vars
  BY <1>1, <1>22, Zenon DEF vars
<1> QED
  BY <1>3, <1>4, <1>5, <1>6, <1>7, <1>8, <1>9, <1>10, <1>11, <1>12, <1>13, <1>14, <1>15,
     <1>16, <1>17, <1>18, <1>19, <1>20, <1>21, <1>22, ZenonT(30) DEF Next, Handlers, Loop

-----------------------------------------------------------------------------
(* At most one incarnation of an allocation with the agents of the          *)
(* repository, whatever operators decide and whatever fails.  A record may   *)
(* be refused after its evidence was projected, so the log may lag behind    *)
(* the world in memory, and may stop replaying.                              *)

\* Nothing was stopped, for no removal reaches a node; what the log knows to
\* exist is in memory at the same node; and what runs is where memory has it,
\* and where the log has it while the log replays.
Standing ==
    /\ \A a \in Allocations : world.phase[a] # "stopped" /\ durable.phase[a] # "stopped"
    /\ Housed(world) /\ Housed(durable)
    /\ up /\ replayable => \A a \in Allocations :
           durable.phase[a] # "absent" => world.node[a] = durable.node[a]
    /\ \A n \in Nodes : \A a \in Allocations : runtime[n][a] = "running" =>
           (up => world.node[a] = n) /\ (replayable => durable.node[a] = n)

\* Evidence that is not recorded yet is of a creation, a start or a readiness.
Growing ==
    /\ pc = "project" \/ Unrecorded => rec.ev.kind \notin {"stopped", "deleted"}
    /\ Unrecorded /\ rec.ev.kind = "created" => world.node[rec.ev.target] = rec.ev.node

Placing(p) == \A i \in 1 .. Len(p) : p[i].node # NoNode => p[i].kind \in {"create", "start"}

\* The kernel judges a plan against the phases and nodes in memory.
Shown ==
    At("authorize") =>
        /\ ~Unrecorded
        /\ run.snap.phase = world.phase /\ run.snap.node = world.node
        /\ Sent(run.snap, run.plan)
        /\ Opening(run.plan) \/ Unsent(run.plan)

\* The i-th action of plan p is sent to a node and nothing before it is about
\* the same allocation.
First(p, i) == p[i].node # NoNode /\ \A j \in 1 .. i - 1 : p[j].target # p[i].target

\* What is left of the plan fits the world in memory, and an allocation is not
\* started before the record of its creation.
Ongoing ==
    Executing =>
        /\ Placing(run.plan) /\ Fits(world, run.plan)
        /\ At("dispatch") => ~Unrecorded
        /\ pc = "project" => rec.ev = EvidenceOf(Head(run.plan)) /\ Head(run.plan).node \in Nodes
        /\ replayable => \A i \in 1 .. Len(run.plan) :
              First(run.plan, i) /\ run.plan[i].kind = "start" =>
                  \/ durable.phase[run.plan[i].target] # "absent"
                  \/ Unrecorded /\ rec.ev.kind = "created" /\ rec.ev.target = run.plan[i].target

Course == Growing /\ Shown /\ Ongoing

TInv == IInv /\ Standing /\ Course

\* A step that changes no phase, no node and no container.
Same ==
    /\ world'.phase = world.phase /\ world'.node = world.node
    /\ durable'.phase = durable.phase /\ durable'.node = durable.node
    /\ up' => up
    /\ replayable' => replayable

LEMMA StandingSame ==
    ASSUME Standing, Same, UNCHANGED runtime
    PROVE  Standing'
  BY DEF Standing, Same, Housed

\* Outside a plan there is nothing to keep.
LEMMA CourseIdle ==
    ASSUME NEW l, l \notin {"authorize", "execute", "dispatch", "project", "reserve", "append"},
           NEW e, e.kind \notin {"created", "stopped", "deleted"}, pc' = l \/ Record(e, l)
    PROVE  Course'
<1>1. CASE pc' = l
  BY <1>1, Zenon DEF Course, Growing, Shown, Ongoing, Executing, At, Unrecorded
<1>2. CASE Record(e, l)
  <2>1. pc' = "reserve" /\ rec'.ev = e /\ rec'.next = l
    BY <1>2, Zenon DEF Record
  <2> QED BY <2>1, Zenon DEF Course, Growing, Shown, Ongoing, Executing, At, Unrecorded
<1> QED BY <1>1, <1>2, Zenon

\* A step elsewhere, or the reservation of a sequence number, keeps it all.
LEMMA CourseSame ==
    ASSUME Course, Same, UNCHANGED run, rec'.ev = rec.ev, rec'.next = rec.next,
           UNCHANGED pc \/ (pc = "reserve" /\ pc' = "append")
    PROVE  Course'
<1>1. /\ \A l \in {"authorize", "execute", "dispatch"} : At(l)' <=> At(l)
      /\ Unrecorded' <=> Unrecorded
      /\ (pc' = "project") <=> (pc = "project")
  BY Zenon DEF At, Unrecorded
<1>2. Growing'
  BY <1>1, Zenon DEF Course, Growing, Same
<1>3. Shown'
  BY <1>1, Zenon DEF Course, Shown, Same
<1>4. Executing' <=> Executing
  BY <1>1, Zenon DEF Executing
<1>5. Executing => Fits(world', run.plan)
  BY FitsLocal, Zenon DEF Course, Ongoing, Same
<1>6. Ongoing'
  BY <1>1, <1>4, <1>5, Zenon DEF Course, Ongoing, Same
<1> QED BY <1>2, <1>3, <1>6, Zenon DEF Course

\* The agent is shown the phases and nodes in memory.
LEMMA CourseProposed ==
    ASSUME Stock, TInv, Propose
    PROVE  Course'
<1> USE DEF TInv, IInv
<1>1. pc = "agent" /\ UNCHANGED world /\ run.turn <= Len(Agents) /\ world \in Worlds
  BY Zenon DEF Propose, TypeOK
<1>2. run.turn \in 1 .. Len(Agents) /\ run \in Runs
  BY <1>1, AgentsLength DEF TypeOK, Control
<1>3. NoEvidence.kind \notin {"created", "stopped", "deleted"}
  BY Zenon DEF NoEvidence
<1>4. CASE Record(NoEvidence, "agent")
  BY <1>3, <1>4, CourseIdle, Zenon
<1>5. CASE UNCHANGED <<pc, rec>>
  BY <1>1, <1>3, <1>5, CourseIdle, Zenon
<1>6. ASSUME NEW o \in Observed(world), NEW p \in Plans(Agents[run.turn], world),
             run' = [run EXCEPT !.snap = o, !.plan = p], Record(NoEvidence, "authorize")
      PROVE  Course'
  <2>1. run'.snap = o /\ run'.plan = p
    BY <1>2, <1>6, Zenon DEF Runs
  <2>2. o.phase = world.phase /\ o.node = world.node
    BY <1>1, Zenon DEF Observed, Worlds
  <2>3. Sent(o, p)
    BY <1>1, <1>2, <2>2, PlansSent, Zenon DEF Sent
  <2>4. Opening(p) \/ Unsent(p)
    <3>1. Agents[run.turn] \in {"remediation-agent", "rollout-agent", "placement-agent"}
      BY <1>2 DEF Agents
    <3>2. Unsent(<<>>)
      BY DEF Unsent, Removes
    <3> QED BY <3>1, <3>2, RemediationForms, PlacementForms, Zenon DEF Plans, StockPlans
  <2>5. pc' = "reserve" /\ rec'.ev = NoEvidence /\ rec'.next = "authorize" /\ ~Unrecorded'
    BY <1>6, Zenon DEF Record, Unrecorded
  <2>6. Growing' /\ Ongoing'
    BY <2>5, Zenon DEF Growing, Ongoing, Executing, At
  <2>7. Shown'
    BY <1>1, <2>1, <2>2, <2>3, <2>4, <2>5, Zenon DEF Shown
  <2> QED BY <2>6, <2>7, Zenon DEF Course
<1> QED BY <1>4, <1>5, <1>6, Zenon DEF Propose
\* A plan the kernel authorized fits the world in memory.
LEMMA CourseAuthorized ==
    ASSUME LeastMembers, TInv, Authorize
    PROVE  Course'
<1> USE DEF TInv, IInv
<1>1. pc = "authorize" /\ UNCHANGED <<world, durable>> /\ run \in Runs
  BY Zenon DEF Authorize, logVars, TypeOK
<1>2. NoEvidence.kind \notin {"created", "stopped", "deleted"}
  BY Zenon DEF NoEvidence
<1>3. CASE Record(NoEvidence, "agent")
  BY <1>2, <1>3, CourseIdle, Zenon
<1>4. ASSUME Authorized(run.snap, run.plan), Record(NoEvidence, "execute"),
             NEW c, run' = [run EXCEPT !.checks = c]
      PROVE  Course'
  <2>1. run'.plan = run.plan
    BY <1>1, <1>4, Zenon DEF Runs
  <2>2. /\ run.snap.phase = world.phase /\ run.snap.node = world.node
        /\ Sent(run.snap, run.plan)
        /\ Opening(run.plan) \/ Unsent(run.plan)
    BY <1>1, Zenon DEF Course, Shown, At
  <2>3. run.snap \in Worlds /\ run.plan \in Seq(Actions)
    BY <1>1, Zenon DEF Runs
  <2>4. Housed(run.snap)
    BY <2>2, Zenon DEF Standing, Housed
  <2>5. Fits(world, run.plan)
    BY <1>4, <2>2, <2>3, <2>4, AuthorizedFits, FitsLocal, Zenon
  <2>6. pc' = "reserve" /\ rec'.ev = NoEvidence /\ rec'.next = "execute" /\ ~Unrecorded'
    BY <1>4, Zenon DEF Record, Unrecorded
  <2>7. Growing' /\ Shown'
    BY <2>6, Zenon DEF Growing, Shown, At
  <2>8. Placing(run.plan)
    BY <2>2, Zenon DEF Placing, Opening, Unsent, Adds
  <2>9. \A i \in 1 .. Len(run.plan) : First(run.plan, i) => run.plan[i].kind # "start"
    BY <2>2, Zenon DEF First, Opening, Unsent
  <2>10. Ongoing'
    BY <1>1, <2>1, <2>5, <2>6, <2>8, <2>9, Zenon DEF Ongoing, At
  <2> QED BY <2>7, <2>10, Zenon DEF Course
<1> QED BY <1>3, <1>4, Zenon DEF Authorize

\* Recording the intent changes nothing that the plan depends on.
LEMMA CourseExecuted ==
    ASSUME TInv, Execute
    PROVE  Course'
<1> USE DEF TInv, IInv
<1>1. pc = "execute" /\ UNCHANGED <<world, durable, replayable>> /\ ~Unrecorded
  BY Zenon DEF Execute, logVars, Unrecorded
<1>2. NoEvidence.kind \notin {"created", "stopped", "deleted"}
  BY Zenon DEF NoEvidence
<1>3. CASE pc' = "observe"
  BY <1>2, <1>3, CourseIdle, Zenon
<1>4. CASE Record(NoEvidence, "dispatch") /\ UNCHANGED run
  <2>1. pc' = "reserve" /\ rec'.ev = NoEvidence /\ rec'.next = "dispatch" /\ ~Unrecorded'
    BY <1>4, Zenon DEF Record, Unrecorded
  <2>2. Growing' /\ Shown'
    BY <2>1, Zenon DEF Growing, Shown, At
  <2>3. Ongoing'
    BY <1>1, <1>4, <2>1, Zenon DEF Course, Ongoing, Executing, At
  <2> QED BY <2>2, <2>3, Zenon DEF Course
<1> QED BY <1>3, <1>4, Zenon DEF Execute

\* An allocation is started where both memory and the log have it.
LEMMA StandingHandled ==
    ASSUME TInv, pc = "dispatch", Handle(Head(run.plan)),
           UNCHANGED <<world, durable, replayable, up>>
    PROVE  Standing'
<1> USE DEF TInv, IInv
<1> DEFINE act == Head(run.plan)
<1>1. run.plan # <<>> /\ run.plan \in Seq(Actions) /\ runtime \in Containers /\ connected \subseteq Nodes
  BY Zenon DEF Control, At, TypeOK, Runs
<1>2. /\ act = run.plan[1] /\ 1 \in 1 .. Len(run.plan) /\ act \in Actions
      /\ act.node \in Nodes /\ act.node # NoNode /\ First(run.plan, 1)
  BY <1>1, WorldAssumption DEF Handle, First
<1>3. /\ Fits(world, run.plan) /\ Placing(run.plan) /\ ~Unrecorded
      /\ replayable /\ act.kind = "start" => durable.phase[act.target] # "absent"
  BY <1>2, Zenon DEF Course, Ongoing, Executing, At, Unrecorded
<1>4. /\ act.kind \in {"create", "start"} /\ act.target \in Allocations
      /\ act.kind = "start" => world.node[act.target] = act.node
  BY <1>2, <1>3, SentWork, Zenon DEF Placing, Fits, First, Suits
<1>5. up
  BY Zenon DEF Control
<1>6. act.kind = "start" => (replayable => durable.node[act.target] = act.node)
  BY <1>3, <1>4, <1>5, Zenon DEF Standing
<1>7. \A n \in Nodes : \A a \in Allocations :
         runtime'[n][a] # runtime[n][a] =>
             n = act.node /\ a = act.target /\ runtime'[n][a] = RuntimeAfter(act)
  <2>1. CASE UNCHANGED runtime
    BY <2>1, Zenon
  <2>2. CASE runtime' = [runtime EXCEPT ![act.node][act.target] = RuntimeAfter(act)]
    BY <1>1, <1>2, <1>4, <2>2, Zenon DEF Containers
  <2> QED BY <2>1, <2>2, Zenon DEF Handle, nodeVars
<1> HIDE DEF act
<1>8. ASSUME NEW n \in Nodes, NEW a \in Allocations, runtime'[n][a] = "running"
      PROVE  (up => world.node[a] = n) /\ (replayable => durable.node[a] = n)
  <2>1. CASE runtime[n][a] = "running"
    BY <2>1, Zenon DEF Standing
  <2>2. CASE runtime[n][a] # "running"
    <3>1. n = act.node /\ a = act.target /\ RuntimeAfter(act) = "running"
      BY <1>7, <1>8, <2>2, Zenon
    <3>2. act.kind = "start"
      BY <1>4, <2>2, <3>1, Zenon DEF RuntimeAfter
    <3> QED BY <1>4, <1>6, <3>1, <3>2, Zenon
  <2> QED BY <2>1, <2>2, Zenon
<1> QED BY <1>8, Zenon DEF Standing, Housed

\* The answer is awaited with the plan as it was.
LEMMA CourseDispatched ==
    ASSUME TInv, Dispatch
    PROVE  Course'
<1> USE DEF TInv, IInv
<1> DEFINE act == Head(run.plan)
<1>1. /\ pc = "dispatch" /\ Handle(act) /\ pc' = "project" /\ ~Unrecorded /\ ~Unrecorded'
      /\ UNCHANGED <<world, durable, replayable, run>>
      /\ rec' = [IdleRecord EXCEPT !.ev = EvidenceOf(act)]
  BY Zenon DEF Dispatch, logVars, Unrecorded
<1>2. run.plan # <<>> /\ run.plan \in Seq(Actions) /\ connected \subseteq Nodes
  BY <1>1, Zenon DEF Control, At, TypeOK, Runs
<1>3. act = run.plan[1] /\ 1 \in 1 .. Len(run.plan) /\ act.node \in Nodes /\ act.node # NoNode
  BY <1>1, <1>2, WorldAssumption DEF Handle
<1>4. act.kind \in {"create", "start"}
  BY <1>1, <1>3, Zenon DEF Course, Ongoing, Executing, At, Placing
<1>5. rec'.ev = EvidenceOf(act) /\ rec'.ev.kind \notin {"stopped", "deleted"}
  BY <1>1, <1>4, Zenon DEF IdleRecord, EvidenceOf
<1>6. Growing' /\ Shown'
  BY <1>1, <1>5, Zenon DEF Growing, Shown, At
<1> HIDE DEF act
<1>7. Ongoing'
  BY <1>1, <1>3, <1>5, Zenon DEF Course, Ongoing, Executing, At, act
<1> QED BY <1>6, <1>7, Zenon DEF Course
\* Projecting what the node answered, ahead of its record.
LEMMA GrowthProjected ==
    ASSUME TInv, ProjectEvidence, Projects(world, rec.ev)
    PROVE  Standing' /\ Course'
<1> USE DEF TInv, IInv
<1> DEFINE act == Head(run.plan)
           e == rec.ev
           v == world'
<1>1. /\ pc = "project" /\ UNCHANGED <<durable, replayable, up, runtime>> /\ ~Unrecorded
      /\ v = Project(world, e) /\ run' = [run EXCEPT !.plan = Tail(@), !.progress = TRUE]
      /\ Record(e, "execute") /\ run \in Runs /\ run.plan # <<>> /\ world \in Worlds
      /\ e \in WorkEvidence
  BY Zenon DEF ProjectEvidence, logVars, nodeVars, serverVars, Unrecorded, TypeOK, Control
<1>2. run'.snap = run.snap /\ run'.plan = Tail(run.plan) /\ run.plan \in Seq(Actions)
  BY <1>1, Zenon DEF Runs
<1>3. /\ Fits(world, run.plan) /\ Placing(run.plan) /\ e = EvidenceOf(act)
      /\ act.node \in Nodes /\ act.node # NoNode
      /\ replayable => \A i \in 1 .. Len(run.plan) :
            First(run.plan, i) /\ run.plan[i].kind = "start" =>
                durable.phase[run.plan[i].target] # "absent"
  BY <1>1, WorldAssumption, Zenon DEF Course, Ongoing, Executing
<1>4. act = run.plan[1] /\ 1 \in 1 .. Len(run.plan) /\ act \in Actions /\ Len(run.plan) \in Nat
  BY <1>1, <1>2, SMTT(30)
<1>5. act.kind \in {"create", "start"} /\ act.target \in Allocations /\ Suits(world, act)
  BY <1>3, <1>4, SentWork, SMTT(30) DEF Placing, Fits
<1>6. /\ e.target = act.target /\ e.node = act.node
      /\ e.kind = IF act.kind = "create" THEN "created" ELSE "running"
  BY <1>3, <1>5 DEF EvidenceOf
<1>7. \A a \in Allocations :
         /\ v.phase[a] = IF a = e.target THEN PhaseProjected(world, e) ELSE world.phase[a]
         /\ v.node[a] = IF a = e.target THEN NodeProjected(world, e) ELSE world.node[a]
  BY <1>1, WorkProjected
<1> HIDE DEF act, e, v
<1>8. \A a \in Allocations :
         \/ v.phase[a] = world.phase[a] /\ v.node[a] = world.node[a]
         \/ world.phase[a] = "created" /\ v.phase[a] = "running" /\ v.node[a] = world.node[a]
         \/ world.phase[a] = "absent" /\ v.phase[a] = "created" /\ v.node[a] \in Nodes
  BY <1>3, <1>5, <1>6, <1>7 DEF PhaseProjected, NodeProjected, Suits
<1>9. Standing'
  <2>1. \A a \in Allocations : v.phase[a] # "stopped" /\ ((v.phase[a] = "absent") <=> (v.node[a] = NoNode))
    BY <1>8, WorldAssumption, Zenon DEF Standing, Housed
  <2>2. \A a \in Allocations : world.node[a] # NoNode => v.node[a] = world.node[a]
    BY <1>8, Zenon DEF Standing, Housed
  <2>3. up /\ replayable => \A a \in Allocations :
           durable.phase[a] # "absent" => v.node[a] = durable.node[a]
    BY <2>2, Zenon DEF Standing, Housed
  <2>4. \A n \in Nodes : \A a \in Allocations : runtime[n][a] = "running" =>
           (up => v.node[a] = n) /\ (replayable => durable.node[a] = n)
    BY <2>2, WorldAssumption, Zenon DEF Standing
  <2> QED BY <1>1, <2>1, <2>3, <2>4 DEF Standing, Housed, v
<1>10. e # NoEvidence
  BY <1>1, NoEvidenceDistinct, Zenon
<1>11. pc' = "reserve" /\ rec'.ev = e /\ rec'.next = "execute" /\ Unrecorded'
  BY <1>1, <1>10, Zenon DEF Record, Unrecorded
<1>12. Growing'
  <2>1. e.kind = "created" => v.node[e.target] = e.node
    BY <1>5, <1>6, <1>7, Zenon DEF NodeProjected, Suits
  <2> QED BY <1>6, <1>11, <2>1, Zenon DEF Growing, v
<1>13. Shown'
  BY <1>11, Zenon DEF Shown, At
<1>14. \A i \in 1 .. Len(Tail(run.plan)) :
          i + 1 \in 1 .. Len(run.plan) /\ Tail(run.plan)[i] = run.plan[i + 1]
  BY <1>1, <1>2
<1>15. Fits(v, Tail(run.plan))
  BY <1>1, <1>2, <1>3, TailFits, Zenon DEF act
<1>16. Placing(Tail(run.plan))
  BY <1>3, <1>14, Zenon DEF Placing
<1>17. ASSUME replayable, NEW i \in 1 .. Len(Tail(run.plan)), First(Tail(run.plan), i),
              Tail(run.plan)[i].kind = "start"
       PROVE  \/ durable.phase[Tail(run.plan)[i].target] # "absent"
              \/ e.kind = "created" /\ e.target = Tail(run.plan)[i].target
  <2> DEFINE q == Tail(run.plan)
  <2>1. i + 1 \in 1 .. Len(run.plan) /\ q[i] = run.plan[i + 1] /\ q[i].node # NoNode
    BY <1>14, <1>17, Zenon DEF First
  <2>2. CASE act.target = q[i].target
    <3>1. 1 \in 1 .. (i + 1) - 1
      OBVIOUS
    <3>2. Follow(act, q[i])
      BY <1>3, <1>4, <2>1, <2>2, <3>1, Zenon DEF Fits
    <3> QED BY <1>5, <1>6, <2>2, <3>2, Zenon DEF Follow
  <2>3. CASE act.target # q[i].target
    <3>1. ASSUME NEW j \in 1 .. (i + 1) - 1 PROVE run.plan[j].target # q[i].target
      <4>1. CASE j = 1
        BY <1>4, <2>3, <4>1, Zenon
      <4>2. CASE j # 1
        <5>1. j - 1 \in 1 .. i - 1 /\ (j - 1) + 1 = j
          BY <4>2
        <5>2. j - 1 \in 1 .. Len(q)
          BY <1>4, <2>1, <5>1
        <5>3. q[j - 1] = run.plan[j]
          BY <1>14, <5>1, <5>2, Zenon
        <5> QED BY <1>17, <5>1, <5>3, Zenon DEF First
      <4> QED BY <4>1, <4>2, Zenon
    <3>2. First(run.plan, i + 1)
      BY <2>1, <3>1, Zenon DEF First
    <3> QED BY <1>3, <1>17, <2>1, <3>2, Zenon
  <2> QED BY <2>2, <2>3, Zenon
<1>18. Ongoing'
  BY <1>1, <1>2, <1>11, <1>15, <1>16, <1>17, Zenon DEF Ongoing, At, v
<1> QED BY <1>9, <1>12, <1>13, <1>18, Zenon DEF Course

\* The log takes the record, or stops replaying.
LEMMA GrowthRecorded ==
    ASSUME TInv, AppendRecord
    PROVE  Standing' /\ Course'
<1> USE DEF TInv, IInv
<1>1. /\ pc = "append" /\ Commit(rec.ev) /\ pc' = rec.next /\ rec' = IdleRecord
      /\ UNCHANGED <<up, world, run, runtime>> /\ rec \in Records /\ durable \in Worlds
  BY Zenon DEF AppendRecord, serverVars, nodeVars, TypeOK
<1>2. rec.next \in Returns /\ pc' \notin {"reserve", "append", "project"}
  BY <1>1, Zenon DEF Records, Returns
<1>3. ~Unrecorded' /\ \A l \in {"authorize", "execute", "dispatch"} : At(l)' => At(l)
  BY <1>1, <1>2, Zenon DEF Unrecorded, At
<1>4. CASE UNCHANGED <<durable, replayable>> /\ rec.ev = NoEvidence
  <2>1. Standing'
    BY <1>1, <1>4, Zenon DEF Standing, Housed
  <2>2. ~Unrecorded
    BY <1>4, Zenon DEF Unrecorded
  <2>3. Growing' /\ Shown'
    BY <1>1, <1>2, <1>3, Zenon DEF Course, Growing, Shown
  <2>4. Ongoing'
    BY <1>1, <1>2, <1>3, <1>4, <2>2, Zenon DEF Course, Ongoing, Executing
  <2> QED BY <2>1, <2>3, <2>4, Zenon DEF Course
<1>5. CASE rec.ev # NoEvidence
  <2>1. Unrecorded /\ rec.ev \in WorkEvidence
    BY <1>1, <1>5, Zenon DEF Unrecorded, Records
  <2>2. Growing' /\ Shown'
    BY <1>1, <1>2, <1>3, <2>1, Zenon DEF Course, Growing, Shown
  <2>3. CASE ~replayable' /\ UNCHANGED durable
    <3>1. Standing'
      BY <1>1, <2>3, Zenon DEF Standing, Housed
    <3>2. Ongoing'
      BY <1>1, <1>2, <1>3, <2>3, ZenonT(30) DEF Course, Ongoing, Executing
    <3> QED BY <2>2, <3>1, <3>2, Zenon DEF Course
  <2>4. CASE durable' = Project(durable, rec.ev) /\ replayable /\ Projects(durable, rec.ev)
    <3> DEFINE e == rec.ev
               w == durable
               v == durable'
    <3>1. \A a \in Allocations :
             /\ v.phase[a] = IF a = e.target THEN PhaseProjected(w, e) ELSE w.phase[a]
             /\ v.node[a] = IF a = e.target THEN NodeProjected(w, e) ELSE w.node[a]
      BY <1>1, <2>1, <2>4, WorkProjected
    <3>2. /\ e.kind \in {"created", "running", "ready", "unready"}
          /\ e.target \in Allocations /\ e.node \in Nodes
          /\ e.kind = "created" => world.node[e.target] = e.node
      BY <2>1, Zenon DEF Course, Growing, WorkEvidence, WorkKinds
    <3>3. e.kind # "created" => w.phase[e.target] # "absent"
      BY <2>4, <3>2, Zenon DEF Projects
    <3> HIDE DEF e, w, v
    <3>4. \A a \in Allocations :
             \/ v.phase[a] = w.phase[a] /\ v.node[a] = w.node[a]
             \/ w.phase[a] # "absent" /\ v.phase[a] = "running" /\ v.node[a] = w.node[a]
             \/ /\ w.phase[a] = "absent" /\ v.phase[a] = "created" /\ v.node[a] \in Nodes
                /\ v.node[a] = world.node[a]
      BY <3>1, <3>2, <3>3, Zenon DEF PhaseProjected, NodeProjected
    <3>5. \A a \in Allocations :
             v.phase[a] # "stopped" /\ ((v.phase[a] = "absent") <=> (v.node[a] = NoNode))
      BY <3>4, WorldAssumption, ZenonT(30) DEF Standing, Housed, w
    <3>6. up => \A a \in Allocations : v.phase[a] # "absent" => world.node[a] = v.node[a]
      BY <2>4, <3>4, Zenon DEF Standing, w
    <3>7. \A n \in Nodes : \A a \in Allocations : runtime[n][a] = "running" =>
             (up => world.node[a] = n) /\ v.node[a] = n
      BY <2>4, <3>4, WorldAssumption, SMTT(30) DEF Standing, Housed, w
    <3>8. Standing'
      BY <1>1, <3>5, <3>6, <3>7 DEF Standing, Housed, v
    <3>9. \A a \in Allocations : w.phase[a] # "absent" => v.phase[a] # "absent"
      BY <3>4, Zenon
    <3>10. v.phase[e.target] # "absent" \/ e.kind # "created"
      BY <3>1, <3>2, Zenon DEF PhaseProjected
    <3>11. run.plan \in Seq(Actions)
      BY Zenon DEF TypeOK, Runs
    <3>12. ASSUME Executing, NEW i \in 1 .. Len(run.plan), First(run.plan, i), run.plan[i].kind = "start"
           PROVE  v.phase[run.plan[i].target] # "absent"
      <4>1. run.plan[i].target \in Allocations
        BY <3>11, <3>12, SentWork DEF First
      <4>2. w.phase[run.plan[i].target] # "absent" \/ (e.kind = "created" /\ e.target = run.plan[i].target)
        BY <2>4, <3>12, Zenon DEF Course, Ongoing, w, e
      <4> QED BY <3>9, <3>10, <4>1, <4>2, SMTT(30)
    <3>13. Ongoing'
      BY <1>1, <1>2, <1>3, <3>12, Zenon DEF Course, Ongoing, Executing, v
    <3> QED BY <2>2, <3>8, <3>13, Zenon DEF Course
  <2>5. \/ durable' = Project(durable, rec.ev) /\ replayable /\ Projects(durable, rec.ev)
        \/ ~replayable' /\ UNCHANGED durable
    BY <1>1, <1>5, Zenon DEF Commit
  <2> QED BY <2>3, <2>4, <2>5, Zenon
<1> QED BY <1>1, <1>4, <1>5, Zenon DEF Commit
\* Every step of a server with the agents of the repository.
LEMMA GrowthStep ==
    ASSUME LeastMembers, Stock, TInv, [Next]_vars
    PROVE  Standing' /\ Course'
<1> USE DEF TInv, IInv
<1>0. /\ NoEvidence.kind \notin {"created", "stopped", "deleted"}
      /\ rec \in Records /\ durable \in Worlds /\ world \in Worlds
  BY Zenon DEF NoEvidence, TypeOK
<1>1. UNCHANGED <<world, durable, replayable, up>> => Same
  BY DEF Same
<1>2. CASE Same /\ UNCHANGED <<runtime, pc, rec, run>>
  BY <1>2, StandingSame, CourseSame, Zenon
<1>3. ASSUME Same, UNCHANGED runtime, NEW l,
             l \notin {"authorize", "execute", "dispatch", "project", "reserve", "append"},
             pc' = l \/ Record(NoEvidence, l)
      PROVE  Standing' /\ Course'
  BY <1>0, <1>3, StandingSame, CourseIdle, Zenon
<1>4. CASE \/ \E e \in Decisions : Decide(e)
           \/ ObserveReserve \/ ObserveHead \/ Submit \/ \E n \in Nodes : Enroll(n)
  <2>1. UNCHANGED <<world, durable, replayable, up, runtime, pc, rec, run>>
    BY <1>4, Zenon DEF Decide, ObserveReserve, ObserveHead, Submit, Enroll, serverVars, logVars, nodeVars
  <2> QED BY <1>1, <1>2, <2>1, Zenon
<1>5. CASE ObserveAppend
  <2>1. /\ UNCHANGED <<up, world, runtime, pc, rec, run>> /\ Commit(obs.ev)
        /\ obs.ev \in Observations
    BY <1>5, Zenon DEF ObserveAppend, Control, serverVars, nodeVars
  <2>2. obs.ev # NoEvidence
    BY <2>1, NoEvidenceDistinct, Zenon
  <2>3. CASE durable' = Project(durable, obs.ev) /\ UNCHANGED replayable
    <3>1. durable'.phase = durable.phase /\ durable'.node = durable.node
      BY <1>0, <2>1, <2>3, ProjectObservationFields, Zenon
    <3>2. Same
      BY <2>1, <2>3, <3>1, Zenon DEF Same
    <3> QED BY <1>2, <2>1, <3>2, Zenon
  <2>4. CASE ~replayable' /\ UNCHANGED durable
    <3>1. Same
      BY <2>1, <2>4, Zenon DEF Same
    <3> QED BY <1>2, <2>1, <3>1, Zenon
  <2>5. \/ durable' = Project(durable, obs.ev) /\ UNCHANGED replayable
        \/ ~replayable' /\ UNCHANGED durable
    BY <2>1, <2>2, Zenon DEF Commit
  <2> QED BY <2>3, <2>4, <2>5, Zenon
<1>6. CASE ObserveRefused \/ ObserveWitness
  <2>1. /\ UNCHANGED <<world, durable, replayable, up, runtime, rec, run>>
        /\ UNCHANGED pc \/ pc' = "reconcile"
    BY <1>6, Zenon DEF ObserveRefused, ObserveWitness, Release, serverVars, logVars, nodeVars
  <2> QED BY <1>1, <1>2, <1>3, <2>1, Zenon
<1>7. CASE ObserveProject
  <2>1. /\ world' = Project(world, obs.ev) /\ obs.ev \in Observations
        /\ UNCHANGED <<durable, replayable, up, runtime, rec>>
    BY <1>7, Zenon DEF ObserveProject, Control, serverVars, logVars, nodeVars
  <2>2. world'.phase = world.phase /\ world'.node = world.node
    BY <1>0, <2>1, ProjectObservationFields, Zenon
  <2>3. Same
    BY <2>1, <2>2, Zenon DEF Same
  <2>4. (UNCHANGED <<pc, run>>) \/ pc' = "reconcile" \/ (pc' = pc /\ pc = "observing")
    BY <1>7, Zenon DEF ObserveProject, Release, Control
  <2> QED BY <1>2, <1>3, <2>1, <2>3, <2>4, Zenon
<1>8. CASE Tick \/ Reconcile \/ Round \/ Refreshed \/ EndRound
  <2>1. /\ UNCHANGED <<world, durable, replayable, up, runtime>>
        /\ \/ pc' \in {"idle", "observing", "reconcile", "refresh", "agent", "round"}
           \/ Record(NoEvidence, "round") \/ Record(NoEvidence, "witness")
    BY <1>8, Zenon DEF Tick, Reconcile, Round, Refreshed, EndRound, serverVars, logVars, nodeVars
  <2> QED BY <1>1, <1>3, <2>1, Zenon
<1>9. CASE Reserve
  <2>1. /\ rec'.ev = rec.ev /\ rec'.next = rec.next /\ pc = "reserve" /\ pc' = "append"
        /\ UNCHANGED <<world, durable, replayable, up, runtime, run>>
    BY <1>0, <1>9, Zenon DEF Reserve, Records, serverVars, logVars, nodeVars
  <2> QED BY <1>1, <2>1, StandingSame, CourseSame, Zenon
<1>10. CASE AppendRecord
  BY <1>10, GrowthRecorded, Zenon
<1>11. ASSUME NEW a \in Allocations, Probe(a) PROVE Standing' /\ Course'
  <2>1. pc \in {"refresh", "observe"} /\ UNCHANGED <<durable, replayable, up, runtime>>
    BY <1>11, Zenon DEF Probe, serverVars, logVars, nodeVars
  <2>2. CASE UNCHANGED <<world, pc, rec>>
    BY <1>1, <1>3, <2>1, <2>2, Zenon
  <2>3. ASSUME NEW e \in Measured(a), world' = Project(world, e), Record(e, pc)
        PROVE  Standing' /\ Course'
    <3>1. e \in WorkEvidence /\ e.kind \in {"ready", "unready"}
      BY Zenon DEF Measured
    <3>2. /\ world' \in Worlds
          /\ \A x \in Allocations : world'.phase[x] = world.phase[x] /\ world'.node[x] = world.node[x]
      BY <1>0, <2>3, <3>1, WorkProjected, SMTT(30) DEF PhaseProjected, NodeProjected
    <3>3. world'.phase = world.phase /\ world'.node = world.node
      BY <1>0, <3>2 DEF Worlds
    <3>4. Same
      BY <2>1, <3>3, Zenon DEF Same
    <3> QED BY <2>1, <2>3, <3>1, <3>4, StandingSame, CourseIdle, Zenon
  <2> QED BY <1>11, <2>2, <2>3, Zenon DEF Probe
<1>12. CASE Propose \/ Authorize \/ Execute
  <2>1. UNCHANGED <<world, durable, replayable, up, runtime>>
    BY <1>12, Zenon DEF Propose, Authorize, Execute, serverVars, logVars, nodeVars
  <2> QED BY <1>1, <1>12, <2>1, StandingSame, CourseProposed, CourseAuthorized, CourseExecuted, Zenon
<1>13. CASE Dispatch
  BY <1>13, StandingHandled, CourseDispatched, Zenon DEF Dispatch, serverVars, logVars
<1>14. CASE ReplyLost
  <2>1. Standing'
    BY <1>14, StandingHandled, Zenon DEF ReplyLost, serverVars, logVars
  <2>2. Course'
    BY <1>0, <1>14, CourseIdle, Zenon DEF ReplyLost
  <2> QED BY <2>1, <2>2, Zenon
<1>15. CASE AppendRefused \/ DispatchFails \/ Verify \/ WitnessLock \/ WitnessHead \/ WitnessAnchor
  <2>1. /\ UNCHANGED <<world, durable, replayable, up, runtime>>
        /\ pc' \in {"idle", "agent", "witness", "head", "anchor"} \/ Record(NoEvidence, "witness")
    BY <1>15, Zenon DEF AppendRefused, DispatchFails, Verify, WitnessLock, WitnessHead, WitnessAnchor,
                 serverVars, logVars, nodeVars
  <2> QED BY <1>1, <1>3, <2>1, Zenon
<1>16. CASE ProjectEvidence
  <2>1. CASE Projects(world, rec.ev)
    BY <1>16, <2>1, GrowthProjected, Zenon
  <2>2. CASE ~Projects(world, rec.ev)
    <3>1. /\ UNCHANGED <<world, durable, replayable, up, runtime>>
          /\ Record(NoEvidence, "witness")
      BY <1>16, <2>2, Zenon DEF ProjectEvidence, serverVars, logVars, nodeVars
    <3> QED BY <1>1, <1>3, <3>1, Zenon
  <2> QED BY <2>1, <2>2, Zenon
<1>17. CASE Crash
  <2>1. /\ ~up' /\ world' = BaseWorld /\ pc' = "idle" /\ UNCHANGED <<durable, replayable, runtime>>
    BY <1>17, Zenon DEF Crash, logVars, nodeVars
  <2>2. Standing'
    BY <2>1, Zenon DEF Standing, Housed, BaseWorld
  <2> QED BY <1>0, <2>1, <2>2, CourseIdle, Zenon
<1>18. CASE Restart
  <2>1. /\ world' = durable /\ pc' = "idle" /\ replayable /\ UNCHANGED <<durable, replayable, runtime>>
    BY <1>18, Zenon DEF Restart, Control, logVars, nodeVars
  <2>2. Standing'
    BY <2>1, Zenon DEF Standing, Housed
  <2> QED BY <1>0, <2>1, <2>2, CourseIdle, Zenon
<1>19. CASE UNCHANGED vars
  BY <1>1, <1>2, <1>19, Zenon DEF vars
<1> QED
  BY <1>4, <1>5, <1>6, <1>7, <1>8, <1>9, <1>10, <1>11, <1>12, <1>13, <1>14, <1>15,
     <1>16, <1>17, <1>18, <1>19, Zenon DEF Next, Handlers, Loop
\* Only a dispatch reaches a node.
LEMMA RuntimeSteps ==
    ASSUME [Next]_vars
    PROVE  (UNCHANGED runtime) \/ Dispatch \/ ReplyLost
<1>1. Handlers => UNCHANGED runtime
  BY Zenon DEF Handlers, Decide, ObserveReserve, ObserveAppend, ObserveRefused, ObserveHead,
         ObserveWitness, ObserveProject, Submit, Enroll, nodeVars
<1>2. Tick \/ Reconcile \/ Reserve \/ AppendRecord \/ AppendRefused => UNCHANGED runtime
  BY Zenon DEF Tick, Reconcile, Reserve, AppendRecord, AppendRefused, nodeVars
<1>3. Round \/ (\E a \in Allocations : Probe(a)) \/ Refreshed \/ Propose \/ EndRound => UNCHANGED runtime
  BY Zenon DEF Round, Probe, Refreshed, Propose, EndRound, nodeVars
<1>4. Authorize \/ Execute \/ DispatchFails \/ ProjectEvidence \/ Verify => UNCHANGED runtime
  BY Zenon DEF Authorize, Execute, DispatchFails, ProjectEvidence, Verify, nodeVars
<1>5. WitnessLock \/ WitnessHead \/ WitnessAnchor \/ Crash \/ Restart => UNCHANGED runtime
  BY Zenon DEF WitnessLock, WitnessHead, WitnessAnchor, Crash, Restart, nodeVars
<1>6. UNCHANGED vars => UNCHANGED runtime
  BY Zenon DEF vars
<1> QED BY <1>1, <1>2, <1>3, <1>4, <1>5, <1>6, Zenon DEF Next, Loop

-----------------------------------------------------------------------------
(* The invariants over time.                                                *)

LEMMA OneWhenRecorded ==
    ASSUME LeastMembers, Decisions = {}, "append" \notin Faults
    PROVE  Spec => []SingleIncarnation
<1>1. Init => SInv
  <2> SUFFICES ASSUME Init PROVE SInv
    BY Zenon
  <2>1. pc = "idle" /\ obs.at = "free" /\ ~lapsed
    BY Zenon DEF Init, MutexFree
  <2>2. Calm
    BY <2>1, Zenon DEF Calm
  <2>3. Stored
    BY Zenon DEF Init, BaseWorld, Stored, Housed, Located, Kept
  <2>4. Flow
    BY <2>1, Zenon DEF Flow, Silent, Judged, Underway, Executing, At, Unrecorded
  <2> QED BY <2>2, <2>3, <2>4, Initially, Zenon DEF SInv
<1>2. SInv /\ [Next]_vars => SInv'
  <2> SUFFICES ASSUME SInv, [Next]_vars PROVE SInv'
    BY Zenon
  <2>1. IInv'
    BY TypeStep, ControlStep, AnchoredStep, ReplayStep, Zenon DEF SInv, IInv
  <2>2. Calm'
    BY CalmStep, Zenon DEF SInv
  <2>3. Stored' /\ Flow'
    BY IncarnationStep, Zenon
  <2> QED BY <2>1, <2>2, <2>3, Zenon DEF SInv
<1>3. SInv => SingleIncarnation
  BY Zenon DEF SInv, Stored, Located, SingleIncarnation
<1> QED BY <1>1, <1>2, <1>3, PTL DEF Spec

LEMMA OneWithStockAgents ==
    ASSUME LeastMembers, Stock
    PROVE  Spec => []SingleIncarnation
<1> DEFINE Inv == TInv /\ SingleIncarnation
<1>1. Init => Inv
  <2> SUFFICES ASSUME Init PROVE Inv
    BY Zenon
  <2>1. Standing /\ SingleIncarnation
    BY Zenon DEF Init, BaseWorld, Standing, Housed, SingleIncarnation
  <2>2. Course
    BY Zenon DEF Init, Course, Growing, Shown, Ongoing, Executing, At, Unrecorded
  <2> QED BY <2>1, <2>2, Initially, Zenon DEF TInv
<1>2. Inv /\ [Next]_vars => Inv'
  <2> SUFFICES ASSUME Inv, [Next]_vars PROVE Inv'
    BY Zenon
  <2>1. IInv'
    BY TypeStep, ControlStep, AnchoredStep, ReplayStep, Zenon DEF TInv, IInv
  <2>2. Standing' /\ Course'
    BY GrowthStep, Zenon
  <2>3. (UNCHANGED runtime) \/ up'
    <3>1. Dispatch \/ ReplyLost => up'
      BY SMTT(30) DEF TInv, IInv, Control, Dispatch, ReplyLost, serverVars
    <3> QED BY <3>1, RuntimeSteps, Zenon
  <2>4. SingleIncarnation'
    BY <2>2, <2>3 DEF Standing, SingleIncarnation
  <2> QED BY <2>1, <2>2, <2>4, Zenon DEF TInv
<1> HIDE DEF Inv
<1>3. Inv => SingleIncarnation
  BY Zenon DEF Inv
<1> QED BY <1>1, <1>2, <1>3, PTL DEF Spec

-----------------------------------------------------------------------------
(* Least members, from the library, and the theorems.                        *)

LOCAL INSTANCE WellFoundedInduction

LEMMA LeastOf == LeastMembers
<1> SUFFICES ASSUME NEW S \in SUBSET Nat, S # {}
             PROVE  \E x \in S : \A y \in S : x <= y
  BY Zenon DEF LeastMembers
<1> DEFINE less == OpToRel(<, Nat)
<1>1. IsWellFoundedOn(less, Nat)
  BY NatLessThanWellFounded, Zenon
<1> HIDE DEF less
<1>2. PICK x \in S : \A y \in S : ~(<<y, x>> \in less)
  BY <1>1, WFMin, Zenon
<1>3. ASSUME NEW y \in S PROVE x <= y
  <2>1. x \in Nat /\ y \in Nat /\ <<y, x>> \in Nat \X Nat
    BY Zenon
  <2>2. y < x => <<y, x>> \in less
    BY <2>1, Zenon DEF OpToRel, less
  <2> QED BY <1>2, <2>1, <2>2
<1> QED BY <1>2, <1>3, Zenon

\* server/server.go ("relocating on silence is how one workload becomes two"):
\* when the log takes every record, an allocation runs on at most one node, for
\* any agents within their grants, any answers lost on the way and any crashes.
THEOREM AtMostOneIncarnation ==
    ASSUME Decisions = {}, "append" \notin Faults
    PROVE  Spec => []SingleIncarnation
  BY LeastOf, OneWhenRecorded, Zenon

\* The same with the agents of the repository (control/agents.go,
\* control/remediation.go), whatever records are refused, answers lost and
\* decisions made, and even when the log no longer replays: an allocation never
\* runs on two nodes.
THEOREM StockAgentsOneIncarnation ==
    ASSUME Stock
    PROVE  Spec => []SingleIncarnation
  BY LeastOf, OneWithStockAgents, Zenon

=============================================================================
