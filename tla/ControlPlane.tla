---------------------------- MODULE ControlPlane ----------------------------
(***************************************************************************)
(* One a4s server over its event log.  The reconcile loop (cmd/a4s/main.go *)
(* reconcileLoop, control/engine.go) drives a goal: it proposes,           *)
(* authorizes, dispatches to nodes, projects the evidence into the         *)
(* in-memory world and records it.  API handlers (server/server.go) record *)
(* operator decisions at the same time.  Both append to one hash-chained   *)
(* log (eventlog/store.go), and witness its head in an anchor.  The server *)
(* may crash between any two steps and restarts by replaying the log       *)
(* (control/durable.go).                                                   *)
(*                                                                         *)
(* The loop projects first and records afterwards; a handler records first *)
(* and projects afterwards.  The handlers hold the server's mutex and the  *)
(* loop does not, and a record reserves its sequence number in one call    *)
(* and is appended by another.                                             *)
(*                                                                         *)
(* The log is kept as the number of its records and the world its evidence *)
(* replays to, which is all that a reader of it learns here.               *)
(***************************************************************************)
EXTENDS World

CONSTANTS
    Decisions,   \* the decisions operators may make, a set of Observations
    Faults,      \* what may fail: "append", "reply" (executed, answer lost)
    Stock,       \* the agents are the repository's, not arbitrary ones
    PlanLength,  \* actions in a proposal (MaxActionsPerProposal)
    MaxRounds,   \* rounds of one reconciliation (Config.MaxRounds)
    MaxRecords   \* bound on the length of the log

ASSUME ControlPlaneAssumption ==
    /\ Decisions \subseteq Observations
    /\ Faults \subseteq {"append", "reply"}
    /\ Stock \in BOOLEAN
    /\ PlanLength \in Nat
    /\ MaxRounds \in Nat
    /\ MaxRecords \in Nat

VARIABLES
    up,          \* the server process runs
    submitted,   \* Server.goals holds the goal (memory only)
    world,       \* DurableProjector.world
    durable,     \* the world the recorded evidence replays to
    replayable,  \* replaying the recorded evidence meets no error
    count,       \* records in the log
    anchor,      \* the highest sequence the anchor witnessed
    obs,         \* the appendObservation in progress under Server.mu
    pc,          \* where the reconcile loop is
    rec,         \* the engine's record call in progress
    run,         \* the engine's local state
    lapsed,      \* since the start, evidence was projected and not recorded
    connected,   \* nodes in the registry
    runtime,     \* containers on each node
    ledger       \* idempotency keys each node has stored a result for

logVars == <<durable, replayable, count>>
nodeVars == <<runtime, ledger>>
serverVars == <<up, submitted, connected>>
vars == <<up, submitted, world, durable, replayable, count, anchor, obs, pc,
          rec, run, lapsed, connected, runtime, ledger>>

-----------------------------------------------------------------------------
\* An event without evidence (accepted, denied, dispatched, blocked...) takes
\* a sequence number and replays to nothing.
NoEvidence == [kind |-> "none"]

\* The server's agents, in order; the network agent has no route to publish.
Agents == <<"remediation-agent", "rollout-agent", "placement-agent">>

Grants(agent) ==
    CASE agent = "remediation-agent" -> {"cordon", "stop", "delete"}
      [] agent = "rollout-agent"     -> {"stop", "delete"}
      [] agent = "placement-agent"   -> {"create", "start"}

Step(kind, target, n) == [kind |-> kind, target |-> target, node |-> n]

\* The remediation agent's ladder: cordon an unhealthy node that holds the
\* workload, else retire a stopped allocation, else move one off a cordoned
\* node.  Its actions name no node to send them to.
RemediationPlans(w) ==
    LET failed == {n \in Nodes \ (w.healthy \cup w.cordoned) :
                      \E a \in Allocations : w.node[a] = n}
        stopped == {a \in Allocations : w.phase[a] = "stopped"}
        evacuable == {a \in Allocations : w.node[a] \in w.cordoned}
    IN  CASE failed # {}    -> {<<Step("cordon", n, NoNode)>> : n \in failed}
          [] failed = {} /\ stopped # {} ->
                 {<<Step("delete", a, NoNode)>> : a \in stopped}
          [] failed = {} /\ stopped = {} /\ evacuable # {} ->
                 {<<Step("stop", a, NoNode), Step("delete", a, NoNode)>> :
                     a \in evacuable}
          [] OTHER -> {<<>>}

\* Placement fills the slots of replicas that are absent or stopped, two in one
\* proposal when there are (MaxReplicasPerProposal), on nodes that are healthy
\* and not cordoned; without one it fails.
Place(a, w) == {<<Step("create", a, n), Step("start", a, n)>> :
                   n \in w.healthy \ w.cordoned}

PlacementPlans(w) ==
    LET open == {a \in Allocations : w.phase[a] \in {"absent", "stopped"}}
        batch(a) == IF open = {a} THEN Place(a, w)
                    ELSE UNION {{p \o q : p \in Place(a, w), q \in Place(b, w)} :
                                   b \in open \ {a}}
    IN  IF open = {} THEN {<<>>} ELSE UNION {batch(a) : a \in open}

\* Nothing has drifted from the goal, so rollout has nothing to retire.
StockPlans(agent, w) ==
    CASE agent = "remediation-agent" -> RemediationPlans(w)
      [] agent = "rollout-agent"     -> {<<>>}
      [] agent = "placement-agent"   -> PlacementPlans(w)

\* Any other agent is bound only by its grants.  As every agent of the
\* repository does, and the kernel does not check, it sends an action to the
\* node that holds the allocation, and those of one plan to one node.
AnyPlans(agent, w) ==
    LET granted == {act \in WorkActions :
                       /\ act.kind \in Grants(agent) /\ act.node # NoNode
                       /\ act.kind = "create" \/ w.node[act.target] \in {NoNode, act.node}}
    IN  {p \in UNION {[1 .. n -> granted] : n \in 0 .. PlanLength} :
            \A i, j \in 1 .. Len(p) :
                p[i].target = p[j].target => p[i].node = p[j].node}

Plans(agent, w) ==
    IF Stock THEN StockPlans(agent, w)
    ELSE IF agent = "remediation-agent" THEN RemediationPlans(w) \cup {<<>>}
    ELSE AnyPlans(agent, w)

IdleRecord == [ev |-> NoEvidence, next |-> "idle", seq |-> 0]

IdleRun == [rounds |-> 0, turn |-> 1, progress |-> FALSE, snap |-> BaseWorld,
            plan |-> <<>>, checks |-> {}, todo |-> {}, head |-> 0]

\* Server.mu is free, or held by an API handler or by the loop's ObserveNodes.
MutexFree == [by |-> "none", at |-> "free", ev |-> NoEvidence,
              seq |-> 0, head |-> 0]

Init ==
    /\ up = TRUE /\ submitted = FALSE
    /\ world = BaseWorld /\ durable = BaseWorld /\ replayable = TRUE
    /\ count = 0 /\ anchor = 0
    /\ obs = MutexFree
    /\ pc = "idle" /\ rec = IdleRecord /\ run = IdleRun /\ lapsed = FALSE
    /\ connected = {}
    /\ runtime = [n \in Nodes |-> [a \in Allocations |-> "absent"]]
    /\ ledger = {}

-----------------------------------------------------------------------------
(* The event log.                                                           *)

\* File.Append accepts only the next sequence number.
Appendable(seq) == seq = count + 1

\* A record is committed; a restart will replay its evidence after all the
\* earlier ones, and the first error ends the replay for good.
Commit(e) ==
    /\ count' = count + 1
    /\ IF e = NoEvidence
         THEN UNCHANGED <<durable, replayable>>
         ELSE IF replayable /\ Projects(durable, e)
                THEN durable' = Project(durable, e) /\ UNCHANGED replayable
                ELSE replayable' = FALSE /\ UNCHANGED durable

\* Anchor.Witness refuses to go back.
Witness(head) == anchor' = IF head >= anchor THEN head ELSE anchor

-----------------------------------------------------------------------------
(* API handlers and ObserveNodes: appendObservation under Server.mu.        *)

Begin(who, e) == obs' = [MutexFree EXCEPT !.by = who, !.at = "reserve", !.ev = e]

\* The handler returns; when it was ObserveNodes, the loop goes on.
Release ==
    /\ obs' = MutexFree
    /\ pc' = IF obs.by = "loop" THEN "reconcile" ELSE pc

\* Approve needs a submitted goal, Revoke a known approval.
Decide(e) ==
    /\ up /\ obs.at = "free" /\ e \in Decisions
    /\ e.kind = "granted" => submitted
    /\ e.kind = "revoked" => world.approval[e.target] # "none"
    /\ Begin("api", e)
    /\ UNCHANGED <<serverVars, world, logVars, anchor, pc, rec, run, lapsed,
                   nodeVars>>

ObserveReserve ==
    /\ obs.at = "reserve" /\ count < MaxRecords
    /\ obs' = [obs EXCEPT !.at = "append", !.seq = count + 1]
    /\ UNCHANGED <<serverVars, world, logVars, anchor, pc, rec, run, lapsed,
                   nodeVars>>

ObserveAppend ==
    /\ obs.at = "append" /\ Appendable(obs.seq)
    /\ Commit(obs.ev)
    /\ obs' = [obs EXCEPT !.at = "head"]
    /\ UNCHANGED <<serverVars, world, anchor, pc, rec, run, lapsed, nodeVars>>

\* Mutant: the error of a refused record is dropped.
ObserveIgnoresRefusal ==
    /\ obs.at = "append" /\ (~Appendable(obs.seq) \/ "append" \in Faults)
    /\ obs' = [obs EXCEPT !.at = "project"]
    /\ UNCHANGED <<serverVars, world, logVars, anchor, pc, rec, run, lapsed,
                   nodeVars>>

\* Nothing was recorded and nothing is projected: the caller is told so.
ObserveRefused ==
    /\ obs.at = "append" /\ (~Appendable(obs.seq) \/ "append" \in Faults)
    /\ Release
    /\ UNCHANGED <<serverVars, world, logVars, anchor, rec, run, lapsed,
                   nodeVars>>

ObserveHead ==
    /\ obs.at = "head"
    /\ obs' = [obs EXCEPT !.at = "witness", !.head = count]
    /\ UNCHANGED <<serverVars, world, logVars, anchor, pc, rec, run, lapsed,
                   nodeVars>>

\* A refused witness returns before the recorded evidence is projected.
ObserveWitness ==
    /\ obs.at = "witness"
    /\ Witness(obs.head)
    /\ IF obs.head >= anchor
         THEN obs' = [obs EXCEPT !.at = "project"] /\ UNCHANGED <<pc, lapsed>>
         ELSE Release /\ lapsed' = TRUE
    /\ UNCHANGED <<serverVars, world, logVars, rec, run, nodeVars>>

\* What ObserveNodes records of a node whose reachability changed.
Flip(n) == [kind |-> IF n \in world.healthy THEN "unreachable" ELSE "reachable",
            target |-> n]

\* ObserveNodes goes on with the next node whose reachability changed.
ObserveProject ==
    /\ obs.at = "project"
    /\ world' = Project(world, obs.ev)
    /\ \/ /\ obs.by = "api" \/ run.todo = {}
          /\ Release /\ UNCHANGED run
       \/ \E n \in run.todo :
            /\ obs.by = "loop"
            /\ Begin("loop", Flip(n))
            /\ run' = [run EXCEPT !.todo = @ \ {n}]
            /\ UNCHANGED pc
    /\ UNCHANGED <<serverVars, logVars, anchor, rec, lapsed, nodeVars>>

\* Submit stores the goal under the mutex; the registry adds an enrolled node
\* and never drops it while the server runs.
Submit ==
    /\ up /\ ~submitted /\ obs.at = "free"
    /\ submitted' = TRUE
    /\ UNCHANGED <<up, connected, world, logVars, anchor, obs, pc, rec, run,
                   lapsed, nodeVars>>

Enroll(n) ==
    /\ up /\ n \notin connected
    /\ connected' = connected \cup {n}
    /\ UNCHANGED <<up, submitted, world, logVars, anchor, obs, pc, rec, run,
                   lapsed, nodeVars>>

-----------------------------------------------------------------------------
(* The reconcile loop and the engine.                                       *)

\* Engine.record is called with evidence e (or none) and continues at l.
Record(e, l) == pc' = "reserve" /\ rec' = [ev |-> e, next |-> l, seq |-> 0]

\* A tick first records which nodes changed their reachability.
Tick ==
    /\ pc = "idle" /\ up /\ obs.at = "free"
    /\ LET changed == {n \in Nodes : (n \in world.healthy) # (n \in connected)}
       IN  \/ /\ changed = {}
              /\ pc' = "reconcile" /\ UNCHANGED <<obs, run>>
           \/ \E n \in changed :
                /\ Begin("loop", Flip(n))
                /\ run' = [run EXCEPT !.todo = changed \ {n}]
                /\ pc' = "observing"
    /\ UNCHANGED <<serverVars, world, logVars, anchor, rec, lapsed, nodeVars>>

Reconcile ==
    /\ pc = "reconcile" /\ obs.at = "free"
    /\ run' = IdleRun
    /\ IF submitted /\ connected # {}
         THEN Record(NoEvidence, "round")
         ELSE pc' = "idle" /\ UNCHANGED rec
    /\ UNCHANGED <<serverVars, world, logVars, anchor, obs, lapsed, nodeVars>>

Reserve ==
    /\ pc = "reserve" /\ count < MaxRecords
    /\ rec' = [rec EXCEPT !.seq = count + 1]
    /\ pc' = "append"
    /\ UNCHANGED <<serverVars, world, logVars, anchor, obs, run, lapsed, nodeVars>>

AppendRecord ==
    /\ pc = "append" /\ Appendable(rec.seq)
    /\ Commit(rec.ev)
    /\ pc' = rec.next /\ rec' = IdleRecord
    /\ UNCHANGED <<serverVars, world, anchor, obs, run, lapsed, nodeVars>>

\* The run ends with an error; what was projected stays in the world.
AppendRefused ==
    /\ pc = "append" /\ (~Appendable(rec.seq) \/ "append" \in Faults)
    /\ lapsed' = (lapsed \/ rec.ev # NoEvidence)
    /\ pc' = "witness" /\ rec' = IdleRecord
    /\ UNCHANGED <<serverVars, world, logVars, anchor, obs, run, nodeVars>>

Round ==
    /\ pc = "round"
    /\ IF run.rounds = MaxRounds
         THEN Record(NoEvidence, "witness") /\ UNCHANGED run
         ELSE /\ pc' = "refresh" /\ UNCHANGED rec
              /\ run' = [run EXCEPT !.rounds = @ + 1, !.todo =
                             {a \in Allocations : world.phase[a] = "running"}]
    /\ UNCHANGED <<serverVars, world, logVars, anchor, obs, lapsed, nodeVars>>

\* MeasuredProber.Probe: a measurement of a running allocation, taken where it
\* runs.  It can fail, which is no evidence.
Measured(a) ==
    {e \in WorkEvidence :
        /\ e.kind \in {"ready", "unready"} /\ e.target = a
        /\ world.phase[a] = "running"
        /\ e.node = world.node[a] /\ e.node \in connected
        /\ e.kind = "ready" => runtime[e.node][a] = "running"}

\* refreshReadiness applies a measurement only when it changes the readiness
\* or renews one that expired; observe applies every one.
Probe(a) ==
    /\ pc \in {"refresh", "observe"} /\ a \in run.todo
    /\ run' = [run EXCEPT !.todo = @ \ {a}]
    /\ \/ UNCHANGED <<world, pc, rec>>
       \/ \E e \in Measured(a) :
            /\ pc = "refresh" => e.kind = "ready" \/ a \in world.ready
            /\ world' = Project(world, e)
            /\ Record(e, pc)
    /\ UNCHANGED <<serverVars, logVars, anchor, obs, lapsed, nodeVars>>

Refreshed ==
    /\ pc = "refresh" /\ run.todo = {}
    /\ \E o \in Observed(world) :
          IF GoalAchieved(o)
            THEN Record(NoEvidence, "witness") /\ UNCHANGED run
            ELSE /\ pc' = "agent" /\ UNCHANGED rec
                 /\ run' = [run EXCEPT !.turn = 1, !.progress = FALSE]
    /\ UNCHANGED <<serverVars, world, logVars, anchor, obs, lapsed, nodeVars>>

\* An agent proposes a plan, nothing, or fails, which is recorded.
Propose ==
    /\ pc = "agent" /\ run.turn <= Len(Agents)
    /\ LET agent == Agents[run.turn]
       IN  \/ /\ ~Stock \/ Plans(agent, world) = {}
              /\ run' = [run EXCEPT !.turn = @ + 1]
              /\ Record(NoEvidence, "agent")
           \/ /\ <<>> \in Plans(agent, world)
              /\ run' = [run EXCEPT !.turn = @ + 1]
              /\ UNCHANGED <<pc, rec>>
           \/ \E o \in Observed(world), p \in Plans(agent, world) \ {<<>>} :
                /\ run' = [run EXCEPT !.snap = o, !.plan = p]
                /\ Record(NoEvidence, "authorize")
    /\ UNCHANGED <<serverVars, world, logVars, anchor, obs, lapsed, nodeVars>>

EndRound ==
    /\ pc = "agent" /\ run.turn > Len(Agents)
    /\ IF run.progress THEN pc' = "round" /\ UNCHANGED rec
                       ELSE Record(NoEvidence, "witness")
    /\ UNCHANGED <<serverVars, world, logVars, anchor, obs, run, lapsed, nodeVars>>

\* The kernel judges the plan against the world the agent was shown.  Its
\* disruption budget, backoff, provenance and ceilings may refuse any plan.
Authorize ==
    /\ pc = "authorize"
    /\ \/ /\ Authorized(run.snap, run.plan)
          /\ run' = [run EXCEPT !.checks = {run.plan[i].target : i \in
                          {j \in 1 .. Len(run.plan) : run.plan[j].kind = "start"}}]
          /\ Record(NoEvidence, "execute")
       \/ /\ run' = [run EXCEPT !.turn = @ + 1, !.plan = <<>>]
          /\ Record(NoEvidence, "agent")
    /\ UNCHANGED <<serverVars, world, logVars, anchor, obs, lapsed, nodeVars>>

\* Intent is recorded before each dispatch; after the last, the checks run.
Execute ==
    /\ pc = "execute"
    /\ IF run.plan = <<>>
         THEN /\ pc' = "observe" /\ UNCHANGED rec
              /\ run' = [run EXCEPT !.todo = run.checks]
         ELSE Record(NoEvidence, "dispatch") /\ UNCHANGED run
    /\ UNCHANGED <<serverVars, world, logVars, anchor, obs, lapsed, nodeVars>>

-----------------------------------------------------------------------------
(* The node's side of a dispatch: Dispatcher over containerd.               *)

\* The idempotency key is the proposal (agent and revision) and the action id.
Key(act) == <<act.node, Agents[run.turn], run.snap.revision, act.kind, act.target>>

\* Creating, stopping and deleting are idempotent; only a container that
\* exists starts, and a running one is not deleted.
RuntimeAccepts(act) ==
    /\ act.kind = "start" => runtime[act.node][act.target] # "absent"
    /\ act.kind = "delete" => runtime[act.node][act.target] # "running"

\* Mutant: stopping leaves a state that no other operation knows.
RuntimeStopped(act) ==
    CASE act.kind \in {"create", "stop"} ->
             IF act.kind = "stop" THEN "stopped" ELSE "created"
      [] act.kind = "start"  -> "running"
      [] act.kind = "delete" -> "absent"

RuntimeAfter(act) ==
    CASE act.kind = "create" -> IF runtime[act.node][act.target] = "absent"
                                  THEN "created"
                                  ELSE runtime[act.node][act.target]
      [] act.kind = "start"  -> "running"
      [] act.kind = "stop"   -> IF runtime[act.node][act.target] = "running"
                                  THEN "created"
                                  ELSE runtime[act.node][act.target]
      [] act.kind = "delete" -> "absent"

\* A key that is in the ledger is answered from it and nothing is executed.
Handle(act) ==
    /\ act.node \in connected
    /\ \/ /\ Key(act) \in ledger
          /\ UNCHANGED nodeVars
       \/ /\ Key(act) \notin ledger /\ RuntimeAccepts(act)
          /\ runtime' = [runtime EXCEPT ![act.node][act.target] = RuntimeAfter(act)]
          /\ ledger' = ledger \cup {Key(act)}

Dispatch ==
    /\ pc = "dispatch"
    /\ Handle(Head(run.plan))
    /\ rec' = [IdleRecord EXCEPT !.ev = EvidenceOf(Head(run.plan))]
    /\ pc' = "project"
    /\ UNCHANGED <<serverVars, world, logVars, anchor, obs, run, lapsed>>

\* The node did the work and its answer never arrived.
ReplyLost ==
    /\ pc = "dispatch" /\ "reply" \in Faults
    /\ Handle(Head(run.plan))
    /\ Record(NoEvidence, "witness")
    /\ UNCHANGED <<serverVars, world, logVars, anchor, obs, run, lapsed>>

\* The node is not connected, does not answer, or refuses.
DispatchFails ==
    /\ pc = "dispatch"
    /\ Record(NoEvidence, "witness")
    /\ UNCHANGED <<serverVars, world, logVars, anchor, obs, run, lapsed, nodeVars>>

\* Evidence, not the action, advances the world; it is recorded afterwards.
ProjectEvidence ==
    /\ pc = "project"
    /\ IF Projects(world, rec.ev)
         THEN /\ world' = Project(world, rec.ev)
              /\ run' = [run EXCEPT !.plan = Tail(@), !.progress = TRUE]
              /\ Record(rec.ev, "execute")
         ELSE Record(NoEvidence, "witness") /\ UNCHANGED <<world, run>>
    /\ UNCHANGED <<serverVars, logVars, anchor, obs, lapsed, nodeVars>>

\* verifyChecks: every allocation the plan started must be ready.
Verify ==
    /\ pc = "observe" /\ run.todo = {}
    /\ \E o \in Observed(world) :
          IF run.checks \subseteq o.ready
            THEN /\ pc' = "agent" /\ UNCHANGED rec
                 /\ run' = [run EXCEPT !.turn = @ + 1]
            ELSE Record(NoEvidence, "witness") /\ UNCHANGED run
    /\ UNCHANGED <<serverVars, world, logVars, anchor, obs, lapsed, nodeVars>>

\* Mutant: the head is witnessed without passing through the mutex.
WitnessUnlocked ==
    /\ pc = "witness"
    /\ pc' = "head"
    /\ UNCHANGED <<serverVars, world, logVars, anchor, obs, rec, run, lapsed,
                   nodeVars>>

\* witnessHead passes through the mutex and reads the head after leaving it.
WitnessLock ==
    /\ pc = "witness" /\ obs.at = "free"
    /\ pc' = "head"
    /\ UNCHANGED <<serverVars, world, logVars, anchor, obs, rec, run, lapsed,
                   nodeVars>>

WitnessHead ==
    /\ pc = "head"
    /\ run' = [IdleRun EXCEPT !.head = count]
    /\ pc' = "anchor"
    /\ UNCHANGED <<serverVars, world, logVars, anchor, obs, rec, lapsed, nodeVars>>

WitnessAnchor ==
    /\ pc = "anchor"
    /\ Witness(run.head)
    /\ run' = IdleRun /\ pc' = "idle"
    /\ UNCHANGED <<serverVars, world, logVars, obs, rec, lapsed, nodeVars>>

-----------------------------------------------------------------------------
(* Crash and recovery.                                                      *)

\* Everything in memory is gone: the world, the goals, the registry.
Crash ==
    /\ up
    /\ up' = FALSE /\ submitted' = FALSE /\ connected' = {}
    /\ world' = BaseWorld
    /\ obs' = MutexFree /\ pc' = "idle" /\ rec' = IdleRecord /\ run' = IdleRun
    /\ UNCHANGED <<logVars, anchor, lapsed, nodeVars>>

\* Mutant: the server starts from the base world instead of the replay.
RestartFresh ==
    /\ ~up /\ anchor <= count /\ replayable
    /\ up' = TRUE
    /\ world' = BaseWorld /\ lapsed' = FALSE
    /\ Witness(count)
    /\ UNCHANGED <<submitted, connected, logVars, obs, pc, rec, run, nodeVars>>

\* server.Open: the anchor check, the replay, then the head is witnessed.
Restart ==
    /\ ~up /\ anchor <= count /\ replayable
    /\ up' = TRUE
    /\ world' = durable /\ lapsed' = FALSE
    /\ Witness(count)
    /\ UNCHANGED <<submitted, connected, logVars, obs, pc, rec, run, nodeVars>>

-----------------------------------------------------------------------------
Handlers ==
    \/ \E e \in Decisions : Decide(e)
    \/ ObserveReserve \/ ObserveAppend \/ ObserveRefused
    \/ ObserveHead \/ ObserveWitness \/ ObserveProject
    \/ Submit
    \/ \E n \in Nodes : Enroll(n)

Loop ==
    \/ Tick \/ Reconcile \/ Reserve \/ AppendRecord \/ AppendRefused
    \/ Round \/ (\E a \in Allocations : Probe(a)) \/ Refreshed
    \/ Propose \/ EndRound \/ Authorize \/ Execute
    \/ Dispatch \/ ReplyLost \/ DispatchFails \/ ProjectEvidence \/ Verify
    \/ WitnessLock \/ WitnessHead \/ WitnessAnchor

Next == Handlers \/ Loop \/ Crash \/ Restart

Spec == Init /\ [][Next]_vars
-----------------------------------------------------------------------------
(* Properties.                                                              *)

Labels == {"idle", "observing", "reconcile", "reserve", "append", "round",
           "refresh", "agent", "authorize", "execute", "dispatch", "project",
           "observe", "witness", "head", "anchor"}

Holders == [by : {"none", "api", "loop"},
            at : {"free", "reserve", "append", "head", "witness", "project"},
            ev : Observations \cup {NoEvidence}, seq : Nat, head : Nat]

Returns == {"idle", "round", "refresh", "agent", "authorize", "execute",
            "dispatch", "observe", "witness"}

Records == [ev : WorkEvidence \cup {NoEvidence}, next : Returns, seq : Nat]

Runs == [rounds : Nat, turn : Nat, progress : BOOLEAN, snap : Worlds,
         plan : Seq(Actions), checks : SUBSET Allocations,
         todo : SUBSET (Allocations \cup Nodes), head : Nat]

Containers == [Nodes -> [Allocations -> {"absent", "created", "running"}]]

Keys == Nodes \X {Agents[i] : i \in 1 .. Len(Agents)} \X Nat
        \X {"create", "start", "stop", "delete"} \X Allocations

\* Every variable stays in the set of values the program gives it.
TypeOK ==
    /\ up \in BOOLEAN /\ submitted \in BOOLEAN /\ lapsed \in BOOLEAN
    /\ world \in Worlds /\ durable \in Worlds /\ replayable \in BOOLEAN
    /\ count \in Nat /\ anchor \in Nat
    /\ obs \in Holders /\ pc \in Labels /\ rec \in Records /\ run \in Runs
    /\ connected \in SUBSET Nodes
    /\ runtime \in Containers
    /\ ledger \in SUBSET Keys

\* The loop has projected evidence it has not recorded yet.
Unrecorded == pc \in {"reserve", "append"} /\ rec.ev # NoEvidence

\* A handler has recorded an observation it has not projected yet.
Unprojected == obs.at \in {"head", "witness", "project"}

\* "A projection that cannot be rebuilt from the log is a projection the server
\* cannot recover after a crash" (durable.go): as long as no record of projected evidence was refused, the log replays
\* without an error, and the world in memory and the world a restart would
\* rebuild differ only by the evidence in flight between them, however the
\* loop, the handlers, crashes and restarts interleave.
WorldIsReplay ==
    ~lapsed =>
        /\ replayable
        /\ Unrecorded => Projects(durable, rec.ev)
        /\ up => (IF Unprojected THEN Project(world, obs.ev) ELSE world)
                 = (IF Unrecorded THEN Project(durable, rec.ev) ELSE durable)

\* Operator decisions and reachability in the world are those a restart would
\* rebuild, even when the loop has lost records of its own: appendObservation
\* records before it projects and holds the mutex for both.
DecisionsDurable ==
    up /\ replayable /\ ~Unprojected =>
        /\ world.cordoned = durable.cordoned
        /\ world.healthy = durable.healthy
        /\ world.approval = durable.approval

\* The anchor never runs ahead of the log, so the server's own restart passes
\* Anchor.Check; and although the loop witnesses outside the mutex, the witness
\* of a decision that was just recorded is never refused as a step back.
AnchorSound ==
    /\ anchor <= count
    /\ obs.at = "witness" => anchor <= obs.head

\* "relocating on silence is how one workload becomes two" (server.go): an
\* allocation runs on at most one node, whatever answers are lost and whenever the server
\* crashes between a node's work and its record.
SingleIncarnation ==
    \A a \in Allocations : \A m, n \in Nodes :
        runtime[m][a] = "running" /\ runtime[n][a] = "running" => m = n

\* "A projection that cannot be rebuilt from the log is a projection the server
\* cannot recover after a crash" (durable.go): the log always replays.
Recoverable == replayable
=============================================================================
