------------------------------ MODULE Rollout ------------------------------
(***************************************************************************)
(* The stock agents converging one workload (control/remediation.go,       *)
(* control/rollout.go, control/agents.go), the engine that runs them       *)
(* (control/engine.go), and the governor that paces them: the disruption   *)
(* budget, the failure backoff and the spread of control/disruption.go and *)
(* control/spread.go.                                                      *)
(*                                                                         *)
(* One reconciliation loop drives the goal (cmd/a4s/main.go reconcileLoop).*)
(* In each round the agents propose in a fixed order, each against the     *)
(* world its predecessors left; an authorized plan is executed one action  *)
(* at a time.  Operators, nodes, containers and the clock move in between. *)
(* Time is counted in ticks, and every time stamp is kept as the ticks     *)
(* that remain until it no longer matters.                                 *)
(***************************************************************************)
EXTENDS Integers, Sequences, FiniteSets, FiniteSetsExt

CONSTANTS
    Nodes,                       \* numbers, ordered as the node names are
    Domain,                      \* the failure domain of each node
    Capacity,                    \* how many replicas a node has room for
    Ceiling,                     \* the goal's MaxPerDomain, 0 for none
    Images, First, None,
    Cases,                       \* [replicas, broken, executor, decide, faults,
                                 \* mostDecisions, mostFaults]: the goal's replica
                                 \* count, the images that do not work, the server's
                                 \* executor, and what operators and the environment
                                 \* may do and how often
    TTL, Cooldown, Window, Base, Cap,         \* durations, in ticks
    MaxDisruptions, Attempts, Batch, MaxRounds,
    Slack                        \* how many ticks a round may take

Agents == <<"remediation", "rollout", "placement">>

ASSUME RolloutAssumption ==
    /\ Nodes \subseteq Nat \ {0} /\ IsFiniteSet(Nodes)
    /\ {TTL, Cooldown, Window, Base, Cap, Attempts, Batch, MaxRounds} \subseteq Nat \ {0}
    /\ Cooldown \in 1 .. Window /\ Base \in 1 .. Cap
    /\ {Capacity, Ceiling, MaxDisruptions, Slack} \subseteq Nat
    /\ First \in Images /\ None \notin Images
    /\ Cases \subseteq [replicas : Nat \ {0},
                       broken : SUBSET (Images \ {First}),
                       executor : {"registry", "routed"},
                       decide : SUBSET {"submit", "rollback", "cordon"},
                       faults : SUBSET {"die", "disconnect", "dispatch"},
                       mostDecisions : Nat, mostFaults : Nat]

VARIABLES
    goal,        \* the image the submitted goal names
    alloc,       \* the world's record of each replica slot
    node,        \* the world's record of each node
    backoff,     \* consecutive failures of each slot, and ticks of waiting left
    disruptions, \* the disruptions of the last window, oldest first
    known,       \* the image last observed serving
    approval,    \* the live rollback approval, or None
    pc, agent, round, progress, plan, expect, outcome, \* the engine's run
    asked,       \* the goal the run was started with
    eff,         \* the image the round works towards
    connected,   \* the nodes that hold a connection
    dead,        \* the slots whose process has ended unnoticed
    lag,         \* ticks since the slot's process last served, up to TTL
    fails,       \* reported failures of the slot since it was ready, or since an agent
                 \* removed its replica for another reason than that it failed
    late,        \* ticks spent in this round
    faults, decisions, \* how many may still happen
    case         \* the member of Cases, which does not change

Slots == 0 .. case.replicas - 1

world == <<alloc, node, backoff, disruptions, known, approval>>
engine == <<pc, agent, round, progress, plan, expect, outcome, asked, eff>>
reality == <<connected, dead, lag, fails>>
vars == <<goal, world, engine, reality, late, faults, decisions, case>>

Absent == [phase |-> "absent", node |-> 0, image |-> None, ready |-> 0, failed |-> FALSE]

Init ==
    /\ case \in Cases
    /\ goal = First /\ asked = None /\ eff = None
    /\ alloc = [s \in Slots |-> Absent]
    /\ node = [n \in Nodes |-> [healthy |-> TRUE, cordoned |-> FALSE]]
    /\ backoff = [s \in Slots |-> [failures |-> 0, left |-> 0]]
    /\ disruptions = <<>> /\ known = None /\ approval = None
    /\ pc = "idle" /\ agent = 1 /\ round = 0 /\ progress = FALSE
    /\ plan = <<>> /\ expect = {} /\ outcome = "none"
    /\ connected = Nodes /\ dead = {}
    /\ lag = [s \in Slots |-> TTL] /\ fails = [s \in Slots |-> 0]
    /\ late = 0
    /\ decisions = case.mostDecisions /\ faults = case.mostFaults

-----------------------------------------------------------------------------
(* What the world says. *)

Live(al, s) == al[s].phase \in {"created", "running"}

Serving == Cardinality({s \in Slots : alloc[s].ready > 0})

Floor == IF case.replicas <= 1 THEN 0 ELSE case.replicas - 1

DomainOccupancyStarted(al, d) ==
    Cardinality({s \in Slots : al[s].phase = "running" /\ Domain[al[s].node] = d})

\* DomainOccupancy: a stopped replica takes no place.
DomainOccupancy(al, d) ==
    Cardinality({s \in Slots : Live(al, s) /\ Domain[al[s].node] = d})

Used(al, n) == Cardinality({s \in Slots : al[s].phase # "absent" /\ al[s].node = n})

GoalAchievedServing(al, image) == \A s \in Slots : al[s].ready > 0

\* goalAchieved: every replica is ready on the image (the goal has no route).
GoalAchieved(al, image) == \A s \in Slots : al[s].ready > 0 /\ al[s].image = image

Schedulable(n) == node[n].healthy /\ ~node[n].cordoned

Failing(s) == alloc[s].phase = "stopped" /\ alloc[s].failed

\* RollbackTarget: a replacement on the goal's image was observed failing, and
\* another image was the last one observed serving.
RollbackRequired ==
    /\ known \notin {None, eff}
    /\ \E s \in Slots : Failing(s) /\ alloc[s].image = eff

\* CompensatedGoal: the image the agents work towards when `image` is asked for.
\* The target is the one the approval names.
CompensatedGoal(image) ==
    IF approval # None /\ approval.subject = image /\ approval.target # image
    THEN approval.target ELSE image
-----------------------------------------------------------------------------
(* What the agents propose.  An action of the remediation agent names no     *)
(* node; `at` is where its target is.                                        *)

Act(kind, s, n, named) == [kind |-> kind, slot |-> s, at |-> n, named |-> named]

\* The unhealthy nodes not yet cordoned that hold a replica.
FailedHolding ==
    {n \in Nodes : ~node[n].healthy /\ ~node[n].cordoned /\ Used(alloc, n) > 0}

RetirableAlways == {s \in Slots : alloc[s].phase = "stopped"}

\* retirableAllocation: after MaxRemediationAttempts a failed replica stays.
Retirable ==
    {s \in Slots : alloc[s].phase = "stopped" /\ backoff[s].failures < Attempts}

Evacuable == {s \in Slots : Live(alloc, s) /\ node[alloc[s].node].cordoned}

StopAndDelete(s, named) ==
    <<Act("stop", s, alloc[s].node, named), Act("delete", s, alloc[s].node, named)>>

RemediationPlan ==
    IF FailedHolding # {} THEN <<Act("cordon", 0, Min(FailedHolding), FALSE)>>
    ELSE IF Retirable # {}
         THEN LET s == Min(Retirable) IN <<Act("delete", s, alloc[s].node, FALSE)>>
    ELSE IF Evacuable # {} THEN StopAndDelete(Min(Evacuable), FALSE)
    ELSE <<>>

Drifted == {s \in Slots : alloc[s].phase # "absent" /\ alloc[s].image # eff}

RolloutPlanHasty ==
    IF Drifted = {} THEN <<>>
    ELSE LET gone == {s \in Drifted : alloc[s].phase = "stopped"}
             s == Min(IF gone # {} THEN gone ELSE Drifted)
         IN IF gone # {} THEN <<Act("delete", s, alloc[s].node, TRUE)>>
            ELSE StopAndDelete(s, TRUE)

\* RolloutAgent.Propose: first a drifted replica that has stopped, else the first
\* drifted one if enough replicas stay ready without it.
RolloutPlan ==
    IF Drifted = {} THEN <<>>
    ELSE LET gone == {s \in Drifted : alloc[s].phase = "stopped"}
             s == Min(IF gone # {} THEN gone ELSE Drifted)
             cost == IF alloc[s].ready > 0 THEN 1 ELSE 0
         IN IF gone # {} THEN <<Act("delete", s, alloc[s].node, TRUE)>>
            ELSE IF Serving - cost < Floor THEN <<>>
            ELSE StopAndDelete(s, TRUE)

\* selectNode: the first of the nodes with the most room that may take a replica,
\* or 0.
SelectNode(al) ==
    LET fit == {n \in Nodes :
                  /\ Schedulable(n)
                  /\ Ceiling > 0 => DomainOccupancy(al, Domain[n]) < Ceiling
                  /\ Used(al, n) < Capacity}
        most == Min({Used(al, n) : n \in fit})
    IN IF fit = {} THEN 0 ELSE Min({n \in fit : Used(al, n) = most})

Created(n) ==
    [phase |-> "created", node |-> n, image |-> eff, ready |-> 0, failed |-> FALSE]

\* The slots placement takes for filled: those holding a live replica on the
\* goal's image.
Filled == {s \in Slots : Live(alloc, s) /\ alloc[s].image = eff}

\* PlacementAgent.Propose: create and start the first missing replicas, at most
\* Batch of them, each placed beside the ones before it.  The plan is empty when
\* some replica has nowhere to go.
PlacementPlan ==
    LET missing == Slots \ Filled
        batch == {s \in missing : Cardinality({t \in missing : t < s}) < Batch}
        Beside(at, s) == [t \in Slots |-> IF t \in batch /\ t < s /\ at[t] # 0
                                         THEN Created(at[t]) ELSE alloc[t]]
        place == CHOOSE at \in [batch -> Nodes \cup {0}] :
                    \A s \in batch : at[s] = SelectNode(Beside(at, s))
        Nth(k) == CHOOSE s \in batch : Cardinality({t \in batch : t < s}) = k - 1
        Step(i) == LET s == Nth((i + 1) \div 2)
                   IN  Act(IF i % 2 = 1 THEN "create" ELSE "start", s, place[s], TRUE)
    IN IF \E s \in batch : place[s] = 0 THEN <<>>
       ELSE [i \in 1 .. 2 * Cardinality(batch) |-> Step(i)]
-----------------------------------------------------------------------------
(* What the kernel authorizes. *)

MayCreate(al, act) ==
    /\ al[act.slot].phase = "absent"
    /\ Schedulable(act.at)
    /\ Used(al, act.at) < Capacity
    /\ Ceiling > 0 => DomainOccupancy(al, Domain[act.at]) < Ceiling

\* validateStopAllocation: only a running replica, and no ready one below the floor.
MayStop(al, act) ==
    /\ al[act.slot].phase = "running"
    /\ al[act.slot].ready > 0 =>
          Cardinality({s \in Slots : al[s].ready > 0}) - 1 >= Floor

ValidateAction(al, act) ==
    CASE act.kind = "cordon" -> TRUE
      [] act.kind = "create" -> MayCreate(al, act)
      [] act.kind = "start"  -> al[act.slot].phase = "created"
      [] act.kind = "stop"   -> MayStop(al, act)
      [] act.kind = "delete" -> al[act.slot].phase \in {"created", "stopped"}

\* simulateAction assumes the best: what starts is ready.
SimulateAction(al, act) ==
    CASE act.kind = "cordon" -> al
      [] act.kind = "create" -> [al EXCEPT ![act.slot] = Created(act.at)]
      [] act.kind = "start"  -> [al EXCEPT ![act.slot].phase = "running",
                                           ![act.slot].ready = TTL]
      [] act.kind = "stop"   -> [al EXCEPT ![act.slot].phase = "stopped",
                                           ![act.slot].ready = 0]
      [] act.kind = "delete" -> [al EXCEPT ![act.slot] = Absent]

\* The domains disrupted less than a cooldown ago.
DisruptedDomains ==
    {disruptions[i].domain : i \in {j \in DOMAIN disruptions :
                                      disruptions[j].left > Window - Cooldown}}

\* The positions of the disruptive actions.
Disruptive(p) == {i \in DOMAIN p : p[i].kind \in {"stop", "delete"}}

\* The budget of disruptions in a window, the proposed ones included.
WithinBudget(p) == Len(disruptions) + Cardinality(Disruptive(p)) <= MaxDisruptions

OneDomainEach(p) == Cardinality({Domain[p[i].at] : i \in Disruptive(p)}) <= 1

\* One failure domain at a time, and none while another is in its cooldown.
OneDomainAtATime(p) ==
    LET proposed == {Domain[p[i].at] : i \in Disruptive(p)}
    IN /\ Cardinality(proposed) <= 1
       /\ \A d \in proposed : DisruptedDomains \subseteq {d}

CheckDisruptionBudget(p) ==
    Disruptive(p) # {} => WithinBudget(p) /\ OneDomainAtATime(p)

CheckBackoff(p) ==
    \A i \in DOMAIN p : p[i].kind \in {"create", "start"} => backoff[p[i].slot].left = 0

\* The world after each action of a plan, as the kernel simulates it.
Simulation(p) ==
    LET sim[k \in 0 .. Len(p)] ==
            IF k = 0 THEN alloc ELSE SimulateAction(sim[k - 1], p[k])
    IN sim

\* Authorize: the whole plan on a simulated world, then the governor on the
\* observed one.
Authorized(p) ==
    /\ LET sim == Simulation(p)
       IN  \A k \in 1 .. Len(p) : ValidateAction(sim[k - 1], p[k])
    /\ CheckDisruptionBudget(p)
    /\ CheckBackoff(p)
-----------------------------------------------------------------------------
(* What the world learns. *)

RecordDisruption(s) ==
    IF alloc[s].phase = "stopped" THEN disruptions
    ELSE Append(disruptions, [domain |-> Domain[alloc[s].node], left |-> Window])

\* backoffFor: doubling from Base, capped.
BackoffFor(failures) == Min({Base * 2 ^ (failures - 1), Cap})

\* recordFailure.  Beyond Attempts, and beyond the failure that reaches the cap,
\* no rule tells one count from the next.
RecordFailure(s) ==
    LET count == Min({backoff[s].failures + 1, Attempts})
    IN [backoff EXCEPT ![s] = [failures |-> count, left |-> BackoffFor(count)]]

Up(s) == alloc[s].phase = "running" /\ s \notin dead /\ alloc[s].image \notin case.broken

\* The replicas a prober reaches.
Measurable == {s \in Slots : alloc[s].phase = "running" /\ alloc[s].node \in connected}

\* applyReadiness for the slots in `found`: a ready one clears its backoff, and
\* its image becomes the one to return to.
Measure(found) ==
    LET ready == {s \in found : Up(s)}
    IN /\ alloc' = [s \in Slots |->
                      IF s \in found THEN [alloc[s] EXCEPT !.ready = IF Up(s) THEN TTL ELSE 0]
                      ELSE alloc[s]]
       /\ backoff' = [s \in Slots |->
                        IF s \in ready THEN [failures |-> 0, left |-> 0] ELSE backoff[s]]
       /\ fails' = [s \in Slots |-> IF s \in ready THEN 0 ELSE fails[s]]
       /\ known' = IF ready = {} THEN known ELSE alloc[Max(ready)].image
-----------------------------------------------------------------------------
(* The engine. *)

Return(result) ==
    /\ pc' = "idle" /\ outcome' = result
    /\ plan' = <<>> /\ expect' = {} /\ agent' = 1 /\ progress' = FALSE /\ round' = 0
    /\ asked' = None /\ eff' = None /\ late' = 0

\* A tick of reconcileLoop: record which nodes answer, and drive the goal if any
\* does.
Begin ==
    /\ pc = "idle"
    /\ node' = [n \in Nodes |-> [node[n] EXCEPT !.healthy = n \in connected]]
    /\ connected # {} => pc' = "round" /\ asked' = goal /\ outcome' = "none"
    /\ connected = {} => UNCHANGED <<pc, asked, outcome>>
    /\ UNCHANGED <<goal, alloc, backoff, disruptions, known, approval, agent, round,
                   progress, plan, expect, eff, reality, late, faults, decisions, case>>

RefreshedNever == {}

\* refreshReadiness: the measurements that differ from what is believed.
Refreshed == {s \in Measurable : (alloc[s].ready > 0) # Up(s)}

\* The start of a round: the goal it works towards, fresh measurements, and the
\* end of the run if the goal is met.
StartRound ==
    /\ pc = "round"
    /\ Measure(Refreshed)
    /\ IF GoalAchieved(alloc', CompensatedGoal(asked))
       THEN Return("achieved")
       ELSE /\ pc' = "turn" /\ eff' = CompensatedGoal(asked) /\ late' = 0
            /\ UNCHANGED <<agent, round, progress, plan, expect, outcome, asked>>
    /\ UNCHANGED <<goal, node, disruptions, approval, connected, dead, lag,
                   faults, decisions, case>>

\* Kernel.Paced: some brake lifts by itself.
Paced ==
    \/ \E s \in Slots : backoff[s].left > 0
    \/ DisruptedDomains # {}
    \/ Len(disruptions) >= MaxDisruptions

\* The next agent of the round, or the end of the round.
Advance(moved) ==
    IF agent < Len(Agents)
    THEN /\ pc' = "turn" /\ agent' = agent + 1 /\ progress' = moved
         /\ plan' = <<>> /\ expect' = {} /\ UNCHANGED <<round, outcome, asked, eff, late>>
    ELSE IF ~moved THEN Return(IF Paced THEN "paced" ELSE "blocked")
    ELSE IF round + 1 = MaxRounds THEN Return("limit")
    ELSE /\ pc' = "round" /\ agent' = 1 /\ progress' = FALSE /\ round' = round + 1
         /\ plan' = <<>> /\ expect' = {} /\ UNCHANGED <<outcome, asked, eff, late>>

Proposal ==
    CASE Agents[agent] = "remediation" -> RemediationPlan
      [] Agents[agent] = "rollout"     -> RolloutPlan
      [] Agents[agent] = "placement"   -> PlacementPlan

\* An agent's turn: what it proposes is refused, or authorized to be executed.
\* A rollout that failed ends the run until an operator decides.
Turn ==
    /\ pc = "turn"
    /\ IF Agents[agent] = "rollout" /\ RollbackRequired THEN Return("rollback")
       ELSE \E p \in {Proposal} :
               IF p # <<>> /\ Authorized(p)
               THEN /\ pc' = "execute" /\ plan' = p
                    /\ expect' = {p[i].slot : i \in {j \in DOMAIN p : p[j].kind = "start"}}
                    /\ UNCHANGED <<agent, round, progress, outcome, asked, eff, late>>
               ELSE Advance(progress)
    /\ UNCHANGED <<goal, world, reality, faults, decisions, case>>

\* Execute of the RegistryExecutor: an action that names no node is refused, even
\* one no node has to carry out.
Deliverable(act) ==
    /\ case.executor = "registry" => act.named
    /\ act.kind = "cordon" \/ act.at \in connected

\* Evidence of an executed action, projected.
Projected(act) ==
    LET s == act.slot IN
    CASE act.kind = "cordon" ->
            /\ node' = [node EXCEPT ![act.at].cordoned = TRUE]
            /\ UNCHANGED <<alloc, disruptions, dead, lag, fails>>
      [] act.kind = "create" ->
            /\ alloc' = [alloc EXCEPT ![s] = Created(act.at)]
            /\ lag' = [lag EXCEPT ![s] = TTL]
            /\ UNCHANGED <<node, disruptions, dead, fails>>
      [] act.kind = "start" ->
            /\ alloc' = [alloc EXCEPT ![s].phase = "running"]
            /\ lag' = [lag EXCEPT ![s] = IF alloc[s].image \in case.broken THEN TTL ELSE 0]
            /\ UNCHANGED <<node, disruptions, dead, fails>>
      [] act.kind = "stop" ->
            /\ disruptions' = RecordDisruption(s)
            /\ alloc' = [alloc EXCEPT ![s].phase = "stopped", ![s].ready = 0]
            /\ dead' = dead \ {s} /\ fails' = [fails EXCEPT ![s] = 0]
            /\ UNCHANGED <<node, lag>>
      [] act.kind = "delete" ->
            /\ disruptions' = RecordDisruption(s)
            /\ alloc' = [alloc EXCEPT ![s] = Absent]
            /\ fails' = [fails EXCEPT ![s] = IF act.named THEN 0 ELSE @]
            /\ UNCHANGED <<node, dead, lag>>

\* One action of the plan.  An error ends the run.
Execute ==
    /\ pc = "execute" /\ plan # <<>>
    /\ \/ /\ Deliverable(Head(plan))
          /\ Projected(Head(plan))
          /\ plan' = Tail(plan)
          /\ UNCHANGED <<pc, agent, round, progress, expect, outcome, asked, eff, late, faults>>
       \/ /\ \/ ~Deliverable(Head(plan)) /\ UNCHANGED faults
             \/ "dispatch" \in case.faults /\ faults > 0 /\ faults' = faults - 1
          /\ Return("error")
          /\ UNCHANGED <<alloc, node, disruptions, dead, lag, fails>>
    /\ UNCHANGED <<goal, backoff, known, approval, connected, decisions, case>>

\* observe and verifyChecks: what was started is probed, and has to be ready.
Verify ==
    /\ pc = "execute" /\ plan = <<>>
    /\ Measure(expect \cap Measurable)
    /\ IF \A s \in expect : alloc'[s].ready > 0 THEN Advance(TRUE) ELSE Return("error")
    /\ UNCHANGED <<goal, node, disruptions, approval, connected, dead, lag, faults,
                   decisions, case>>
-----------------------------------------------------------------------------
(* Everything else. *)

\* What remains of a measured readiness after a tick.
Aged(ready) == IF ready = 0 THEN 0 ELSE ready - 1

\* The disruptions a tick leaves in the window: the oldest are the first.
Older(ds) ==
    LET gone == Cardinality({i \in DOMAIN ds : ds[i].left = 1})
    IN  [i \in 1 .. Len(ds) - gone |-> [ds[i + gone] EXCEPT !.left = @ - 1]]

\* A tick of the clock.  A round takes at most Slack of them.
Tick ==
    /\ pc # "idle" => late < Slack
    /\ late' = IF pc = "idle" THEN 0 ELSE late + 1
    /\ alloc' = [s \in Slots |-> [alloc[s] EXCEPT !.ready = Aged(@)]]
    /\ backoff' = [s \in Slots |-> [backoff[s] EXCEPT !.left = IF @ = 0 THEN 0 ELSE @ - 1]]
    /\ disruptions' = Older(disruptions)
    /\ lag' = [s \in Slots |-> IF Up(s) THEN 0 ELSE Min({lag[s] + 1, TTL})]
    /\ UNCHANGED <<goal, node, known, approval, engine, connected, dead, fails, faults,
                   decisions, case>>

\* The supervisor of the node gives a container up, and the server learns of it.
Fail(s) ==
    /\ alloc[s].phase = "running" /\ ~Up(s) /\ alloc[s].node \in connected
    /\ alloc' = [alloc EXCEPT ![s].phase = "stopped", ![s].ready = 0, ![s].failed = TRUE]
    /\ backoff' = RecordFailure(s)
    /\ fails' = [fails EXCEPT ![s] = @ + 1]
    /\ dead' = dead \ {s}
    /\ UNCHANGED <<goal, node, disruptions, known, approval, engine, connected, lag, late,
                   faults, decisions, case>>

Fault(kind) == kind \in case.faults /\ faults > 0 /\ faults' = faults - 1

Die(s) ==
    /\ Fault("die") /\ Up(s)
    /\ dead' = dead \cup {s}
    /\ UNCHANGED <<goal, world, engine, connected, lag, fails, late, decisions, case>>

Disconnect(n) ==
    /\ Fault("disconnect") /\ n \in connected
    /\ connected' = connected \ {n}
    /\ UNCHANGED <<goal, world, engine, dead, lag, fails, late, decisions, case>>

Reconnect(n) ==
    /\ n \notin connected
    /\ connected' = connected \cup {n}
    /\ UNCHANGED <<goal, world, engine, dead, lag, fails, late, faults, decisions, case>>

\* An operator's decision.
Decide(kind) ==
    /\ kind \in case.decide
    /\ decisions > 0 /\ decisions' = decisions - 1
    /\ UNCHANGED <<alloc, backoff, disruptions, known, engine, reality, late, faults, case>>

Submit(image) ==
    /\ Decide("submit")
    /\ image # goal /\ goal' = image
    /\ UNCHANGED <<node, approval>>

\* a4s approve: the versions are read from the world (rollbackVersions).
Approve ==
    /\ Decide("rollback")
    /\ \E s \in Slots :
          /\ Failing(s) /\ known \notin {None, alloc[s].image}
          /\ approval' = [subject |-> alloc[s].image, target |-> known]
    /\ UNCHANGED <<goal, node>>

Revoke ==
    /\ Decide("rollback")
    /\ approval # None /\ approval' = None
    /\ UNCHANGED <<goal, node>>

SetCordon(n, cordoned) ==
    /\ Decide("cordon")
    /\ node[n].cordoned # cordoned /\ node' = [node EXCEPT ![n].cordoned = cordoned]
    /\ UNCHANGED <<goal, approval>>

Engine == Begin \/ StartRound \/ Turn \/ Execute \/ Verify

Next ==
    \/ Engine
    \/ Tick
    \/ \E s \in Slots : Fail(s) \/ Die(s)
    \/ \E n \in Nodes : Disconnect(n) \/ Reconnect(n) \/ \E c \in BOOLEAN : SetCordon(n, c)
    \/ \E image \in Images : Submit(image)
    \/ Approve
    \/ Revoke

Spec == Init /\ [][Next]_vars

\* The loop has a ticker, so the engine, which always has a next step once a node
\* is connected, takes it; time passes; a supervisor gives up on a container that
\* does not come back, and a node dials until it is connected.
FairSpec ==
    /\ Spec
    /\ []<><<Engine>>_vars
    /\ WF_vars(Tick)
    /\ WF_vars((\E s \in Slots : Fail(s)) \/ \E n \in Nodes : Reconnect(n))
-----------------------------------------------------------------------------
(* Properties. *)

\* Backoffs stay within the cap, readiness within its TTL, and the disruptions
\* remembered within the window and in order.
TypeOK ==
    /\ goal \in Images /\ {asked, eff} \subseteq Images \cup {None}
    /\ alloc \in [Slots -> [phase : {"absent", "created", "running", "stopped"},
                            node : Nodes \cup {0}, image : Images \cup {None},
                            ready : 0 .. TTL, failed : BOOLEAN]]
    /\ \A s \in Slots : alloc[s].phase = "absent" <=> alloc[s] = Absent
    /\ \A s \in Slots : alloc[s].ready > 0 => alloc[s].phase = "running"
    /\ node \in [Nodes -> [healthy : BOOLEAN, cordoned : BOOLEAN]]
    /\ backoff \in [Slots -> [failures : 0 .. Attempts, left : 0 .. Cap]]
    /\ \A i \in DOMAIN disruptions : disruptions[i].left \in 1 .. Window
    /\ known \in Images \cup {None}
    /\ approval \in {None} \cup [subject : Images, target : Images]
    /\ pc \in {"idle", "round", "turn", "execute"} /\ agent \in 1 .. Len(Agents)
    /\ outcome \in {"none", "achieved", "paced", "blocked", "limit", "rollback", "error"}
    /\ connected \subseteq Nodes /\ dead \subseteq Slots /\ late \in 0 .. Slack

\* The budget that catches "many small legal proposals adding up to an outage"
\* (disruption.go): whichever agents proposed them and however long their plans
\* took, no window holds more disruptions than the policy allows, and two of
\* different failure domains are never closer than a cooldown.
BudgetKept ==
    /\ Len(disruptions) <= MaxDisruptions
    /\ \A i, j \in DOMAIN disruptions :
          disruptions[i].left > Window - Cooldown /\ disruptions[j].left > Window - Cooldown
              => disruptions[i].domain = disruptions[j].domain

\* A failure domain never holds more live replicas than the goal's spread allows,
\* through partial placements, failures and evacuations (checkSpread).
SpreadHeld ==
    Ceiling > 0 => \A n \in Nodes :
        Cardinality({s \in Slots : Live(alloc, s) /\ Domain[alloc[s].node] = Domain[n]})
            <= Ceiling

\* "Giving up past MaxRemediationAttempts is the escalation" (remediation.go): a
\* replica that is never ready fails at most that often before it is left for an
\* operator, through backoffs, operator decisions and changes of version, unless
\* the rollout replaces it or its node is evacuated in between.
GivesUp == \A s \in Slots : fails[s] <= Attempts

\* The availability floor is about what really serves (validateStopAllocation,
\* RolloutAgent.Propose): when the stop of a ready replica, or of one on a node in
\* service, is authorized, as many others as the floor asks for served less than
\* a readiness TTL ago.
FloorServed ==
    [][pc = "turn" /\ pc' = "execute" =>
          \A i \in DOMAIN plan' :
             LET s == plan'[i].slot IN
             plan'[i].kind = "stop" /\ (alloc[s].ready > 0 \/ ~node[alloc[s].node].cordoned)
                => Cardinality({t \in Slots \ {s} : lag[t] < TTL}) >= Floor]_vars

\* A goal is reported achieved only when every replica runs the image the round
\* worked towards and served less than a readiness TTL ago (goalAchieved).
AchievedServed ==
    [][outcome' = "achieved" /\ outcome # "achieved" =>
          \A s \in Slots : alloc'[s].image = CompensatedGoal(asked) /\ lag[s] < TTL]_vars

Wanted == CompensatedGoal(goal)

\* Every replica runs and serves the wanted image.
Converged == \A s \in Slots : Up(s) /\ alloc[s].image = Wanted

\* A replica was created and never started: placement takes its slot for filled,
\* and no agent starts it.
Halfway == \E s \in Slots : alloc[s].phase = "created"

\* A replica on the wanted image failed too often.
Escalated ==
    \E s \in Slots : alloc[s].phase = "stopped" /\ backoff[s].failures >= Attempts
                     /\ alloc[s].image = Wanted

\* A replica is missing, and one on another image serves, as after the first step
\* of every rollout of several replicas: rollout may not stop the second before the
\* first is back, and placement asks for both slots at once and is refused.
Standoff ==
    \E s, t \in Slots : alloc[s].phase = "absent" /\ alloc[t].phase = "running"
                        /\ alloc[t].image # Wanted

\* The remediation agent has work that the registry executor cannot route.
Unrouted == case.executor = "registry" /\ (FailedHolding # {} \/ Retirable # {} \/ Evacuable # {})

\* The nodes left in service have too few failure domains for the replicas.
OutOfService ==
    Ceiling * Cardinality({Domain[n] : n \in {m \in Nodes : ~node[m].cordoned}})
        < case.replicas

\* The agents, none of which sees another's plan, bring the cluster to the wanted
\* image and leave it there, through rollouts, failures, rollbacks and the brakes
\* on each of them; or they stop in one of the states named above, or because the
\* wanted image does not work.
Converges ==
    <>[](\/ Converged \/ Wanted \in case.broken \/ Halfway \/ Escalated \/ Standoff
         \/ Unrouted \/ OutOfService)

\* "clear those first and let placement rebuild before disrupting anything still
\* serving" (rollout.go): every slot the rollout clears is filled again.
Rebuilt == []<>(\A s \in Slots : alloc[s].phase # "absent")
=============================================================================
