------------------------------ MODULE Traffic ------------------------------
(***************************************************************************)
(* How traffic finds a workload: the network agent (control/agents.go)     *)
(* hands each node its firewall rules (control/netpolicy.go,               *)
(* node/firewall.go), its service names (control/resolve.go, node/dns.go)  *)
(* and its routes (node/router.go, node/gateway.go), one node a round, and *)
(* the server computes the share a new version takes while it is rolled    *)
(* out (control/canary.go).  All of it is derived from the readiness the   *)
(* world remembers for a while (control/directory.go).                     *)
(*                                                                         *)
(* One loop reconciles the goals one after another; what the other agents  *)
(* do in a round is reduced to replicas that come and go.  A fingerprint   *)
(* stands for what it digests.  A replica's address is its slot's name.    *)
(***************************************************************************)
EXTENDS Integers, Sequences, FiniteSets, FiniteSetsExt

CONSTANTS
    Workloads, Images, First, None,
    Reachable,        \* the nodes with an address and a gateway port
    TTL, Hold,        \* of a readiness observation, and of a canary step, in ticks
    Steps,            \* the canary's steps
    MaxRounds,        \* rounds of a run
    Cases             \* [nodes, workloads, replicas, policies, public, slack, faults,
                      \* mostFaults, mostChanges]: the nodes (numbers, ordered as
                      \* their names are), the goals, those with a network policy,
                      \* those with a public route, the ticks that may pass in a
                      \* round, and what may happen how often

ASSUME TrafficAssumption ==
    /\ Reachable \subseteq Nat /\ {TTL, MaxRounds} \subseteq Nat \ {0} /\ Hold \in Nat
    /\ First \in Images /\ None \notin Images \cup Workloads \cup Nat
    /\ Steps \in Seq(1 .. 100) /\ Steps # <<>> /\ Steps[Len(Steps)] = 100
    /\ \A i \in 1 .. Len(Steps) - 1 : Steps[i] < Steps[i + 1]
    /\ \A c \in Cases : c.nodes \subseteq Nat /\ IsFiniteSet(c.nodes) /\ c.nodes # {}
    /\ \A c \in Cases : \A slots \in SUBSET (c.workloads \X (1 .. c.replicas)) : slots # None
    /\ Cases \subseteq [nodes : {c.nodes : c \in Cases}, slack : Nat,
                       workloads : SUBSET Workloads \ {{}}, replicas : Nat \ {0},
                       policies : SUBSET Workloads, public : SUBSET Workloads,
                       faults : SUBSET {"die", "disconnect", "refuse", "unheard", "restart"},
                       mostFaults : Nat, mostChanges : Nat]

VARIABLES
    goal,      \* the image each goal names
    alloc,     \* the world's record of each replica
    node,      \* the world's record of each node: health and fingerprints
    published, \* the workloads whose route the world holds
    approved,  \* the workloads whose public route an operator approved
    pc, todo, run, asked, round, progress, plan, \* the loop
    late,      \* ticks spent in this round
    connected, \* the nodes that hold a connection
    up, down,  \* the replicas that serve, and for how long the others have not
    attached,  \* the replicas whose network attachment the node remembers
    resolver,  \* the zone each node's resolver serves
    table,     \* the addresses the node's firewall table admits callers to, or None
    applied,   \* the ruleset each node's daemon remembers to have applied
    routes,    \* the routes each node's router remembers
    gateway,   \* the upstreams of each route in each node's gateway, or None
    restarted, \* the nodes whose daemon has restarted
    unheard,   \* the nodes that applied something and reported a failure
    faults, changes, \* how many may still happen
    case       \* the member of Cases, which does not change

Nodes == case.nodes
Slots == case.workloads \X (1 .. case.replicas)
Of(w) == {s \in Slots : s[1] = w}

loop == <<pc, todo, run, asked, round, progress, plan, late>>
capabilities == <<attached, resolver, table, applied, routes, gateway>>
budgets == <<faults, changes, case>>
vars == <<goal, alloc, node, published, approved, loop, connected, up, down,
          capabilities, restarted, unheard, budgets>>

Absent == [phase |-> "absent", node |-> None, image |-> None, ready |-> FALSE,
           left |-> 0, since |-> 0]

Init ==
    /\ case \in Cases
    /\ goal = [w \in case.workloads |-> First]
    /\ alloc = [s \in Slots |-> Absent]
    /\ node = [n \in Nodes |-> [healthy |-> TRUE, zone |-> None, policy |-> None]]
    /\ published = {} /\ approved = {}
    /\ pc = "idle" /\ todo = {} /\ run = None /\ asked = None
    /\ round = 0 /\ progress = FALSE /\ plan = <<>> /\ late = 0
    /\ connected = Nodes
    /\ up = {} /\ down = [s \in Slots |-> TTL]
    /\ attached = {}
    /\ resolver = [n \in Nodes |-> None]
    /\ table = [n \in Nodes |-> None] /\ applied = [n \in Nodes |-> None]
    /\ routes = [n \in Nodes |-> {}]
    /\ gateway = [n \in Nodes |-> [w \in case.workloads |-> None]]
    /\ restarted = {} /\ unheard = {}
    /\ faults = case.mostFaults /\ changes = case.mostChanges

-----------------------------------------------------------------------------
(* What the world says. *)

\* ReadyAt: observed ready, and the observation has not expired.
ReadyAt(s) == alloc[s].ready /\ alloc[s].left > 0

\* ReadyFor: the length of the current run of readiness.
ReadyFor(s) == IF ReadyAt(s) THEN alloc[s].since ELSE 0

BuildDirectoryRemembered(w) == {s \in Of(w) : alloc[s].ready}

\* BuildDirectory: the endpoints of a workload.
BuildDirectory(w) == {s \in Of(w) : ReadyAt(s)}

MatchingReady(al, w, image) ==
    Cardinality({s \in Of(w) : al[s].ready /\ al[s].left > 0 /\ al[s].image = image})

GoalAchieved(al, w, image) ==
    MatchingReady(al, w, image) = case.replicas /\ w \in published

\* Resolve: what a caller on n may dial; a replica elsewhere is dialed through
\* its node's gateway.
Resolve(w, n) == {s \in BuildDirectory(w) : alloc[s].node \in {n} \cup Reachable}

\* BuildServiceZone, for the one workload whose port the network agent passes.
Zone(w, n) ==
    IF Resolve(w, n) = {} THEN None
    ELSE [name |-> w, ends |-> {[slot |-> s, node |-> alloc[s].node] : s \in Resolve(w, n)}]

LocalAddresses(w, n) == {s \in Of(w) : alloc[s].node = n /\ alloc[s].phase # "absent"}

-----------------------------------------------------------------------------
(* The share of a new version. *)

\* The hold clock: the shortest readiness of the new version's replicas.
Held(target) == Min({ReadyFor(s) : s \in target})

\* EvaluateCanary: everything when nothing else is ready, nothing when the new
\* version is not, and otherwise the largest step its part of the ready replicas
\* supports, held back until its youngest replica has been ready long enough.
EvaluateCanary(w) ==
    LET ready == BuildDirectory(w)
        target == {s \in ready : alloc[s].image = goal[w]}
        index == Max({1} \cup {i \in DOMAIN Steps :
                          Steps[i] <= (Cardinality(target) * 100) \div Cardinality(ready)})
    IN  IF ready = target THEN 100
        ELSE IF target = {} THEN 0
        ELSE Steps[IF Hold > 0 THEN Min({index, Held(target) \div Hold + 1}) ELSE index]

ShareAcrossEvenly(ends, share) ==
    [s \in IF share <= 0 THEN {} ELSE ends |-> Max({1, share \div Cardinality(ends)})]

\* shareAcross: in the order of the names, the first take the remainder.
ShareAcross(ends, share) ==
    [s \in IF share <= 0 THEN {} ELSE ends |->
        LET before == Cardinality({e \in ends : e[2] < s[2]})
            extra == IF before < share % Cardinality(ends) THEN 1 ELSE 0
        IN  Max({1, share \div Cardinality(ends) + extra})]

\* WeightEndpoints: the weights of the endpoints of a workload.
WeightEndpoints(w) ==
    LET ends == BuildDirectory(w)
        target == {s \in ends : alloc[s].image = goal[w]}
        new == ShareAcross(target, EvaluateCanary(w))
        old == ShareAcross(ends \ target, 100 - EvaluateCanary(w))
    IN  IF target \in {{}, ends} THEN [s \in ends |-> 1]
        ELSE [s \in DOMAIN new \cup DOMAIN old |-> IF s \in target THEN new[s] ELSE old[s]]

-----------------------------------------------------------------------------
(* The network agent. *)

StalePoliciesAlways(w) ==
    {n \in Nodes : w \in case.policies /\ node[n].healthy /\ LocalAddresses(w, n) # {}}

\* stalePolicies: the healthy nodes with a replica and other rules.
StalePolicies(w) ==
    {n \in Nodes : /\ w \in case.policies /\ node[n].healthy
                   /\ LocalAddresses(w, n) # {}
                   /\ node[n].policy # LocalAddresses(w, n)}

\* staleZones: the healthy nodes whose resolver has another view.
StaleZones(w) ==
    {n \in Nodes : /\ node[n].healthy /\ Zone(w, n) # None
                   /\ node[n].zone # Zone(w, n)}

\* routeNode: the first node with a replica that was observed ready.
RouteNode(w) == Min({alloc[s].node : s \in {t \in Of(w) : alloc[t].ready}})

Act(kind, n, data) == [kind |-> kind, node |-> n, data |-> data]

\* At most one node a round.
OneNode(kind, nodes, data(_)) ==
    IF nodes = {} THEN <<>> ELSE <<Act(kind, Min(nodes), data(Min(nodes)))>>

Rules(w) == OneNode("policy", StalePolicies(w), LAMBDA n : LocalAddresses(w, n))
Names(w) == OneNode("zone", StaleZones(w), LAMBDA n : Zone(w, n))
Route(w) ==
    IF w \notin published /\ MatchingReady(alloc, w, asked) >= case.replicas
    THEN <<Act("route", RouteNode(w), w)>> ELSE <<>>

ProposeNamesFirst(w) == IF Names(w) # <<>> THEN Names(w) ELSE Rules(w) \o Route(w)

\* NetworkAgent.Propose: rules alone, then names, and the route with the names
\* once every replica is ready.
Propose(w) == IF Rules(w) # <<>> THEN Rules(w) ELSE Names(w) \o Route(w)

\* validatePublishRoute; a plan is authorized as a whole.
MayPublishRoute(w) ==
    /\ w \in case.public => w \in approved
    /\ MatchingReady(alloc, w, asked) >= case.replicas

Authorized(p) == (\E i \in DOMAIN p : p[i].kind = "route") => MayPublishRoute(run)

-----------------------------------------------------------------------------
(* The loop. *)

\* The next round of the run, or its end.
EndRound(moved) ==
    IF moved /\ round + 1 < MaxRounds
    THEN /\ pc' = "round" /\ round' = round + 1 /\ progress' = FALSE
         /\ plan' = <<>> /\ late' = 0 /\ UNCHANGED <<todo, run, asked>>
    ELSE /\ pc' = "idle" /\ round' = 0 /\ progress' = FALSE /\ plan' = <<>> /\ late' = 0
         /\ run' = None /\ asked' = None /\ UNCHANGED todo

EndRun == EndRound(FALSE)

\* A tick of reconcileLoop: the reachable nodes are recorded.
StartPass ==
    /\ pc = "idle" /\ todo = {}
    /\ node' = [n \in Nodes |-> [node[n] EXCEPT !.healthy = n \in connected]]
    /\ todo' = IF connected = {} THEN {} ELSE case.workloads
    /\ UNCHANGED <<goal, alloc, published, approved, pc, run, asked, round, progress, plan,
                   late, connected, up, down, capabilities, restarted, unheard, budgets>>

StartRun(w) ==
    /\ pc = "idle" /\ w \in todo
    /\ pc' = "round" /\ run' = w /\ asked' = goal[w] /\ todo' = todo \ {w}
    /\ UNCHANGED <<goal, alloc, node, published, approved, round, progress, plan, late,
                   connected, up, down, capabilities, restarted, unheard, budgets>>

ObservedKeepingRun(s, ready) ==
    [alloc[s] EXCEPT !.ready = ready, !.left = IF ready THEN TTL ELSE 0,
                     !.since = IF ~ready \/ ~alloc[s].ready THEN 0 ELSE @]

\* applyReadiness: a gap in measurement starts a new run of readiness.
Observed(s, ready) ==
    [alloc[s] EXCEPT !.ready = ready, !.left = IF ready THEN TTL ELSE 0,
                     !.since = IF ready /\ ReadyAt(s) THEN @ ELSE 0]

\* refreshReadiness: the running replicas on nodes that answer, where the
\* measurement differs from what is believed.
Refreshed(w) ==
    {s \in Of(w) : /\ alloc[s].phase = "running" /\ alloc[s].node \in connected
                   /\ ReadyAt(s) # (s \in up)}

StartRound ==
    /\ pc = "round"
    /\ alloc' = [s \in Slots |-> IF s \in Refreshed(run) THEN Observed(s, s \in up)
                                 ELSE alloc[s]]
    /\ IF GoalAchieved(alloc', run, asked)
       THEN EndRun
       ELSE pc' = "agents" /\ UNCHANGED <<todo, run, asked, round, progress, plan, late>>
    /\ UNCHANGED <<goal, node, published, approved, connected, up, down, capabilities,
                   restarted, unheard, budgets>>

Usable == {n \in connected : node[n].healthy}

\* The replica is created, attached and started by the placement agent, and
\* measured before its turn is over.
Place(s, n) ==
    /\ pc = "agents" /\ s \in Of(run) /\ alloc[s].phase = "absent" /\ n \in Usable
    /\ alloc' = [alloc EXCEPT ![s] = [phase |-> "running", node |-> n, image |-> asked,
                                      ready |-> TRUE, left |-> TTL, since |-> 0]]
    /\ up' = up \cup {s} /\ down' = [down EXCEPT ![s] = 0]
    /\ attached' = attached \cup {s}
    /\ progress' = TRUE
    /\ UNCHANGED <<goal, node, published, approved, pc, todo, run, asked, round, plan, late,
                   connected, resolver, table, applied, routes, gateway, restarted, unheard,
                   budgets>>

\* The replica is stopped and deleted by the rollout agent.
Retire(s) ==
    /\ pc = "agents" /\ s \in Of(run) /\ alloc[s].phase = "running"
    /\ alloc[s].image # asked /\ alloc[s].node \in connected
    /\ alloc' = [alloc EXCEPT ![s] = Absent]
    /\ up' = up \ {s} /\ down' = [down EXCEPT ![s] = TTL]
    /\ attached' = attached \ {s}
    /\ progress' = TRUE
    /\ UNCHANGED <<goal, node, published, approved, pc, todo, run, asked, round, plan, late,
                   connected, resolver, table, applied, routes, gateway, restarted, unheard,
                   budgets>>

\* The network agent comes last; the placement agent has filled what it can.
Turn ==
    /\ pc = "agents"
    /\ Usable # {} => \A s \in Of(run) : alloc[s].phase # "absent"
    /\ LET p == Propose(run)
       IN  IF p # <<>> /\ Authorized(p)
           THEN /\ pc' = "execute" /\ plan' = p
                /\ UNCHANGED <<todo, run, asked, round, progress, late>>
           ELSE EndRound(progress)
    /\ UNCHANGED <<goal, alloc, node, published, approved, connected, up, down,
                   capabilities, restarted, unheard, budgets>>

-----------------------------------------------------------------------------
(* What a node does with what it is sent. *)

Fault(kind) == kind \in case.faults /\ faults > 0 /\ faults' = faults - 1
NoFault == UNCHANGED faults

Executes(kind, n) == pc = "execute" /\ Head(plan).kind = kind /\ Head(plan).node = n

\* The evidence of an action is projected; the round ends with the last action.
Advance ==
    IF Len(plan) = 1 THEN EndRound(TRUE)
    ELSE /\ plan' = Tail(plan) /\ progress' = TRUE
         /\ UNCHANGED <<pc, todo, run, asked, round, late>>

\* The action does not reach its node, and the run ends.
Undelivered ==
    /\ pc = "execute" /\ Head(plan).node \notin connected
    /\ EndRun
    /\ UNCHANGED <<goal, alloc, node, published, approved, connected, up, down,
                   capabilities, restarted, unheard, budgets>>

RememberedFirst(n, rules, ok) == rules

\* What the daemon remembers to have applied.
Remembered(n, rules, ok) == IF ok THEN rules ELSE applied[n]

\* Firewall.Execute: a ruleset that is remembered as applied is not applied
\* again; nft replaces the table as a whole or fails, and may be killed at its
\* deadline after it has done so.
ApplyPolicy(n) ==
    /\ Executes("policy", n) /\ n \in connected
    /\ LET rules == Head(plan).data
       IN  \/ /\ NoFault /\ UNCHANGED unheard
              /\ table' = [table EXCEPT ![n] = IF applied[n] = rules THEN @ ELSE rules]
              /\ applied' = [applied EXCEPT ![n] = Remembered(n, rules, TRUE)]
              /\ node' = [node EXCEPT ![n].policy = rules]
              /\ Advance
           \/ /\ applied[n] # rules /\ EndRun /\ UNCHANGED node
              /\ applied' = [applied EXCEPT ![n] = Remembered(n, rules, FALSE)]
              /\ \/ Fault("refuse") /\ UNCHANGED <<table, unheard>>
                 \/ /\ Fault("unheard") /\ table' = [table EXCEPT ![n] = rules]
                    /\ unheard' = unheard \cup {n}
    /\ UNCHANGED <<goal, alloc, published, approved, connected, up, down, attached, resolver,
                   routes, gateway, restarted, changes, case>>

\* Resolver.Apply replaces the served zone.
PublishZone(n) ==
    /\ Executes("zone", n) /\ n \in connected
    /\ resolver' = [resolver EXCEPT ![n] = Head(plan).data]
    /\ node' = [node EXCEPT ![n].zone = Head(plan).data]
    /\ Advance
    /\ UNCHANGED <<goal, alloc, published, approved, connected, up, down, attached, table,
                   applied, routes, gateway, restarted, unheard, budgets>>

\* router.Endpoints: the replicas the node is to run and remembers to have attached.
Upstreams(w, n) ==
    {s \in Of(w) \cap attached : alloc[s].node = n /\ alloc[s].phase = "running"}

SnapshotAlone(n, known, w) ==
    [v \in case.workloads |-> IF v = w THEN Upstreams(v, n) ELSE None]

\* Router.apply: every route the router knows, with its present upstreams.
Snapshot(n, known, w) ==
    [v \in case.workloads |-> IF v \in known THEN Upstreams(v, n) ELSE None]

\* Router.Execute and CaddyGateway.Apply: when the push fails the router forgets
\* the route again, although the gateway may have taken it.
PublishRoute(n) ==
    /\ Executes("route", n) /\ n \in connected
    /\ LET w == Head(plan).data
           known == routes[n] \cup {w}
       IN  \/ /\ NoFault /\ UNCHANGED unheard
              /\ routes' = [routes EXCEPT ![n] = known]
              /\ gateway' = [gateway EXCEPT ![n] = Snapshot(n, known, w)]
              /\ published' = published \cup {w}
              /\ Advance
           \/ /\ EndRun /\ UNCHANGED <<routes, published>>
              /\ \/ Fault("refuse") /\ UNCHANGED <<gateway, unheard>>
                 \/ /\ Fault("unheard") /\ unheard' = unheard \cup {n}
                    /\ gateway' = [gateway EXCEPT ![n] = Snapshot(n, known, w)]
    /\ UNCHANGED <<goal, alloc, node, approved, connected, up, down, attached, resolver,
                   table, applied, restarted, changes, case>>

-----------------------------------------------------------------------------
(* Nodes, processes, operators and the clock. *)

Aged(ticks) == Max({ticks - 1, 0})

Tick ==
    /\ pc # "idle" => late < case.slack
    /\ late' = IF pc = "idle" THEN 0 ELSE late + 1
    /\ alloc' = [s \in Slots |->
                    [alloc[s] EXCEPT !.left = IF alloc[s].phase = "running" THEN Aged(@) ELSE @,
                                     !.since = IF alloc[s].ready THEN Min({@ + 1, TTL}) ELSE 0]]
    /\ down' = [s \in Slots |-> IF s \in up THEN 0 ELSE Min({down[s] + 1, TTL})]
    /\ UNCHANGED <<goal, node, published, approved, pc, todo, run, asked, round, progress,
                   plan, connected, up, capabilities, restarted, unheard, budgets>>

Die(s) ==
    /\ Fault("die") /\ s \in up
    /\ up' = up \ {s}
    /\ UNCHANGED <<goal, alloc, node, published, approved, loop, connected, down,
                   capabilities, restarted, unheard, changes, case>>

\* The supervisor starts the container again.
Revive(s) ==
    /\ s \notin up /\ alloc[s].phase = "running"
    /\ up' = up \cup {s} /\ down' = [down EXCEPT ![s] = 0]
    /\ UNCHANGED <<goal, alloc, node, published, approved, loop, connected,
                   capabilities, restarted, unheard, budgets>>

Disconnect(n) ==
    /\ Fault("disconnect") /\ n \in connected
    /\ connected' = connected \ {n}
    /\ UNCHANGED <<goal, alloc, node, published, approved, loop, up, down,
                   capabilities, restarted, unheard, changes, case>>

Reconnect(n) ==
    /\ n \notin connected
    /\ connected' = connected \cup {n}
    /\ UNCHANGED <<goal, alloc, node, published, approved, loop, up, down,
                   capabilities, restarted, unheard, budgets>>

\* A daemon starts with an empty zone, no routes and no attachments; the table
\* and the gateway are other programs' and stay.
Restart(n) ==
    /\ Fault("restart")
    /\ connected' = connected \ {n}
    /\ restarted' = restarted \cup {n}
    /\ attached' = {s \in attached : alloc[s].node # n}
    /\ resolver' = [resolver EXCEPT ![n] = None]
    /\ applied' = [applied EXCEPT ![n] = None]
    /\ routes' = [routes EXCEPT ![n] = {}]
    /\ UNCHANGED <<goal, alloc, node, published, approved, loop, up, down,
                   table, gateway, unheard, changes, case>>

Change == changes > 0 /\ changes' = changes - 1

Submit(w, image) ==
    /\ Change /\ image # goal[w]
    /\ goal' = [goal EXCEPT ![w] = image]
    /\ UNCHANGED <<alloc, node, published, approved, loop, connected, up, down,
                   capabilities, restarted, unheard, faults, case>>

Approve(w) ==
    /\ w \in case.public \ approved
    /\ approved' = approved \cup {w}
    /\ UNCHANGED <<goal, alloc, node, published, loop, connected, up, down,
                   capabilities, restarted, unheard, budgets>>

Loop ==
    \/ StartPass \/ \E w \in case.workloads : StartRun(w)
    \/ StartRound
    \/ \E s \in Slots, n \in Nodes : Place(s, n)
    \/ \E s \in Slots : Retire(s)
    \/ Turn
    \/ \E n \in Nodes : ApplyPolicy(n) \/ PublishZone(n) \/ PublishRoute(n)
    \/ Undelivered

Recover == (\E s \in Slots : Revive(s)) \/ (\E n \in Nodes : Reconnect(n))

Next ==
    \/ Loop \/ Recover \/ Tick
    \/ \E s \in Slots : Die(s)
    \/ \E n \in Nodes : Disconnect(n) \/ Restart(n)
    \/ \E w \in case.workloads : Approve(w) \/ \E i \in Images : Submit(w, i)

Spec == Init /\ [][Next]_vars

\* The loop ticks, supervisors restart what ended and nodes dial again.
FairSpec == Spec /\ WF_vars(Loop) /\ WF_vars(Recover)

-----------------------------------------------------------------------------
(* Properties. *)

Zones == [name : case.workloads, ends : SUBSET [slot : Slots, node : Nodes]]

\* The state has its shape: no observation is older than expired, a run has at
\* most MaxRounds rounds, and what is sent to a node is what it can hold.
TypeOK ==
    /\ goal \in [case.workloads -> Images]
    /\ alloc \in [Slots -> [phase : {"absent", "running"}, node : Nodes \cup {None},
                            image : Images \cup {None}, ready : BOOLEAN,
                            left : 0 .. TTL, since : 0 .. TTL]]
    /\ \A n \in Nodes : /\ node[n].healthy \in BOOLEAN
                        /\ node[n].zone # None => node[n].zone \in Zones
                        /\ resolver[n] # None => resolver[n] \in Zones
                        /\ table[n] # None => table[n] \subseteq Slots
    /\ published \subseteq case.workloads /\ approved \subseteq case.public
    /\ pc \in {"idle", "round", "agents", "execute"} /\ round \in 0 .. MaxRounds - 1
    /\ (run = None) = (pc = "idle") /\ (plan # <<>>) = (pc = "execute")
    /\ todo \subseteq case.workloads /\ late \in 0 .. case.slack
    /\ up \subseteq Slots /\ attached \subseteq Slots /\ down \in [Slots -> 0 .. TTL]
    /\ faults \in 0 .. case.mostFaults /\ changes \in 0 .. case.mostChanges

\* directory.go: no traffic is weighted to a replica whose process has not served
\* for as long as an observation lasts, although nobody may have reported its end
\* and its node may be unreachable.
Measured ==
    \A w \in case.workloads : \A s \in DOMAIN WeightEndpoints(w) : down[s] < TTL

\* agents.go "Firewall rules are installed before names are published": when a
\* resolver is given a name, each of its endpoints on a healthy node is covered by
\* the rules in force there, although the goals replace each other's rules and
\* replicas move.  A node that was killed while it applied rules is excepted.
PolicyFirst ==
    [][\A n \in Nodes : resolver'[n] \notin {None, resolver[n]} =>
          \A e \in resolver'[n].ends :
             (/\ resolver'[n].name \in case.policies
              /\ node[e.node].healthy /\ e.node \notin unheard)
             => table[e.node] # None /\ e.slot \in table[e.node]]_vars

\* firewall.go and projection.go: the rules the world believes a node enforces are
\* in force there, through refused rulesets, repeated ones and restarts of the
\* daemon, unless the node applied rules it reported as failed.
EnforcedAsBelieved ==
    \A n \in Nodes : node[n].policy # None /\ n \notin unheard => table[n] = node[n].policy

\* router.go "a failed apply does not leave the node believing in a route the
\* gateway never accepted": every route the world holds is in a gateway, also after
\* the routes of other goals were published, refused or applied without an answer;
\* a restarted daemon has forgotten its routes.
RouteKept ==
    \A w \in published : \E n \in Nodes : n \in restarted \/ gateway[n][w] # None

\* canary.go "adding a replica starts the new step's hold" and projection.go "a gap
\* in measurement ... must not be counted as continuous health": whenever a replica
\* of the new version becomes ready, or ready again, beside the previous version,
\* the new version is back at its first step.
NewcomerRestartsHold ==
    [][\A w \in case.workloads :
          LET ready == BuildDirectory(w)'
              target == {s \in ready : alloc'[s].image = goal'[w]}
          IN  Hold > 0 /\ target \notin {{}, ready} /\ ~(target \subseteq BuildDirectory(w))
              => EvaluateCanary(w)' = Steps[1]]_vars

\* canary.go "whole-number weights that sum to 100": while both versions serve, the
\* new one is given exactly the authorized step and the old one the rest, no
\* endpoint is left out, when no side has more endpoints than percents.
WeightsExact ==
    \A w \in case.workloads :
        LET ends == BuildDirectory(w)
            target == {s \in ends : alloc[s].image = goal[w]}
            step == EvaluateCanary(w)
            Sum(part) == MapThenSumSet(LAMBDA s : WeightEndpoints(w)[s], part)
        IN  /\ target \notin {{}, ends}
            /\ Cardinality(target) <= step /\ Cardinality(ends \ target) <= 100 - step
            => /\ DOMAIN WeightEndpoints(w) = ends
               /\ Sum(target) = step /\ Sum(ends) = 100

\* agents.go "publish the requested route only after every desired replica is
\* ready": the route of every goal is published in the end, although its nodes need
\* rules and names first, one a round, and other goals overwrite them, unless it
\* awaits an operator's approval or replicas of another version are still there.
Published ==
    \A w \in Workloads :
        []<>(w \in case.workloads =>
             \/ w \in published \/ w \in case.public \ approved
             \/ \E s \in Of(w) : alloc[s].image \notin {None, goal[w]})
=============================================================================
