------------------------------- MODULE Queue -------------------------------
(***************************************************************************)
(* The work queue of an agent workload on one node.  Producers enqueue     *)
(* tasks in a durable queue (node/queue.go); the instances, agents in      *)
(* containers, claim, finish and return them over the runtime API          *)
(* (node/runtime_api.go), within a budget and a tool envelope that the     *)
(* node keeps in memory (node/agent.go).  A request passes the queue's     *)
(* lock and the agents' lock one after the other, and runs beside the      *)
(* dispatcher, which creates, drains, stops and deletes instances          *)
(* (node/router.go).  The server's view of an instance is what the kernel  *)
(* decides on (control/policy.go).                                         *)
(***************************************************************************)
EXTENDS Naturals, Sequences, FiniteSets

CONSTANTS
    Tasks,         \* the work producers enqueue
    Instances,     \* the allocations of the agent workload
    Requests,      \* the requests the runtime API handles at a time
    MaxAttempts,   \* Queue.MaxAttempts
    Budget,        \* the ceiling of an instance, in tool calls
    Slow,          \* a lease may lapse while its holder works on the task
    Retry,         \* producers try again after an error
    Loads,         \* [tasks, instances, faults, creates]: the tasks enqueued, the
                   \* instances placed, the faults that may happen, and the bound
                   \* on the containers created
    MaxFaults,     \* bound on the number of faults
    None           \* no task, no instance

ASSUME QueueAssumption ==
    /\ MaxAttempts \in Nat \ {0} /\ Budget \in Nat \ {0} /\ Slow \in BOOLEAN /\ Retry \in BOOLEAN
    /\ Loads \subseteq [tasks : SUBSET Tasks, instances : SUBSET Instances,
                       faults : SUBSET {"persist", "reply", "crash", "exit"},
                       creates : Nat]
    /\ MaxFaults \in Nat
    /\ None \notin Tasks \cup Instances \cup Nat

VARIABLES
    queue,      \* Queue.tasks in the order of Queue.order
    file,       \* the queue's file
    producer,   \* what the producer of each task was answered
    done,       \* tasks an instance finished
    given,      \* how often each task was given to an instance since it was enqueued
    request,    \* the runtime API's requests
    work,       \* the tasks each instance works on
    slot,       \* Agents.tasks
    draining,   \* Agents.draining
    meter,      \* Agents.meters: what each instance spent, None without a meter
    envelope,   \* Agents.envelopes: the instances that may call tools
    known,      \* Agents.tokens and RuntimeAPI.queues: instances that may call
    calls,      \* tool calls each instance was allowed since it was released
    container,  \* the instances' containers
    deleting,   \* the delete in progress in the dispatcher
    world,      \* the server's view of the instances
    created,    \* containers created so far
    left,       \* faults that may still happen
    load        \* the member of Loads, which does not change

queueVars == <<queue, file, given, done>>
agentVars == <<slot, draining, meter, envelope, known, calls>>
serverVars == <<world, created>>
vars == <<queue, file, producer, done, given, request, work, slot, draining,
          meter, envelope, known, calls, container, deleting, world, created,
          left>>

-----------------------------------------------------------------------------
Ids(q) == {q[i].id : i \in DOMAIN q}

TaskOf(q, t) == q[CHOOSE i \in DOMAIN q : q[i].id = t]

\* The queue with task t's entry changed to e.
With(q, e) == [i \in DOMAIN q |-> IF q[i].id = e.id THEN e ELSE q[i]]

\* removeOrderLocked: the list before the task and the list after it.
Without(q, t) ==
    LET k == CHOOSE i \in DOMAIN q : q[i].id = t
    IN  SubSeq(q, 1, k - 1) \o SubSeq(q, k + 1, Len(q))

NewTask(t) == [id |-> t, attempts |-> 0, by |-> None, live |-> FALSE]

\* Mutant: a claim is never given up by time.
AvailableUnclaimed(e) == e.by = None

\* availableLocked: not claimed, or the claim's lease lapsed.
Available(e) == e.by = None \/ ~e.live

\* What Stalled reports.
Stalled(q) == {t \in Ids(q) : Available(TaskOf(q, t)) /\ TaskOf(q, t).attempts >= MaxAttempts}

NoRequest == [op |-> "none", at |-> "idle", by |-> None, task |-> None, heard |-> FALSE]

\* A server's record of an instance that does not exist.
Unknown == [phase |-> "absent", tools |-> FALSE, draining |-> FALSE,
            task |-> None, exhausted |-> FALSE]

Init ==
    /\ queue = <<>> /\ file = <<>> /\ done = {}
    /\ producer = [t \in Tasks |-> "new"] /\ given = [t \in Tasks |-> 0]
    /\ request = [r \in Requests |-> NoRequest]
    /\ work = [a \in Instances |-> {}] /\ slot = [a \in Instances |-> None]
    /\ draining = {} /\ meter = [a \in Instances |-> None]
    /\ envelope = {} /\ known = {} /\ calls = [a \in Instances |-> 0]
    /\ container = [a \in Instances |-> "absent"] /\ deleting = None
    /\ world = [a \in Instances |-> Unknown] /\ created = 0 /\ left = MaxFaults
    /\ load \in Loads

Fault(f) == f \in load.faults /\ left > 0 /\ left' = left - 1

\* persist replaces the file; when that fails the memory stays changed.
Persist(q, ok) ==
    /\ queue' = q
    /\ IF ok THEN file' = q /\ UNCHANGED left
             ELSE UNCHANGED file /\ Fault("persist")

-----------------------------------------------------------------------------
(* Producers and time.                                                      *)

\* Enqueue: a repeat of an id already present is answered without a write.  A
\* producer that was answered an error may try again.
Enqueue(t) ==
    /\ t \in load.tasks
    /\ producer[t] = "new" \/ (Retry /\ producer[t] = "unsure")
    /\ IF t \in Ids(queue)
         THEN /\ producer' = [producer EXCEPT ![t] = "sent"]
              /\ UNCHANGED <<queueVars, left>>
         ELSE \E ok \in BOOLEAN :
              /\ Persist(Append(queue, NewTask(t)), ok)
              /\ producer' = [producer EXCEPT ![t] = IF ok THEN "sent" ELSE "unsure"]
              /\ given' = [given EXCEPT ![t] = 0] /\ UNCHANGED done
    /\ UNCHANGED <<request, work, agentVars, container, deleting, serverVars>>

Lapsed(q, t) == IF t \in Ids(q) THEN With(q, [TaskOf(q, t) EXCEPT !.live = FALSE]) ELSE q

\* The lease of a claim runs out, in the memory and in the file, whose claim is
\* never the newer one.  Unless instances may be slow it does so only for a
\* claim that nobody works on and no request is about to answer.
Attended(t) ==
    \/ \E a \in Instances : t \in work[a]
    \/ \E r \in Requests : request[r].task = t

Lapse(t) ==
    /\ Slow \/ ~Attended(t)
    /\ \E q \in {queue, Lapsed(queue, t)} :
          /\ q = queue => t \in Ids(file) /\ (t \in Ids(queue) => TaskOf(queue, t) # TaskOf(file, t))
          /\ <<q, Lapsed(file, t)>> # <<queue, file>>
          /\ queue' = q /\ file' = Lapsed(file, t)
    /\ UNCHANGED <<producer, given, done, request, work, agentVars, container,
                   deleting, serverVars, left>>

-----------------------------------------------------------------------------
(* The runtime API.                                                         *)

\* Mutant: a spent ceiling still leaves one.
ExhaustedLate(a) == meter[a] # None /\ meter[a] > Budget

\* Exhausts: at the ceiling nothing is left.
Exhausted(a) == meter[a] # None /\ meter[a] >= Budget

MayClaim(a) ==
    meter[a] # None /\ ~Exhausted(a) /\ a \notin draining /\ slot[a] = None

\* The token of a request names a live instance.
Authenticated(a) == container[a] = "running" /\ a \in known

\* A request is attributed to the instance whose token it carries, and its queue
\* looked up; a claim is refused at once when the instance may not claim.
Call(r, op, a, t) ==
    /\ request[r] = NoRequest /\ Authenticated(a)
    /\ IF op = "claim" THEN t = None /\ MayClaim(a) ELSE t \in work[a]
    /\ request' = [request EXCEPT ![r] =
           [op |-> op, at |-> "queue", by |-> a, task |-> t, heard |-> TRUE]]
    /\ UNCHANGED <<queueVars, producer, work, agentVars, container, deleting,
                   serverVars, left>>

Deliverable(q) == {i \in DOMAIN q : Available(q[i]) /\ q[i].attempts < MaxAttempts}

\* The oldest task that may be handed out.
Chosen(q) == q[CHOOSE i \in Deliverable(q) : \A j \in Deliverable(q) : i <= j]

\* Mutant: only the first claim is counted.
ClaimedOnce(e, a) == [e EXCEPT !.attempts = 1, !.by = a, !.live = TRUE]

Claimed(e, a) == [e EXCEPT !.attempts = @ + 1, !.by = a, !.live = TRUE]

Finish(r) == request' = [request EXCEPT ![r] = NoRequest]

\* Queue.Claim.  After a failed write nothing is handed out, and the task stays
\* claimed in memory.
Claim(r) ==
    /\ request[r].op = "claim" /\ request[r].at = "queue"
    /\ IF Deliverable(queue) = {}
         THEN Finish(r) /\ UNCHANGED <<queueVars, left>>
         ELSE LET e == Chosen(queue)
              IN  \E ok \in BOOLEAN :
                  /\ Persist(With(queue, Claimed(e, request[r].by)), ok)
                  /\ IF ok THEN /\ given' = [given EXCEPT ![e.id] = @ + 1]
                                /\ request' = [request EXCEPT ![r].at = "agents",
                                                              ![r].task = e.id]
                           ELSE UNCHANGED given /\ Finish(r)
                  /\ UNCHANGED done
    /\ UNCHANGED <<producer, work, agentVars, container, deleting, serverVars>>

Holds(a, t) == t \in Ids(queue) /\ TaskOf(queue, t).by = a

\* A refused instance gives the task up.
Refuse(r) ==
    /\ Finish(r)
    /\ work' = [work EXCEPT ![request[r].by] =
                    IF request[r].heard THEN @ \ {request[r].task} ELSE @]
    /\ UNCHANGED <<queueVars, left>>

\* Queue.Ack: only the claim's holder, whether or not its lease has lapsed.
\* Acknowledging an absent task succeeds without a write.
Ack(r) ==
    /\ request[r].op = "ack" /\ request[r].at = "queue"
    /\ LET t == request[r].task
       IN  \/ /\ t \notin Ids(queue)
              /\ request' = [request EXCEPT ![r].at = "agents"]
              /\ UNCHANGED <<queueVars, work, left>>
           \/ t \in Ids(queue) /\ ~Holds(request[r].by, t) /\ Refuse(r)
           \/ /\ Holds(request[r].by, t)
              /\ \E ok \in BOOLEAN :
                    /\ Persist(Without(queue, t), ok) /\ done' = done \cup {t}
                    /\ IF ok THEN request' = [request EXCEPT ![r].at = "agents"]
                             ELSE Finish(r)
              /\ UNCHANGED <<given, work>>
    /\ UNCHANGED <<producer, agentVars, container, deleting, serverVars>>

\* The entry of a task that nobody holds.
Unclaimed(e) == [e EXCEPT !.by = None, !.live = FALSE]

\* Mutant: a returned task goes to the end of the queue.
RequeueAtEnd(r) ==
    /\ request[r].op = "requeue" /\ request[r].at = "queue"
    /\ LET t == request[r].task
       IN  /\ Holds(request[r].by, t)
           /\ Persist(Append(Without(queue, t), Unclaimed(TaskOf(queue, t))), TRUE)
           /\ request' = [request EXCEPT ![r].at = "agents"]
    /\ UNCHANGED <<given, done, work, producer, agentVars, container, deleting,
                   serverVars>>

\* Queue.Requeue: the attempt stays counted.
Requeue(r) ==
    /\ request[r].op = "requeue" /\ request[r].at = "queue"
    /\ LET t == request[r].task
       IN  \/ ~Holds(request[r].by, t) /\ Refuse(r)
           \/ /\ Holds(request[r].by, t)
              /\ \E ok \in BOOLEAN :
                    /\ Persist(With(queue, Unclaimed(TaskOf(queue, t))), ok)
                    /\ IF ok THEN request' = [request EXCEPT ![r].at = "agents"]
                             ELSE Finish(r)
              /\ UNCHANGED <<given, done, work>>
    /\ UNCHANGED <<producer, agentVars, container, deleting, serverVars>>

\* The agents' slot is set after a claim and cleared after a completion, and the
\* instance is answered if it is still there to hear it.
Answer(r) ==
    /\ request[r].at = "agents"
    /\ LET a == request[r].by
           t == request[r].task
           claimed == request[r].op = "claim"
       IN  /\ slot' = [slot EXCEPT ![a] = IF claimed THEN t ELSE None]
           /\ work' = [work EXCEPT ![a] =
                 IF ~request[r].heard THEN @ ELSE IF claimed THEN @ \cup {t} ELSE @ \ {t}]
    /\ Finish(r)
    /\ UNCHANGED <<queueVars, producer, draining, meter, envelope, known, calls,
                   container, deleting, serverVars, left>>

\* AuthorizeToolCall: a metered instance with budget left and an envelope.
ToolCall(a) ==
    /\ Authenticated(a)
    /\ meter[a] # None /\ ~Exhausted(a) /\ a \in envelope
    /\ meter' = [meter EXCEPT ![a] = @ + 1]
    /\ calls' = [calls EXCEPT ![a] = @ + 1]
    /\ UNCHANGED <<queueVars, producer, request, work, slot, draining, envelope,
                   known, container, deleting, serverVars, left>>

\* Spend: what an instance reports is added, and never taken back; above the
\* ceiling the sum makes no difference.
Spend(a) ==
    /\ Authenticated(a) /\ meter[a] # None /\ ~Exhausted(a)
    /\ meter' = [meter EXCEPT ![a] = @ + 1]
    /\ UNCHANGED <<queueVars, producer, request, work, slot, draining, envelope,
                   known, calls, container, deleting, serverVars, left>>

-----------------------------------------------------------------------------
(* The dispatcher: one action of the server at a time.                      *)

\* The evidence of an action changes the server's view, or is lost.
Observed(a, record) ==
    \/ world' = [world EXCEPT ![a] = record] /\ UNCHANGED left
    \/ UNCHANGED world /\ Fault("reply")

\* Reserve: a repeat keeps what was spent.
Reserve(a) == meter' = [meter EXCEPT ![a] = IF @ = None THEN 0 ELSE @]

\* create_allocation: the container, the meter, the token and the queue binding.
Create(a) ==
    /\ a \in load.instances /\ deleting = None /\ world[a].phase = "absent"
    /\ container[a] = "absent" => created < load.creates
    /\ created' = IF container[a] = "absent" THEN created + 1 ELSE created
    /\ container' = [container EXCEPT ![a] = IF @ = "absent" THEN "idle" ELSE @]
    /\ Reserve(a) /\ known' = known \cup {a}
    /\ Observed(a, [Unknown EXCEPT !.phase = "created"])
    /\ UNCHANGED <<queueVars, producer, request, work, slot, draining, envelope,
                   calls, deleting>>

MayGrant(a) == world[a].phase = "created"

Granted(a) == [world[a] EXCEPT !.tools = TRUE]

\* grant_tools.  The goal's envelope does not change, so a repeat is the same.
Grant(a) ==
    /\ deleting = None /\ MayGrant(a)
    /\ envelope' = envelope \cup {a}
    /\ Observed(a, Granted(a))
    /\ UNCHANGED <<queueVars, producer, request, work, slot, draining, meter,
                   known, calls, container, deleting, created>>

\* An instance that declared tools starts only with its envelope.
MayStart(a) == world[a].phase = "created" /\ world[a].tools

\* start_allocation.
Start(a) ==
    /\ deleting = None /\ MayStart(a)
    /\ container[a] \in {"idle", "running"}
    /\ container' = [container EXCEPT ![a] = "running"]
    /\ Observed(a, [world[a] EXCEPT !.phase = "running"])
    /\ UNCHANGED <<queueVars, producer, request, work, agentVars, deleting, created>>

MayDrain(a) == world[a].phase = "running"

DrainReported(a) == [world[a] EXCEPT !.draining = TRUE, !.task = slot[a]]

\* drain_allocation: the kernel asks for a running instance.  The evidence says
\* drained when the slot is empty and names the task when it is not.
Drain(a) ==
    /\ deleting = None /\ MayDrain(a) /\ ~world[a].draining
    /\ draining' = draining \cup {a}
    /\ Observed(a, DrainReported(a))
    /\ UNCHANGED <<queueVars, producer, request, work, slot, meter, envelope,
                   known, calls, container, deleting, created>>

\* Whoever waits for an answer of the instance's requests is gone.
Unheard(a) ==
    request' = [r \in Requests |-> IF request[r].by = a
                                   THEN [request[r] EXCEPT !.heard = FALSE]
                                   ELSE request[r]]

MayStop(a) ==
    world[a].phase = "running" /\ (world[a].task = None \/ world[a].exhausted)

\* stop_allocation: refused while the server's view holds a task, unless the
\* instance is exhausted.
Stop(a) ==
    /\ deleting = None /\ MayStop(a)
    /\ container' = [container EXCEPT ![a] = IF @ = "absent" THEN @ ELSE "idle"]
    /\ work' = [work EXCEPT ![a] = {}] /\ Unheard(a)
    /\ Observed(a, [world[a] EXCEPT !.phase = "stopped"])
    /\ UNCHANGED <<queueVars, producer, agentVars, deleting, created>>

\* delete_allocation: the container, then the work it held, then what the node
\* remembers of the instance.  A failed write ends it before that.
Released(q, a) ==
    [i \in DOMAIN q |-> IF q[i].by = a THEN Unclaimed(q[i]) ELSE q[i]]

Delete(a) ==
    /\ deleting = None /\ world[a].phase \in {"created", "stopped"}
    /\ container[a] # "running"
    /\ container' = [container EXCEPT ![a] = "absent"]
    /\ \E ok \in BOOLEAN :
          /\ IF Released(queue, a) = queue
               THEN ok /\ UNCHANGED <<queue, file, left>>
               ELSE Persist(Released(queue, a), ok)
          /\ deleting' = IF ok THEN a ELSE None
    /\ UNCHANGED <<given, done, producer, request, work, agentVars, serverVars>>

\* Mutant: the envelope and the drain of a deleted instance are kept.
ForgetMeter(a) ==
    /\ deleting = a /\ deleting' = None
    /\ known' = known \ {a} /\ meter' = [meter EXCEPT ![a] = None]
    /\ slot' = [slot EXCEPT ![a] = None] /\ calls' = [calls EXCEPT ![a] = 0]
    /\ Observed(a, Unknown)
    /\ UNCHANGED <<queueVars, producer, request, work, draining, envelope,
                   container, created>>

Forget(a) ==
    /\ deleting = a /\ deleting' = None
    /\ known' = known \ {a} /\ meter' = [meter EXCEPT ![a] = None]
    /\ slot' = [slot EXCEPT ![a] = None] /\ draining' = draining \ {a}
    /\ envelope' = envelope \ {a} /\ calls' = [calls EXCEPT ![a] = 0]
    /\ Observed(a, Unknown)
    /\ UNCHANGED <<queueVars, producer, request, work, container, created>>

-----------------------------------------------------------------------------
(* The supervisor's reports, and what goes wrong.                           *)

SpendReported(a) == [world[a] EXCEPT !.exhausted = TRUE]

\* SpendEvidence: the projection takes the total.
ReportSpend(a) ==
    /\ Exhausted(a) /\ world[a].phase # "absent" /\ ~world[a].exhausted
    /\ world' = [world EXCEPT ![a] = SpendReported(a)]
    /\ UNCHANGED <<queueVars, producer, request, work, agentVars, container,
                   deleting, created, left>>

\* The instance's process ends by itself, and the failure is reported.
Exit(a) ==
    /\ container[a] = "running" /\ Fault("exit")
    /\ container' = [container EXCEPT ![a] = "exited"]
    /\ work' = [work EXCEPT ![a] = {}] /\ Unheard(a)
    /\ UNCHANGED <<queueVars, producer, agentVars, deleting, serverVars>>

ReportExit(a) ==
    /\ container[a] = "exited" /\ world[a].phase = "running"
    /\ world' = [world EXCEPT ![a].phase = "stopped"]
    /\ UNCHANGED <<queueVars, producer, request, work, agentVars, container,
                   deleting, created, left>>

\* The daemon is started again: the queue is read from its file, and of the
\* agents nothing is known.  The containers run on.
Crash ==
    /\ Fault("crash")
    /\ queue' = file /\ request' = [r \in Requests |-> NoRequest] /\ deleting' = None
    /\ slot' = [a \in Instances |-> None] /\ draining' = {}
    /\ meter' = [a \in Instances |-> None] /\ envelope' = {} /\ known' = {}
    /\ UNCHANGED <<file, given, done, producer, work, calls, container, serverVars>>

-----------------------------------------------------------------------------
Serve(r) == Claim(r) \/ Ack(r) \/ Requeue(r) \/ Answer(r)

Calls(a) ==
    \E r \in Requests : \/ Call(r, "claim", a, None)
                        \/ \E t \in Tasks : Call(r, "ack", a, t) \/ Call(r, "requeue", a, t)

Dispatch(a) ==
    \/ Create(a) \/ Grant(a) \/ Start(a) \/ Drain(a) \/ Stop(a) \/ Delete(a) \/ Forget(a)

Next ==
    /\ \/ \E t \in Tasks : Enqueue(t) \/ Lapse(t)
       \/ \E r \in Requests : Serve(r)
       \/ \E a \in Instances : \/ Calls(a) \/ ToolCall(a) \/ Spend(a) \/ Dispatch(a)
                               \/ ReportSpend(a) \/ Exit(a) \/ ReportExit(a)
       \/ Crash
    /\ UNCHANGED load

Spec == Init /\ [][Next]_<<vars, load>>

\* The API answers, instances go on with the tasks they have and ask for new
\* ones, and leases run out.
Fairness ==
    /\ \A r \in Requests : WF_vars(Serve(r))
    /\ \A t \in Tasks : WF_vars(Lapse(t))
    /\ SF_vars(\E r \in Requests, a \in Instances : Call(r, "claim", a, None))
    /\ \A t \in Tasks :
          SF_vars(\E r \in Requests, a \in Instances : \/ Call(r, "ack", a, t)
                                                     \/ Call(r, "requeue", a, t))

FairSpec == Spec /\ Fairness

-----------------------------------------------------------------------------
(* Properties.                                                              *)

Entries == [id : Tasks, attempts : 0 .. MaxAttempts, by : Instances \cup {None},
            live : BOOLEAN]

\* Every variable stays in the set of values the program gives it, and no task
\* is in the queue twice.
TypeOK ==
    /\ \A q \in {queue, file} :
          /\ \A i \in DOMAIN q : q[i] \in Entries
          /\ Cardinality(Ids(q)) = Len(q)
    /\ producer \in [Tasks -> {"new", "unsure", "sent"}] /\ done \subseteq Tasks
    /\ given \in [Tasks -> Nat]
    /\ request \in [Requests -> [op : {"none", "claim", "ack", "requeue"},
                                 at : {"idle", "queue", "agents"},
                                 by : Instances \cup {None},
                                 task : Tasks \cup {None}, heard : BOOLEAN]]
    /\ work \in [Instances -> SUBSET Tasks] /\ slot \in [Instances -> Tasks \cup {None}]
    /\ draining \subseteq Instances /\ meter \in [Instances -> Nat \cup {None}]
    /\ envelope \subseteq Instances /\ known \subseteq Instances
    /\ calls \in [Instances -> Nat]
    /\ container \in [Instances -> {"absent", "idle", "running", "exited"}]
    /\ deleting \in Instances \cup {None}
    /\ world \in [Instances -> [phase : {"absent", "created", "running", "stopped"},
                                tools : BOOLEAN, draining : BOOLEAN,
                                task : Tasks \cup {None}, exhausted : BOOLEAN]]
    /\ created \in 0 .. load.creates /\ left \in 0 .. MaxFaults

\* The queue's file is the durable list of Delivery: whatever writes fail and
\* whenever the daemon restarts, a stored task is dropped only after it was
\* handed out, attempts are never forgotten, and no task overtakes another.
Durable == INSTANCE Delivery
    WITH list <- [i \in DOMAIN file |-> [id |-> file[i].id, attempts |-> file[i].attempts]]

ImplementsDelivery == Durable!Spec

\* "Attempts counts how many times this task has been claimed" (queue.go): over
\* failed writes and restarts no task is given to instances more often than its
\* attempts allow.
AttemptsBound == \A t \in Tasks : given[t] <= MaxAttempts

\* "A ceiling of N means N calls are permitted and the next is refused"
\* (agent.go): whatever answers were lost and whenever the daemon restarted, one
\* instance is allowed no more tool calls than its budget.
CallsWithinBudget == \A a \in Instances : calls[a] <= Budget

\* A later allocation that reuses an identifier inherits nothing
\* (node/router.go): what the server believes deleted has no envelope, drain,
\* meter or token left on the node.
NothingInherited ==
    \A a \in Instances :
        world[a].phase = "absent" /\ container[a] = "absent" =>
            a \notin envelope \cup draining \cup known /\ meter[a] = None

\* As long as some instance is free again and again, every task in the queue is
\* finished or runs out of attempts: no holder that died, was deleted or never
\* heard of its claim keeps a task from the others.
Free(a) == Authenticated(a) /\ MayClaim(a)

Served ==
    []<>(\E a \in Instances : Free(a)) =>
        \A t \in Tasks : (t \in Ids(queue)) ~> (t \notin Ids(queue) \/ t \in Stalled(queue))
=============================================================================
