-------------------------------- MODULE Node --------------------------------
(***************************************************************************)
(* One a4s node daemon (cmd/a4s/main.go runNode).  Its dispatcher          *)
(* (node/dispatcher.go) executes the actions the server sends, one at a    *)
(* time: containerd first, then the node's record of intent                *)
(* (node/desired.go), then the idempotency ledger (node/file_ledger.go).   *)
(* Its supervisor (node/supervisor.go) runs beside it, without a common    *)
(* lock, and starts again what is intended to run and does not.  Intent    *)
(* and ledger are files; leases and restart budgets are memory.            *)
(*                                                                         *)
(* Of the server only what it believes about this node's allocations is    *)
(* kept: the evidence it was answered, in order.                           *)
(***************************************************************************)
EXTENDS Naturals, Sequences, FiniteSets

CONSTANTS
    Allocations,  \* the allocations the server places on this node
    Faults,       \* the faults that may happen
    MaxFaults,    \* bound on their number
    MaxRestarts,  \* restarts the supervisor allows in one window
    MaxPlans      \* bound on the proposals the server executes

ASSUME NodeAssumption ==
    /\ Faults \subseteq {"persist", "reply", "crash", "reboot", "exit", "outage", "cut"}
    /\ MaxFaults \in Nat
    /\ MaxRestarts \in Nat \ {0}
    /\ MaxPlans \in Nat

VARIABLES
    server,     \* the server answers on its address
    view,       \* the phase of each allocation in the server's world
    revision,   \* the revision of that world
    unsure,     \* allocations with an action dispatched and not completed
    plan,       \* the proposal in execution
    link,       \* this node's connection in the registry and in the executor
    service,    \* the daemon's process, as the service manager sees it
    disp,       \* the dispatch in progress under Dispatcher.mu
    sup,        \* the supervision pass in progress
    container,  \* containerd's containers and tasks
    entries,    \* DesiredState.entries, in memory
    file,       \* the desired-state file
    ledger,     \* the keys FileLedger has a result for, in memory and in its file
    held,       \* Dispatcher.leases
    history,    \* Supervisor.history
    left        \* faults that may still happen

serverVars == <<server, view, revision, unsure, plan>>
session == <<link, service>>
memory == <<disp, sup, entries, held, history>>
vars == <<server, view, revision, unsure, plan, link, service, disp, sup,
          container, entries, file, ledger, held, history, left>>

-----------------------------------------------------------------------------
Kinds == {"create", "start", "stop", "delete"}

\* What a dispatch authorizes: its idempotency key is the proposal, named after
\* the revision it is based on, and the action; the lease is the proposal's.
Envelopes == [kind : Kinds, target : Allocations, based : Nat, lease : Nat]

Key(e) == <<e.based, e.kind, e.target>>

\* A proposal has a lease, the revision it is based on, the actions it has yet
\* to send and whether it still runs: one failed or unanswered action ends it.
NoPlan == [lease |-> 0, based |-> 0, todo |-> <<>>, open |-> FALSE]

NoEnvelope == [kind |-> "none"]

NoDispatch == [at |-> "idle", env |-> NoEnvelope]

\* The entry in hand, those still to do, and those that are meant to run.
NoPass == [at |-> "idle", cur |-> {}, todo |-> {}, intended |-> {}]

\* No restart yet; later the count in the window, whether the backoff still
\* holds, and whether the window has passed.
Fresh == [count |-> 0, wait |-> FALSE, old |-> FALSE]

Init ==
    /\ server = TRUE /\ view = [a \in Allocations |-> "absent"]
    /\ revision = 0 /\ unsure = {} /\ plan = NoPlan /\ link = "open"
    /\ service = "up" /\ disp = NoDispatch /\ sup = NoPass
    /\ container = [a \in Allocations |-> "absent"]
    /\ entries = [a \in Allocations |-> "none"]
    /\ file = [a \in Allocations |-> "none"]
    /\ ledger = [memory |-> {}, file |-> {}] /\ held = [a \in Allocations |-> 0]
    /\ history = [a \in Allocations |-> Fresh] /\ left = MaxFaults

Fault(f) == f \in Faults /\ left > 0 /\ left' = left - 1

-----------------------------------------------------------------------------
(* The server.                                                              *)

\* PlacementAgent creates and starts one or two allocations the server's world
\* does not hold.
Place(a) == <<<<"create", a>>, <<"start", a>>>>

Placements ==
    LET missing == {a \in Allocations : view[a] = "absent"}
    IN  {Place(a) : a \in missing}
        \cup {Place(p[1]) \o Place(p[2]) : p \in {q \in missing \X missing : q[1] # q[2]}}

\* RolloutAgent retires one allocation that drifted from its goal, as any may
\* when an operator submits a new one.
Retirements ==
    {<<<<"delete", a>>>> : a \in {b \in Allocations : view[b] = "stopped"}}
    \cup {<<<<"stop", a>>, <<"delete", a>>>> :
              a \in {b \in Allocations : view[b] = "running"}}

\* The server waits for an answer.
Awaiting == service = "up" /\ disp.at # "idle"

\* A new proposal takes a new lease.  One made again at the same revision has
\* the same name, so its actions have the same keys.
Propose ==
    /\ server /\ ~Awaiting /\ plan.lease < MaxPlans
    /\ \E todo \in Placements \cup Retirements :
          plan' = [lease |-> plan.lease + 1, based |-> revision, todo |-> todo,
                   open |-> TRUE]
    /\ UNCHANGED <<server, view, revision, unsure, session, memory,
                   container, file, ledger, left>>

\* What the projection makes of the evidence of an action.
PhaseAfter(kind) ==
    CASE kind = "create" -> "created"
      [] kind = "start"  -> "running"
      [] kind = "stop"   -> "stopped"
      [] kind = "delete" -> "absent"

-----------------------------------------------------------------------------
(* Dispatcher.Dispatch.                                                     *)

\* Every action of a proposal is dispatched once, and the next one only after
\* its answer.
Sends(kind, a) ==
    /\ server /\ ~Awaiting /\ plan.open
    /\ plan.todo # <<>> /\ Head(plan.todo) = <<kind, a>>
    /\ unsure' = unsure \cup {a}
    /\ plan' = [plan EXCEPT !.todo = Tail(@), !.open = FALSE]

\* An envelope arrives, over the connection the executor has or takes from the
\* registry.  A known key is answered from the ledger; an unknown one is
\* refused, with no effect, while another lease holds its target.
Dispatch(kind, a) ==
    LET e == [kind |-> kind, target |-> a, based |-> plan.based,
              lease |-> plan.lease]
    IN  /\ Sends(kind, a)
        /\ service = "up" /\ link \in {"open", "live"} /\ link' = "live"
        /\ Key(e) \in ledger.memory \/ held[a] \in {0, e.lease}
        /\ disp' = [at |-> IF Key(e) \in ledger.memory THEN "reply" ELSE "execute",
                    env |-> e]
        /\ UNCHANGED <<server, view, revision, service, sup, container, entries,
                       file, ledger, held, history, left>>

\* Nothing is sent without a connection or over one that has ended, and the
\* proposal fails.  The executor keeps the connection it first took, and the
\* registry the last one enrolled, ended or not.
DispatchFails(kind, a) ==
    /\ Sends(kind, a) /\ ~(service = "up" /\ link \in {"open", "live"})
    /\ link' = IF link = "closed" THEN "stale" ELSE link
    /\ UNCHANGED <<server, view, revision, memory, container, file, ledger,
                   service, left>>

\* containerd: a container is idle when it has no task, and exited when its
\* task ended and was not deleted.  Creating, stopping and deleting are
\* idempotent; a task that ended is not started, a running one not deleted.
Accepts(kind, c) ==
    CASE kind = "start"  -> c \in {"idle", "running"}
      [] kind = "delete" -> c # "running"
      [] OTHER           -> TRUE

After(kind, c) ==
    CASE kind = "create" -> IF c = "absent" THEN "idle" ELSE c
      [] kind = "start"  -> "running"
      [] kind = "stop"   -> IF c = "absent" THEN c ELSE "idle"
      [] kind = "delete" -> "absent"

\* An error of the runtime is returned and nothing is recorded.
ExecuteAction ==
    /\ disp.at = "execute"
    /\ LET a == disp.env.target
           accepts == Accepts(disp.env.kind, container[a])
       IN  /\ disp' = IF accepts THEN [disp EXCEPT !.at = "intend"] ELSE NoDispatch
           /\ container' = IF accepts
                THEN [container EXCEPT ![a] = After(disp.env.kind, @)]
                ELSE container
    /\ UNCHANGED <<serverVars, session, sup, entries, file, ledger, held,
                   history, left>>

\* The entry the action leaves.  SetRunning changes only an entry that exists.
Intent(kind, entry) ==
    CASE kind = "create" -> "stopped"
      [] kind = "start"  -> IF entry = "none" THEN entry ELSE "running"
      [] kind = "stop"   -> IF entry = "none" THEN entry ELSE "stopped"
      [] kind = "delete" -> "none"

\* Without an entry SetRunning and Forget return before they write the file.
Written(kind, entry) == kind = "create" \/ entry # "none"

\* Mutant: the intent is kept in memory and the file is not written.
IntendUnwritten ==
    /\ disp.at = "intend"
    /\ entries' = [entries EXCEPT ![disp.env.target] = Intent(disp.env.kind, @)]
    /\ disp' = [disp EXCEPT !.at = "store"]
    /\ held' = [held EXCEPT ![disp.env.target] = disp.env.lease]
    /\ UNCHANGED <<serverVars, session, sup, container, file, ledger, history, left>>

\* recordDesired changes the memory and then replaces the file.  When that
\* fails the memory stays changed; otherwise the lease is noted.
Intend ==
    /\ disp.at = "intend"
    /\ LET a == disp.env.target
           kind == disp.env.kind
           written == Written(kind, entries[a])
       IN  /\ entries' = [entries EXCEPT ![a] = Intent(kind, @)]
           /\ \/ /\ file' = IF written THEN entries' ELSE file
                 /\ disp' = [disp EXCEPT !.at = "store"]
                 /\ held' = [held EXCEPT ![a] = disp.env.lease]
                 /\ UNCHANGED left
              \/ /\ written /\ Fault("persist")
                 /\ disp' = NoDispatch
                 /\ UNCHANGED <<file, held>>
    /\ UNCHANGED <<serverVars, session, sup, container, ledger, history>>

\* FileLedger.Put; an error of the file is returned to the server.  A line that
\* was written and not synced is there when the file is next read.
Store ==
    /\ disp.at = "store"
    /\ LET written == ledger.file \cup {Key(disp.env)}
       IN  \/ /\ ledger' = [memory |-> ledger.memory \cup {Key(disp.env)},
                            file |-> written]
              /\ disp' = [disp EXCEPT !.at = "reply"]
              /\ UNCHANGED left
           \/ /\ Fault("persist")
              /\ \E f \in {ledger.file, written} :
                    ledger' = [ledger EXCEPT !.file = f]
              /\ disp' = NoDispatch
    /\ UNCHANGED <<serverVars, session, sup, container, entries, file, held,
                   history>>

\* The answer reaches the server, which projects and records the evidence or,
\* when it is lost or its attestation refused, ends the proposal.
Reply ==
    /\ disp.at = "reply" /\ service = "up"
    /\ disp' = NoDispatch
    /\ \/ /\ view' = [view EXCEPT ![disp.env.target] = PhaseAfter(disp.env.kind)]
          /\ revision' = revision + 1
          /\ unsure' = unsure \ {disp.env.target}
          /\ plan' = [plan EXCEPT !.open = TRUE]
          /\ UNCHANGED left
       \/ /\ Fault("reply")
          /\ UNCHANGED <<view, revision, unsure, plan>>
    /\ UNCHANGED <<server, session, sup, container, entries, file, ledger,
                   held, history>>

-----------------------------------------------------------------------------
(* Supervisor.Reconcile.                                                    *)

Running == service \in {"dialing", "up", "cut"}

\* A pass works through the entries as they were when it began.
Supervise ==
    /\ Running /\ sup.at = "idle"
    /\ LET listed == {a \in Allocations : entries[a] # "none"}
       IN  /\ listed # {}
           /\ sup' = [at |-> "inspect", cur |-> {}, todo |-> listed,
                      intended |-> {a \in listed : entries[a] = "running"}]
    /\ UNCHANGED <<serverVars, session, disp, container, entries, file, ledger,
                   held, history, left>>

\* The pass goes on with the other entries, or is over.
Continue(others) ==
    sup' = IF others = {} THEN NoPass
           ELSE [sup EXCEPT !.at = "inspect", !.cur = {}, !.todo = others]

\* allowRestart: a passed window is a fresh budget.
AllowRestart(h) == h.count = 0 \/ h.old \/ (h.count < MaxRestarts /\ ~h.wait)

Counted(h) == [count |-> IF h.old THEN 1 ELSE h.count + 1,
               wait |-> TRUE, old |-> FALSE]

\* Mutant: a container without a task is left to the control plane.
InspectExited(a) ==
    /\ sup.at = "inspect" /\ a \in sup.todo
    /\ IF /\ a \in sup.intended /\ container[a] = "exited"
          /\ AllowRestart(history[a])
         THEN /\ sup' = [sup EXCEPT !.at = "start", !.cur = {a}, !.todo = @ \ {a}]
              /\ history' = [history EXCEPT ![a] = Counted(@)]
         ELSE Continue(sup.todo \ {a}) /\ UNCHANGED history
    /\ UNCHANGED <<serverVars, session, disp, container, entries, file, ledger,
                   held, left>>

\* reconcileOne up to its decision: an entry that is meant to run, whose
\* container exists and does not run, is started within the restart budget.
Inspect(a) ==
    /\ sup.at = "inspect" /\ a \in sup.todo
    /\ IF /\ a \in sup.intended /\ container[a] \in {"idle", "exited"}
          /\ AllowRestart(history[a])
         THEN /\ sup' = [sup EXCEPT !.at = "start", !.cur = {a}, !.todo = @ \ {a}]
              /\ history' = [history EXCEPT ![a] = Counted(@)]
         ELSE Continue(sup.todo \ {a}) /\ UNCHANGED history
    /\ UNCHANGED <<serverVars, session, disp, container, entries, file, ledger,
                   held, left>>

\* The restart itself, without a second look at the intent.
Restart(a) ==
    /\ sup.at = "start" /\ a \in sup.cur
    /\ IF Accepts("start", container[a])
         THEN /\ container' = [container EXCEPT ![a] = After("start", @)]
              /\ sup' = [sup EXCEPT !.at = "note"]
         ELSE Continue(sup.todo) /\ UNCHANGED container
    /\ UNCHANGED <<serverVars, session, disp, entries, file, ledger, held,
                   history, left>>

\* recordRestart writes the whole file; its error ends the pass.
NoteRestart(a) ==
    /\ sup.at = "note" /\ a \in sup.cur
    /\ \/ /\ file' = IF entries[a] = "none" THEN file ELSE entries
          /\ Continue(sup.todo) /\ UNCHANGED left
       \/ /\ entries[a] # "none" /\ Fault("persist")
          /\ sup' = NoPass /\ UNCHANGED file
    /\ UNCHANGED <<serverVars, session, disp, container, entries, ledger, held,
                   history>>

-----------------------------------------------------------------------------
(* Time: a backoff, a restart window and a node-side lease run out.         *)

BackoffPasses(a) ==
    /\ history[a].wait
    /\ history' = [history EXCEPT ![a].wait = FALSE]
    /\ UNCHANGED <<serverVars, session, disp, sup, container, entries, file,
                   ledger, held, left>>

WindowPasses(a) ==
    /\ history[a].count > 0 /\ ~history[a].wait /\ ~history[a].old
    /\ history' = [history EXCEPT ![a].old = TRUE]
    /\ UNCHANGED <<serverVars, session, disp, sup, container, entries, file,
                   ledger, held, left>>

LeaseExpires(a) ==
    /\ held[a] # 0
    /\ held' = [held EXCEPT ![a] = 0]
    /\ UNCHANGED <<serverVars, session, disp, sup, container, entries, file,
                   ledger, history, left>>

-----------------------------------------------------------------------------
(* The process, its host and its connection.                                *)

\* What is left of a connection that has ended.
Lost(l) == CASE l = "open" -> "closed" [] l = "live" -> "stale" [] OTHER -> l

\* The process ends in state s; what it held in memory is gone, and the files
\* are what the next one loads.
Ends(s) ==
    /\ service' = s /\ link' = Lost(link)
    /\ disp' = NoDispatch /\ sup' = NoPass /\ entries' = file
    /\ ledger' = [ledger EXCEPT !.memory = ledger.file]
    /\ held' = [a \in Allocations |-> 0]
    /\ history' = [a \in Allocations |-> Fresh]

Crash ==
    /\ Running /\ Fault("crash")
    /\ Ends("failed")
    /\ UNCHANGED <<serverVars, container, file>>

\* The host reboots: containers stay and tasks are gone.
Reboot ==
    /\ Fault("reboot")
    /\ Ends("failed")
    /\ container' = [a \in Allocations |->
                        IF container[a] = "absent" THEN "absent" ELSE "idle"]
    /\ UNCHANGED <<serverVars, file>>

\* A workload's process ends by itself.
Exit(a) ==
    /\ container[a] = "running" /\ Fault("exit")
    /\ container' = [container EXCEPT ![a] = "exited"]
    /\ UNCHANGED <<serverVars, session, memory, file, ledger>>

\* The connection breaks and the server goes on.
Cut ==
    /\ service = "up" /\ Fault("cut")
    /\ service' = "cut" /\ link' = Lost(link)
    /\ UNCHANGED <<serverVars, memory, container, file, ledger>>

\* The server stops: its proposal, its registry and its executors are gone.
ServerStops ==
    /\ server /\ Fault("outage")
    /\ server' = FALSE /\ link' = "none"
    /\ plan' = [plan EXCEPT !.open = FALSE]
    /\ service' = IF service = "up" THEN "cut" ELSE service
    /\ UNCHANGED <<view, revision, unsure, memory, container, file, ledger>>

ServerReturns ==
    /\ ~server
    /\ server' = TRUE
    /\ UNCHANGED <<view, revision, unsure, plan, session, memory, container,
                   file, ledger, left>>

\* Serve returns when the stream ends, and runNode with it: without an error
\* when the server closed the connection, with one when it was reset.
Disconnected ==
    /\ service = "cut" /\ disp.at \in {"idle", "reply"}
    /\ \E s \in {"exited", "failed"} : Ends(s)
    /\ UNCHANGED <<serverVars, container, file, left>>

\* The unit restarts the daemon on failure; runNode loads the files, starts
\* the supervisor and dials.
StartDaemon ==
    /\ service = "failed"
    /\ service' = "dialing"
    /\ UNCHANGED <<serverVars, link, memory, container, file, ledger, left>>

\* An enrolled node takes its place in the registry.
Dial ==
    /\ service = "dialing"
    /\ IF server THEN /\ service' = "up"
                      /\ link' = IF link = "stale" THEN link ELSE "open"
                      /\ UNCHANGED <<memory, ledger>>
                 ELSE Ends("failed")
    /\ UNCHANGED <<serverVars, container, file, left>>

-----------------------------------------------------------------------------
Daemon ==
    \/ ExecuteAction \/ Intend \/ Store \/ Reply
    \/ Supervise
    \/ \E a \in Allocations : Inspect(a) \/ Restart(a) \/ NoteRestart(a)
    \/ StartDaemon \/ Dial

Time == \E a \in Allocations : BackoffPasses(a) \/ WindowPasses(a) \/ LeaseExpires(a)

Next ==
    \/ Propose
    \/ \E k \in Kinds, a \in Allocations : Dispatch(k, a) \/ DispatchFails(k, a)
    \/ Daemon \/ Time
    \/ Crash \/ Reboot \/ \E a \in Allocations : Exit(a)
    \/ Cut \/ ServerStops \/ ServerReturns \/ Disconnected

Spec == Init /\ [][Next]_vars

\* The supervisor and the service manager each keep going, a server that stopped is
\* started again, and time passes.
Fairness ==
    /\ WF_vars(Supervise \/ \E a \in Allocations :
                    Inspect(a) \/ Restart(a) \/ NoteRestart(a))
    /\ WF_vars(Disconnected \/ StartDaemon \/ Dial) /\ WF_vars(ServerReturns)
    /\ \A a \in Allocations : WF_vars(BackoffPasses(a) \/ WindowPasses(a))

FairSpec == Spec /\ Fairness

-----------------------------------------------------------------------------
(* Properties.                                                              *)

\* Every variable stays in the set of values the program gives it; the restart
\* budget is never overdrawn.
TypeOK ==
    /\ server \in BOOLEAN /\ revision \in Nat /\ unsure \subseteq Allocations
    /\ view \in [Allocations -> {"absent", "created", "running", "stopped"}]
    /\ plan \in [lease : 0 .. MaxPlans, based : Nat,
                 todo : Seq(Kinds \X Allocations), open : BOOLEAN]
    /\ link \in {"none", "open", "closed", "live", "stale"}
    /\ service \in {"dialing", "up", "cut", "failed", "exited"}
    /\ disp \in [at : {"idle", "execute", "intend", "store", "reply"},
                 env : Envelopes \cup {NoEnvelope}]
    /\ sup \in [at : {"idle", "inspect", "start", "note"},
                cur : SUBSET Allocations, todo : SUBSET Allocations,
                intended : SUBSET Allocations]
    /\ container \in [Allocations -> {"absent", "idle", "running", "exited"}]
    /\ entries \in [Allocations -> {"none", "stopped", "running"}]
    /\ file \in [Allocations -> {"none", "stopped", "running"}]
    /\ ledger \in [memory : SUBSET (Nat \X Kinds \X Allocations),
                   file : SUBSET (Nat \X Kinds \X Allocations)]
    /\ held \in [Allocations -> Nat]
    /\ history \in [Allocations -> [count : 0 .. MaxRestarts,
                                    wait : BOOLEAN, old : BOOLEAN]]
    /\ left \in 0 .. MaxFaults

\* What the server believes without doubt about an allocation is the intent
\* the node would find after a restart, whatever files failed to be written,
\* answers were lost and processes crashed in between.
IntentDurable ==
    \A a \in Allocations \ unsure :
        view[a] # "absent" =>
            file[a] = IF view[a] = "running" THEN "running" ELSE "stopped"

\* A workload that lost its task with the host runs again without the server's
\* help, unless the server has changed its mind meanwhile or the daemon ended
\* without an error (Supervisor.Reconcile).
Recovers(a) ==
    (entries[a] = "running" /\ file[a] = "running" /\ container[a] = "idle")
        ~> (entries[a] # "running" \/ file[a] # "running" \/ container[a] # "idle"
              \/ service = "exited")

\* "A node must not restart something the server asked to stop"
\* (supervisor_test.go): what the server was told has stopped does not run.
StoppedStays ==
    \A a \in Allocations \ unsure : view[a] = "stopped" => container[a] # "running"
=============================================================================
