----------------------------- MODULE Containers -----------------------------
(***************************************************************************)
(* The container runtime of one node, with the network namespaces, secret  *)
(* files and images that belong to its allocations: what the kernel        *)
(* authorizes (control/policy.go), what CompositeRuntime does and in which *)
(* order (node/router.go, container_runtime.go, containerd_linux.go,       *)
(* network.go, cni_linux.go, secret.go), and what the world learns.        *)
(*                                                                         *)
(* One dispatch at a time reaches the runtime.  A refused operation        *)
(* changes nothing and is no step.  The daemon may restart: containers,    *)
(* namespaces, files and images stay, its maps are empty again.            *)
(***************************************************************************)
EXTENDS Integers, Sequences, FiniteSets

CONSTANTS
    Allocs, Images, Secrets, Versions, Paths,
    Base,       \* the file a secret is written to: the base of its mount path
    Needs,      \* what the workload declares: "volume", "secret", "network"
    Goals,      \* the goals an operator submits in turn: an image and a secret version
    Collecting, \* the image collections proposed: TRUE for a dry run
    Capacity,   \* addresses in the node's allocation subnet
    Faults,     \* "lost", "plugin", "timeout", "disk", "restart"
    MaxFaults,
    None

ASSUME ContainersAssumption ==
    /\ Base \in [Secrets -> Paths] /\ None \notin Versions
    /\ Needs \subseteq {"volume", "secret", "network"}
    /\ Goals \in Seq([image : Images, version : Versions]) /\ Goals # <<>>
    /\ Collecting \subseteq BOOLEAN
    /\ {Capacity, MaxFaults} \subseteq Nat
    /\ Faults \subseteq {"lost", "plugin", "timeout", "disk", "restart"}

VARIABLES
    turn,      \* which of the goals is in force
    world,     \* the world's record of each allocation, or Absent
    cached,    \* the images the world records on the node
    images,    \* the images in the node's content store
    cont,      \* each container, or None
    holder,    \* the allocation the node records as the volume's owner
    next,      \* BridgeIPAM.next
    attached,  \* cniBackend.attachments: the address given to each allocation
    netns,     \* the namespaces on the host, with the plugin's address
    strayed,   \* the allocations with a namespace the daemon does not know of
    mounts,    \* Secrets.mounts: the version of each secret the daemon mounted
    files,     \* the secret files: whose material, which version
    left       \* how many faults may still happen

vars == <<turn, world, cached, images, cont, holder, next, attached, netns,
          strayed, mounts, files, left>>
network == <<next, attached, netns, strayed>>
secrets == <<mounts, files>>
node == <<cont, holder, network, secrets>>

goal == Goals[turn]
Addresses == 2 .. Capacity - 2
\* The world has no record of the allocation.
Absent == [phase |-> "absent"]
NoSecrets == [s \in Secrets |-> None]
NoFiles == [p \in Paths |-> None]

Init ==
    /\ turn = 1
    /\ world = [a \in Allocs |-> Absent]
    /\ cached = {} /\ images = {}
    /\ cont = [a \in Allocs |-> None]
    /\ holder = None
    /\ next = 2
    /\ attached = [a \in Allocs |-> None]
    /\ netns = [a \in Allocs |-> None]
    /\ strayed = {}
    /\ mounts = [a \in Allocs |-> NoSecrets]
    /\ files = [a \in Allocs |-> NoFiles]
    /\ left = MaxFaults

Outcomes(kinds) == {"done"} \cup (IF left > 0 THEN Faults \cap kinds ELSE {})

Spend(o) == left' = IF o = "done" THEN left ELSE left - 1

Phase(a, p) == world[a].phase = p

\* The world keeps a record of an answer that arrives.
Learn(o, a, r) == world' = IF o = "done" THEN [world EXCEPT ![a] = r] ELSE world

(***************************************************************************)
(* An operator submits the next goal.                                      *)
(***************************************************************************)
Submit ==
    /\ turn < Len(Goals)
    /\ turn' = turn + 1
    /\ UNCHANGED <<world, cached, images, node, left>>

(***************************************************************************)
(* pull_image                                                              *)
(***************************************************************************)
MayPull(i) == i = goal.image

Pull(i) ==
    /\ MayPull(i)
    /\ \E o \in Outcomes({"lost"}) :
        /\ Spend(o)
        /\ images' = images \cup {i}
        /\ cached' = IF o = "done" THEN cached \cup {i} ELSE cached
    /\ UNCHANGED <<turn, world, node>>

(***************************************************************************)
(* create_allocation: what is attached and mounted now is what the         *)
(* container gets.  One that exists already is left as it is.              *)
(***************************************************************************)
Created(i) ==
    [phase |-> "created", image |-> i, volume |-> FALSE, secrets |-> NoSecrets,
     address |-> None]

MayCreate(a) == world[a] = Absent /\ goal.image \in cached

SpecFor(a) ==
    [image |-> goal.image, volume |-> holder = a, secrets |-> mounts[a],
     joined |-> attached[a] # None, task |-> "none"]

Create(a) ==
    /\ MayCreate(a)
    /\ IF cont[a] # None
         THEN cont[a].image = goal.image /\ UNCHANGED cont
         ELSE goal.image \in images /\ cont' = [cont EXCEPT ![a] = SpecFor(a)]
    /\ \E o \in Outcomes({"lost"}) :
        Spend(o) /\ Learn(o, a, Created(goal.image))
    /\ UNCHANGED <<turn, cached, images, holder, network, secrets>>

(***************************************************************************)
(* attach_volume and detach_volume, as far as the mounts depend on them.   *)
(***************************************************************************)
AttachVolume(a) ==
    /\ "volume" \in Needs
    /\ Phase(a, "created")
    /\ holder \in {None, a}
    /\ holder' = a
    /\ \E o \in Outcomes({"lost"}) :
        Spend(o) /\ Learn(o, a, [world[a] EXCEPT !.volume = TRUE])
    /\ UNCHANGED <<turn, cached, images, cont, network, secrets>>

DetachVolume(a) ==
    /\ world[a] # Absent /\ world[a].volume /\ world[a].phase # "running"
    /\ holder' = None
    /\ \E o \in Outcomes({"lost"}) :
        Spend(o) /\ Learn(o, a, [world[a] EXCEPT !.volume = FALSE])
    /\ UNCHANGED <<turn, cached, images, cont, network, secrets>>

(***************************************************************************)
(* mount_secret                                                            *)
(***************************************************************************)
MayMount(a) == "secret" \in Needs /\ Phase(a, "created")

WriteSecret(a, s, v) == files' = [files EXCEPT ![a][Base[s]] = <<s, v>>]

\* As if a mount under the same name were a repeat, whatever its version.
Repeated(a, s) == mounts[a][s] # None

SameMount(a, s) == mounts[a][s] = goal.version

Mount(a, s) ==
    LET v == goal.version IN
    /\ MayMount(a)
    /\ IF SameMount(a, s)
         THEN UNCHANGED secrets
         ELSE /\ WriteSecret(a, s, v)
              /\ mounts' = [mounts EXCEPT ![a][s] = v]
    /\ \E o \in Outcomes({"lost"}) :
        Spend(o) /\ Learn(o, a, [world[a] EXCEPT !.secrets[s] = v])
    /\ UNCHANGED <<turn, cached, images, cont, holder, network>>

(***************************************************************************)
(* attach_network.  The node reserves an address of its own before it      *)
(* calls the plugin; the address that counts is the plugin's.  Nothing     *)
(* lowers the counter.  A plugin that fails leaves nothing; one killed at  *)
(* its deadline may leave the namespace it made.                           *)
(***************************************************************************)
MayAttach(a) == "network" \in Needs /\ Phase(a, "created")

Assign == next < Capacity - 1 /\ next' = next + 1

\* The plugin serves a container it knows with the address it gave it.
PluginAdd(a, x) ==
    /\ IF netns[a] # None THEN x = netns[a] ELSE \A b \in Allocs : netns[b] # x
    /\ netns' = [netns EXCEPT ![a] = x]

PluginDel(a) == netns' = [netns EXCEPT ![a] = None]

AttachNetwork(a) ==
    /\ MayAttach(a)
    /\ \/ /\ attached[a] # None
          /\ \E o \in Outcomes({"lost"}) :
              Spend(o) /\ Learn(o, a, [world[a] EXCEPT !.address = attached[a]])
          /\ UNCHANGED network
       \/ /\ attached[a] = None
          /\ Assign
          /\ \E x \in Addresses, o \in Outcomes({"lost"}) :
              /\ PluginAdd(a, x)
              /\ attached' = [attached EXCEPT ![a] = x]
              /\ strayed' = strayed \ {a}
              /\ Spend(o) /\ Learn(o, a, [world[a] EXCEPT !.address = x])
       \/ /\ attached[a] = None
          /\ Assign
          /\ \E x \in Addresses, o \in Outcomes({"plugin", "timeout"}) \ {"done"} :
              /\ IF o = "timeout" THEN PluginAdd(a, x) /\ strayed' = strayed \cup {a}
                                ELSE UNCHANGED <<netns, strayed>>
              /\ Spend(o)
          /\ UNCHANGED <<attached, world>>
    /\ UNCHANGED <<turn, cached, images, cont, holder, secrets>>

(***************************************************************************)
(* start_allocation, stop_allocation, and a task that ends by itself.      *)
(***************************************************************************)
MayStart(a) ==
    /\ Phase(a, "created")
    /\ "volume" \in Needs => world[a].volume
    /\ "secret" \in Needs => \A s \in Secrets : world[a].secrets[s] = goal.version
    /\ "network" \in Needs => world[a].address # None

Start(a) ==
    /\ MayStart(a)
    /\ cont[a] # None /\ cont[a].task # "exited"
    /\ cont' = [cont EXCEPT ![a].task = "running"]
    /\ \E o \in Outcomes({"lost"}) :
        Spend(o) /\ Learn(o, a, [world[a] EXCEPT !.phase = "running"])
    /\ UNCHANGED <<turn, cached, images, holder, network, secrets>>

Stop(a) ==
    /\ Phase(a, "running")
    /\ cont' = IF cont[a] = None THEN cont ELSE [cont EXCEPT ![a].task = "none"]
    /\ \E o \in Outcomes({"lost"}) :
        Spend(o) /\ Learn(o, a, [world[a] EXCEPT !.phase = "stopped"])
    /\ UNCHANGED <<turn, cached, images, holder, network, secrets>>

Exit(a) ==
    /\ cont[a] # None /\ cont[a].task = "running"
    /\ cont' = [cont EXCEPT ![a].task = "exited"]
    /\ UNCHANGED <<turn, world, cached, images, holder, network, secrets, left>>

(***************************************************************************)
(* delete_allocation: the container, then its network, then its secrets;   *)
(* a part that fails ends the operation and leaves the rest for a retry.   *)
(***************************************************************************)
MayDelete(a) == world[a] # Absent /\ world[a].phase # "running" /\ ~world[a].volume

RemoveContainer(a) ==
    /\ cont[a] # None => cont[a].task # "running"
    /\ cont' = [cont EXCEPT ![a] = None]

\* As if a detach failed when there is nothing to detach.
DetachStrictly(a, o) ==
    /\ attached[a] # None
    /\ IF o = "plugin" THEN UNCHANGED <<netns, attached>>
       ELSE PluginDel(a) /\ attached' = [attached EXCEPT ![a] = None]

DetachNetwork(a, o) ==
    IF attached[a] = None
      THEN o # "plugin" /\ UNCHANGED <<netns, attached>>
      ELSE IF o = "plugin" THEN UNCHANGED <<netns, attached>>
      ELSE PluginDel(a) /\ attached' = [attached EXCEPT ![a] = None]

\* As if the daemon removed only the files it remembers having written.
ReleaseRemembered(a, o) ==
    IF o = "plugin" THEN UNCHANGED secrets
      ELSE /\ mounts' = [mounts EXCEPT ![a] = NoSecrets]
           /\ files' = IF o = "disk" \/ mounts[a] = NoSecrets THEN files
                         ELSE [files EXCEPT ![a] = NoFiles]

ReleaseSecrets(a, o) ==
    IF o = "plugin" THEN UNCHANGED secrets
      ELSE /\ mounts' = [mounts EXCEPT ![a] = NoSecrets]
           /\ files' = IF o = "disk" THEN files ELSE [files EXCEPT ![a] = NoFiles]

\* As if the network were taken down by a step of its own that nobody took.
DeleteContainerOnly(a) ==
    /\ MayDelete(a)
    /\ RemoveContainer(a)
    /\ \E o \in Outcomes({"disk", "lost"}) :
        /\ Spend(o)
        /\ ReleaseSecrets(a, o)
        /\ Learn(o, a, Absent)
    /\ UNCHANGED <<turn, cached, images, holder, network>>

Delete(a) ==
    /\ MayDelete(a)
    /\ RemoveContainer(a)
    /\ \E o \in Outcomes({"plugin", "disk", "lost"}) :
        /\ Spend(o)
        /\ DetachNetwork(a, o)
        /\ ReleaseSecrets(a, o)
        /\ Learn(o, a, Absent)
    /\ UNCHANGED <<turn, cached, images, holder, next, strayed>>

(***************************************************************************)
(* collect_images: the images no allocation of the world references.  A    *)
(* removal that fails ends the collection without evidence of the others.  *)
(***************************************************************************)
\* As if only what runs kept its image.
ProtectedWhileRunning == {world[a].image : a \in {b \in Allocs : Phase(b, "running")}}

ProtectedImages == {world[a].image : a \in {b \in Allocs : world[b] # Absent}}

Reclaimable == images \ ProtectedImages

Collected(gone) == cached' = cached \ gone

Collect(dry) ==
    /\ \/ /\ dry
          /\ \E o \in Outcomes({"lost"}) :
              /\ Spend(o)
              /\ IF o = "done" THEN Collected(Reclaimable) ELSE UNCHANGED cached
          /\ UNCHANGED images
       \/ /\ ~dry
          /\ \E o \in Outcomes({"lost"}) :
              /\ Spend(o)
              /\ IF o = "done" THEN Collected(Reclaimable) ELSE UNCHANGED cached
          /\ images' = images \ Reclaimable
       \/ /\ ~dry
          /\ "disk" \in Outcomes({"disk"})
          /\ Spend("disk")
          /\ \E gone \in SUBSET Reclaimable :
              gone # Reclaimable /\ images' = images \ gone
          /\ UNCHANGED cached
    /\ UNCHANGED <<turn, world, node>>

(***************************************************************************)
(* The daemon restarts and knows no attachment and no mount any more.      *)
(***************************************************************************)
Restart ==
    /\ "restart" \in Outcomes({"restart"})
    /\ Spend("restart")
    /\ next' = 2
    /\ attached' = [a \in Allocs |-> None]
    /\ strayed' = {a \in Allocs : netns[a] # None}
    /\ mounts' = [a \in Allocs |-> NoSecrets]
    /\ UNCHANGED <<turn, world, cached, images, cont, holder, netns, files>>

-----------------------------------------------------------------------------
Operate(a) ==
    \/ Create(a)
    \/ AttachVolume(a) \/ DetachVolume(a)
    \/ \E s \in Secrets : Mount(a, s)
    \/ AttachNetwork(a)
    \/ Start(a) \/ Stop(a) \/ Delete(a)

Next ==
    \/ Submit
    \/ \E i \in Images : Pull(i)
    \/ \E a \in Allocs : Operate(a) \/ Exit(a)
    \/ \E dry \in Collecting : Collect(dry)
    \/ Restart

Spec == Init /\ [][Next]_vars

\* Every round of the reconcile loop proposes again to delete an allocation that
\* is stopped (RolloutAgent.Propose), and the faults end.
FairSpec == Spec /\ \A a \in Allocs : WF_vars(Delete(a))

-----------------------------------------------------------------------------
\* The shape of the node's and the world's records.
TypeOK ==
    /\ turn \in DOMAIN Goals
    /\ \A a \in Allocs : world[a] # Absent =>
        /\ world[a].phase \in {"created", "running", "stopped"}
        /\ world[a].image \in Images
        /\ world[a].secrets \in [Secrets -> Versions \cup {None}]
        /\ world[a].address \in Addresses \cup {None}
    /\ cached \subseteq Images /\ images \subseteq Images
    /\ \A a \in Allocs : cont[a] # None => cont[a].task \in {"none", "running", "exited"}
    /\ holder \in Allocs \cup {None}
    /\ next \in 2 .. Capacity - 1
    /\ attached \in [Allocs -> Addresses \cup {None}]
    /\ netns \in [Allocs -> Addresses \cup {None}]
    /\ left \in 0 .. MaxFaults

\* An allocation the world no longer knows has no secret file on the node:
\* Secrets.Release removes the directory whatever the daemon remembers, and a
\* deletion that fails on the way is not reported as done.
CredentialsReleased == \A a \in Allocs : world[a] = Absent => files[a] = NoFiles

\* An allocation the world no longer knows has no namespace on the host, unless
\* the daemon lost sight of it in a restart or at a plugin's deadline: the
\* teardown is part of CompositeRuntime's delete, and runs before its answer.
NamespaceReleased ==
    \A a \in Allocs : world[a] = Absent => netns[a] = None \/ a \in strayed

\* The image of a running container is in the content store: collectImages
\* spares what ProtectedImages names, and only an allocation the world knows
\* is started.
RunningImageKept ==
    \A a \in Allocs : cont[a] # None /\ cont[a].task = "running" => cont[a].image \in images

\* While the world says an allocation runs, each secret it was promised is in
\* the file written for it (validateStartAllocation, Secrets.write).
SecretsPromised ==
    \A a \in Allocs, s \in Secrets :
        "secret" \in Needs /\ Phase(a, "running")
            => files[a][Base[s]] = <<s, world[a].secrets[s]>>

\* A stopped allocation that holds no volume is deleted in the end, however many
\* of the parts of its deletion fail first: each part may be repeated
\* (CompositeRuntime.Execute).
StoppedIsDeleted ==
    \A a \in Allocs : (Phase(a, "stopped") /\ ~world[a].volume) ~> world[a] = Absent
=============================================================================
