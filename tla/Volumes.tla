------------------------------ MODULE Volumes ------------------------------
(***************************************************************************)
(* One durable volume: what the kernel authorizes, what the nodes do to    *)
(* the files and to their record of the owner, and what the world learns   *)
(* from the evidence (node/volume.go, node/snapshot.go, node/backup.go,    *)
(* node/handoff.go, node/database.go, and the volume parts of              *)
(* control/policy.go, control/projection.go and control/storage_agent.go). *)
(*                                                                         *)
(* An operation is proposed, authorized against the world, executed by one *)
(* node (dispatches are serialized there) and projected from its evidence. *)
(* Its answer may be lost, its write of the state file may fail, and the   *)
(* daemon may restart.  A refused operation changes nothing and is no step.*)
(* The content of a directory is the number of the write that produced it, *)
(* and its checksum is that number; 0 is an empty directory.               *)
(***************************************************************************)
EXTENDS Integers, Sequences, FiniteSets, Functions

CONSTANTS
    Nodes, Allocs,     \* one allocation for each workload that names the volume
    Snaps,             \* the labels a proposal may give to a snapshot
    Goals,             \* [engine, approved]: whether the workloads are databases,
                       \* and the scopes an operator has approved
    Reuse,             \* TRUE when a proposal may name a label used before
    Faults,            \* "lost", "unsaved", "crash", "rot"
    MaxFaults, MaxWrites, MaxGen,
    None, Damaged

ASSUME VolumesAssumption ==
    /\ {MaxFaults, MaxWrites, MaxGen} \subseteq Nat
    /\ Goals \subseteq [engine : BOOLEAN,
                      approved : SUBSET {"move-volume", "restore-volume", "destroy-stateful"}]
    /\ Reuse \in BOOLEAN
    /\ Faults \subseteq {"lost", "unsaved", "crash", "rot"}
    /\ None \notin Nodes \cup Allocs \cup Nat \cup {Damaged} /\ Damaged \notin Nat

VARIABLES
    goal,      \* the operators' declaration, which does not change
    vol,       \* the world's record of the volume
    alloc,     \* the world's record of each allocation
    rec, file, \* each node's record of the volume: in memory, and in its file
    data,      \* each node's volume directory
    shelf,     \* each node's snapshot directories, oldest first
    copy,      \* the content of each of them
    store,     \* the off-host backup store, shared by the nodes
    box, live, \* the containers that exist, and the processes that run
    written,   \* how many writes the processes have made
    left       \* how many faults may still happen

vars == <<goal, vol, alloc, rec, file, data, shelf, copy, store, box, live, written, left>>
fixed == <<goal, written>>
node == <<rec, file, data>>
copies == <<shelf, copy, store>>
processes == <<alloc, box, live>>

Absent == [phase |-> "absent", node |-> None, gen |-> 0, stateful |-> FALSE]

\* The world has no record of the volume.
NoVolume == [home |-> None]

Contents == 0 .. MaxWrites

Init ==
    /\ goal \in Goals
    /\ vol = NoVolume
    /\ alloc = [a \in Allocs |-> Absent]
    /\ rec = [n \in Nodes |-> None]
    /\ file = rec
    /\ data = [n \in Nodes |-> None]
    /\ shelf = [n \in Nodes |-> <<>>]
    /\ copy = [n \in Nodes |-> [s \in Snaps |-> None]]
    /\ store = [s \in Snaps |-> None]
    /\ box = {} /\ live = {}
    /\ written = 0
    /\ left = MaxFaults

(***************************************************************************)
(* How an operation may end: done; done on the node while its answer is    *)
(* lost; or done in memory while the write of the state file failed.       *)
(***************************************************************************)
Outcomes(kinds) == {"done"} \cup (IF left > 0 THEN Faults \cap kinds ELSE {})

Spend(o) == left' = IF o = "done" THEN left ELSE left - 1

Learn(o, v) == vol' = IF o = "done" THEN v ELSE vol

Save(n, r, o) ==
    /\ rec' = [rec EXCEPT ![n] = r]
    /\ file' = IF o = "unsaved" THEN file ELSE [file EXCEPT ![n] = r]

Holder(n) == rec[n].owner

Shelved(n) == Range(shelf[n])

Without(list, removed) == SelectSeq(list, LAMBDA d : d \notin removed)

Unused(s) == /\ vol.snaps[s] = None /\ store[s] = None
             /\ \A n \in Nodes : s \notin Shelved(n)

(***************************************************************************)
(* Volumes.create: a repeated create answers without touching anything.    *)
(***************************************************************************)
Created(n) ==
    [home |-> n, owner |-> None, gen |-> 0,
     snaps |-> [s \in Snaps |-> None], order |-> <<>>, last |-> None,
     backups |-> {}, verified |-> None, fresh |-> FALSE, handoff |-> None]

MayCreate(n) == vol # NoVolume => vol.home = n

CreateVolume(n) ==
    /\ MayCreate(n)
    /\ \E o \in Outcomes(IF rec[n] = None THEN {"lost", "unsaved"} ELSE {"lost"}) :
        /\ Spend(o)
        /\ IF rec[n] # None
             THEN UNCHANGED node
             ELSE /\ Save(n, [owner |-> None, gen |-> 0], o)
                  /\ data' = [data EXCEPT ![n] = IF @ = None THEN 0 ELSE @]
        /\ Learn(o, IF vol = NoVolume THEN Created(n) ELSE vol)
    /\ UNCHANGED <<copies, processes, fixed>>

(***************************************************************************)
(* Placement pins a workload to its volume's node and waits for a move.    *)
(***************************************************************************)
Place(a, n) ==
    /\ alloc[a] = Absent
    /\ vol # NoVolume => vol.handoff = None /\ vol.home = n
    /\ \E o \in Outcomes({"lost"}) :
        /\ Spend(o)
        /\ box' = box \cup {<<n, a>>}
        /\ alloc' = IF o = "done"
                      THEN [alloc EXCEPT ![a].phase = "created", ![a].node = n]
                      ELSE alloc
    /\ UNCHANGED <<vol, node, copies, live, fixed>>

MayAttach(a) ==
    /\ alloc[a].phase = "created"
    /\ vol # NoVolume
    /\ vol.owner \in {None, a}
    /\ vol.handoff = None
    /\ vol.home = alloc[a].node

Attached(a) ==
    [vol EXCEPT !.owner = a, !.gen = IF vol.owner = a THEN @ ELSE @ + 1]

(***************************************************************************)
(* Volumes.attach writes only when the owner changes, so a repeated attach *)
(* answers from memory even when the first one's write failed.             *)
(***************************************************************************)
Attach(a) ==
    /\ MayAttach(a)
    /\ vol.gen < MaxGen
    /\ LET n == vol.home
       IN  /\ rec[n] # None
           /\ Holder(n) \in {None, a}
           /\ \E o \in Outcomes(IF Holder(n) = a THEN {"lost"} ELSE {"lost", "unsaved"}) :
                /\ Spend(o)
                /\ IF Holder(n) = a
                     THEN UNCHANGED <<rec, file>>
                     ELSE Save(n, [owner |-> a, gen |-> rec[n].gen + 1], o)
                /\ Learn(o, Attached(a))
                /\ alloc' = IF o = "done"
                              THEN [alloc EXCEPT ![a].gen = Attached(a).gen]
                              ELSE alloc
    /\ UNCHANGED <<data, copies, box, live, fixed>>

\* Mutant: a volume is detached whatever its owner does.
MayDetachRunning(a) == vol # NoVolume /\ vol.owner \in {None, a}

MayDetach(a) ==
    /\ vol # NoVolume
    /\ vol.owner \in {None, a}
    /\ alloc[a].phase # "running"

Detached == [vol EXCEPT !.owner = None, !.gen = @ + 1]

(***************************************************************************)
(* Volumes.detach answers for a volume it does not know, and advances the  *)
(* generation of one that nobody holds.                                    *)
(***************************************************************************)
Detach(a) ==
    /\ MayDetach(a)
    /\ vol.gen < MaxGen
    /\ LET n == vol.home
       IN  /\ rec[n] # None => Holder(n) \in {None, a}
           /\ \E o \in Outcomes(IF rec[n] = None THEN {"lost"} ELSE {"lost", "unsaved"}) :
                /\ Spend(o)
                /\ IF rec[n] = None
                     THEN UNCHANGED <<rec, file>>
                     ELSE Save(n, [owner |-> None, gen |-> rec[n].gen + 1], o)
                /\ Learn(o, Detached)
                /\ alloc' = IF o = "done" /\ vol.owner # None
                              THEN [alloc EXCEPT ![vol.owner].gen = 0]
                              ELSE alloc
    /\ UNCHANGED <<data, copies, box, live, fixed>>

(***************************************************************************)
(* The kernel starts an allocation that holds the volume at its current    *)
(* generation.                                                             *)
(***************************************************************************)
MayStart(a) ==
    /\ alloc[a].phase = "created"
    /\ vol # NoVolume
    /\ alloc[a].gen # 0 /\ alloc[a].gen = vol.gen
    /\ vol.owner = a

Start(a) ==
    /\ MayStart(a)
    /\ <<alloc[a].node, a>> \in box
    /\ \E o \in Outcomes({"lost"}) :
        /\ Spend(o)
        /\ live' = live \cup {<<alloc[a].node, a>>}
        /\ alloc' = IF o = "done" THEN [alloc EXCEPT ![a].phase = "running"] ELSE alloc
    /\ UNCHANGED <<vol, node, copies, box, fixed>>

Stop(a) ==
    /\ alloc[a].phase = "running"
    /\ \E o \in Outcomes({"lost"}) :
        /\ Spend(o)
        /\ live' = live \ {<<alloc[a].node, a>>}
        /\ alloc' = IF o = "done" THEN [alloc EXCEPT ![a].phase = "stopped"] ELSE alloc
    /\ UNCHANGED <<vol, node, copies, box, fixed>>

(***************************************************************************)
(* The kernel asks for an approval when the allocation is marked stateful; *)
(* the projection of a created allocation never marks it.                  *)
(***************************************************************************)
MayDelete(a) ==
    /\ alloc[a].phase \in {"created", "stopped"}
    /\ alloc[a].gen = 0
    /\ alloc[a].stateful => "destroy-stateful" \in goal.approved

Delete(a) ==
    /\ MayDelete(a)
    /\ <<alloc[a].node, a>> \notin live
    /\ \E o \in Outcomes({"lost"}) :
        /\ Spend(o)
        /\ box' = box \ {<<alloc[a].node, a>>}
        /\ alloc' = IF o = "done" THEN [alloc EXCEPT ![a] = Absent] ELSE alloc
    /\ UNCHANGED <<vol, node, copies, live, fixed>>

(***************************************************************************)
(* Evidence of a snapshot: it is a recovery point and the latest one, and  *)
(* in a quiesced handoff it is the one that will move.                     *)
(***************************************************************************)
Recorded(s, sum) ==
    [vol EXCEPT !.snaps[s] = sum,
                !.order = IF vol.snaps[s] = None THEN Append(@, s) ELSE @,
                !.last = s]

Snapshotted(s, sum) ==
    [Recorded(s, sum) EXCEPT
        !.handoff = IF @ # None /\ @.phase = "quiesced"
                      THEN [@ EXCEPT !.phase = "snapshotted", !.snap = s, !.sum = sum]
                      ELSE @]

(***************************************************************************)
(* An existing directory is answered with its own checksum; otherwise the  *)
(* copy takes its name by a rename.                                        *)
(***************************************************************************)
Shelve(n, s) ==
    IF s \in Shelved(n)
      THEN UNCHANGED <<shelf, copy>>
      ELSE /\ shelf' = [shelf EXCEPT ![n] = Append(@, s)]
           /\ copy' = [copy EXCEPT ![n][s] = data[n]]

MaySnapshot == vol # NoVolume /\ ~goal.engine /\ vol.owner = None

Snapshot(s) ==
    /\ MaySnapshot
    /\ Reuse \/ Unused(s)
    /\ LET n == vol.home
       IN  /\ rec[n] # None /\ Holder(n) = None
           /\ Shelve(n, s)
           /\ \E o \in Outcomes({"lost"}) :
                /\ Spend(o)
                /\ Learn(o, IF vol.snaps[s] \in {None, copy'[n][s]}
                              THEN Snapshotted(s, copy'[n][s])
                              ELSE vol)
    /\ UNCHANGED <<node, store, processes, fixed>>

(***************************************************************************)
(* A database is copied by its own tool while it runs; the projection does *)
(* not compare the checksum of a repeated label.                           *)
(***************************************************************************)
MayBackupDatabase == vol # NoVolume /\ goal.engine /\ vol.owner # None

DatabaseBackup(s) ==
    /\ MayBackupDatabase
    /\ Reuse \/ Unused(s)
    /\ LET n == vol.home
       IN  /\ rec[n] # None /\ <<n, Holder(n)>> \in live
           /\ Shelve(n, s)
           /\ \E o \in Outcomes({"lost"}) :
                Spend(o) /\ Learn(o, Recorded(s, copy'[n][s]))
    /\ UNCHANGED <<node, store, processes, fixed>>

(***************************************************************************)
(* Volumes.backup compares the local copy with the recorded checksum; Put  *)
(* answers with what the store already has under that name.                *)
(***************************************************************************)
MayBackup(s) == vol # NoVolume /\ vol.snaps[s] # None

BackedUp(s) == [vol EXCEPT !.backups = @ \cup {s}]

Backup(s) ==
    /\ MayBackup(s)
    /\ LET n == vol.home
       IN  /\ rec[n] # None
           /\ s \in Shelved(n)
           /\ copy[n][s] = vol.snaps[s]
           /\ store' = [store EXCEPT ![s] = IF @ = None THEN copy[n][s] ELSE @]
    /\ \E o \in Outcomes({"lost"}) :
        Spend(o) /\ Learn(o, BackedUp(s))
    /\ UNCHANGED <<node, shelf, copy, processes, fixed>>

(***************************************************************************)
(* The copy a restore or a verification reads: the local one when there is *)
(* one, else the one in the backup store.                                  *)
(***************************************************************************)
Source(n, s) == IF s \in Shelved(n) THEN copy[n][s] ELSE store[s]

MayRestore(s) ==
    /\ vol # NoVolume /\ vol.snaps[s] # None /\ vol.owner = None
    /\ "restore-volume" \in goal.approved

Restore(s) ==
    /\ MayRestore(s)
    /\ LET n == vol.home
       IN  /\ rec[n] # None /\ Holder(n) = None
           /\ Source(n, s) = vol.snaps[s]
           /\ data' = [data EXCEPT ![n] = Source(n, s)]
    /\ UNCHANGED <<vol, rec, file, copies, processes, fixed, left>>

(***************************************************************************)
(* The storage agent verifies the latest snapshot when the last success is *)
(* older than its interval.  The scratch copy is removed by a defer, so a  *)
(* crash leaves it among the snapshots, which prune lists with them.       *)
(***************************************************************************)
ScratchOf(s) == <<"verify", s>>

Overdue == vol # NoVolume /\ vol.last # None /\ ~vol.fresh

MayVerify == Overdue /\ vol.handoff = None

Verified(s) == [vol EXCEPT !.verified = s, !.fresh = TRUE]

Verify ==
    /\ MayVerify
    /\ LET n == vol.home
           s == vol.last
           without == Without(shelf[n], {ScratchOf(s)})
       IN  /\ rec[n] # None
           /\ \/ /\ shelf' = [shelf EXCEPT ![n] = without]
                 /\ vol' = IF Source(n, s) = vol.snaps[s] THEN Verified(s) ELSE vol
                 /\ UNCHANGED <<rec, left>>
              \/ /\ "crash" \in Faults /\ left > 0 /\ Source(n, s) # None
                 /\ shelf' = [shelf EXCEPT ![n] = Append(without, ScratchOf(s))]
                 /\ rec' = [rec EXCEPT ![n] = file[n]]
                 /\ left' = left - 1
                 /\ UNCHANGED vol
    /\ UNCHANGED <<file, data, copy, store, processes, fixed>>

(***************************************************************************)
(* Volumes.prune keeps the k newest directories on its disk.  The evidence *)
(* lists what it removed, or would remove, and the world forgets those.    *)
(***************************************************************************)
\* Mutant: one directory more than allowed is removed.
RemovableOneMore(n, k) ==
    {d \in Shelved(n) :
        \E i \in DOMAIN shelf[n] : shelf[n][i] = d /\ i <= Len(shelf[n]) - k + 1}

Removable(n, k) ==
    {d \in Shelved(n) :
        \E i \in DOMAIN shelf[n] : shelf[n][i] = d /\ i <= Len(shelf[n]) - k}

\* Mutant: the backup records of pruned snapshots stay.
PrunedKeepingBackups(removed) ==
    LET order == Without(vol.order, removed)
    IN  [vol EXCEPT !.snaps = [s \in Snaps |-> IF s \in removed THEN None ELSE @[s]],
                    !.order = order,
                    !.last = IF @ \notin removed THEN @
                             ELSE IF order = <<>> THEN None ELSE order[Len(order)]]

Pruned(removed) ==
    LET order == Without(vol.order, removed)
    IN  [vol EXCEPT !.snaps = [s \in Snaps |-> IF s \in removed THEN None ELSE @[s]],
                    !.backups = @ \ removed,
                    !.order = order,
                    !.last = IF @ \notin removed THEN @
                             ELSE IF order = <<>> THEN None ELSE order[Len(order)]]

MayPrune == vol # NoVolume /\ vol.handoff = None

Prune(k, dry) ==
    /\ MayPrune
    /\ LET n == vol.home
           removed == Removable(n, k)
           gone == IF dry THEN {} ELSE removed
       IN  /\ rec[n] # None
           /\ shelf' = [shelf EXCEPT ![n] = Without(@, gone)]
           /\ copy' = [copy EXCEPT ![n] =
                          [s \in Snaps |-> IF s \in gone THEN None ELSE @[s]]]
           /\ \E o \in Outcomes({"lost"}) : Spend(o) /\ Learn(o, Pruned(removed))
    /\ UNCHANGED <<node, store, processes, fixed>>

(***************************************************************************)
(* A move.  RegistryExecutor sends an action to the node it names, and the *)
(* node a quiesce names is the target; the node tests send it to the node  *)
(* that holds the volume.  Either may be the one that confirms.            *)
(***************************************************************************)
Confirming(n) == {n, vol.home}

MayQuiesce(n) ==
    /\ vol # NoVolume /\ vol.owner = None
    /\ n # vol.home
    /\ "move-volume" \in goal.approved

\* Mutant: the move begins with the latest snapshot there is.
QuiescedReusing(n) ==
    [vol EXCEPT !.handoff =
        [to |-> n, phase |-> IF vol.last = None THEN "quiesced" ELSE "snapshotted",
         snap |-> vol.last,
         sum |-> IF vol.last = None THEN None ELSE vol.snaps[vol.last]]]

Quiesced(n) ==
    [vol EXCEPT !.handoff = [to |-> n, phase |-> "quiesced", snap |-> None, sum |-> None]]

Quiesce(n) ==
    /\ MayQuiesce(n)
    /\ \E m \in Confirming(n) : rec[m] # None /\ Holder(m) = None
    /\ \E o \in Outcomes({"lost"}) :
        /\ Spend(o)
        /\ Learn(o, Quiesced(n))
    /\ UNCHANGED <<node, copies, processes, fixed>>

InPhase(p) == vol # NoVolume /\ vol.handoff # None /\ vol.handoff.phase = p

MayTransfer == InPhase("snapshotted")

Transferred == [vol EXCEPT !.handoff.phase = "transferred"]

MayAdopt == InPhase("transferred")

Adopted == [vol EXCEPT !.home = vol.handoff.to, !.gen = @ + 1, !.handoff = None]

(***************************************************************************)
(* Volumes.transfer makes an unowned record, fetches the snapshot unless a *)
(* directory of that name is there, and removes a copy that does not match.*)
(***************************************************************************)
Transfer ==
    /\ MayTransfer
    /\ LET h == vol.handoff
           n == h.to
           got == Source(n, h.snap)
       IN  \E o \in Outcomes(IF rec[n] = None THEN {"lost", "unsaved"} ELSE {"lost"}) :
            /\ Spend(o)
            /\ IF rec[n] # None
                 THEN UNCHANGED node
                 ELSE /\ Save(n, [owner |-> None, gen |-> 0], o)
                      /\ data' = [data EXCEPT ![n] = IF @ = None THEN 0 ELSE @]
            /\ IF o = "unsaved" \/ got = None
                 THEN UNCHANGED <<shelf, copy, vol>>
                 ELSE LET kept == Without(shelf[n], {h.snap})
                          ok == got = h.sum
                      IN  /\ shelf' = [shelf EXCEPT ![n] =
                                          IF ~ok THEN kept
                                          ELSE IF h.snap \in Shelved(n) THEN @
                                          ELSE Append(@, h.snap)]
                          /\ copy' = [copy EXCEPT ![n][h.snap] = IF ok THEN got ELSE None]
                          /\ Learn(IF ok THEN o ELSE "failed", Transferred)
    /\ UNCHANGED <<store, processes, fixed>>

\* Mutant: the copy is not compared with its checksum.
AdoptUnchecked ==
    /\ MayAdopt
    /\ LET h == vol.handoff
       IN  /\ h.snap \in Shelved(h.to) /\ rec[h.to] # None
           /\ data' = [data EXCEPT ![h.to] = copy[h.to][h.snap]]
           /\ \E o \in Outcomes({"lost"}) :
                /\ Spend(o)
                /\ Learn(o, Adopted)
    /\ UNCHANGED <<rec, file, copies, processes, fixed>>

Adopt ==
    /\ MayAdopt
    /\ vol.gen < MaxGen
    /\ LET h == vol.handoff
       IN  /\ h.snap \in Shelved(h.to)
           /\ copy[h.to][h.snap] = h.sum
           /\ rec[h.to] # None
           /\ data' = [data EXCEPT ![h.to] = copy[h.to][h.snap]]
           /\ \E o \in Outcomes({"lost"}) :
                /\ Spend(o)
                /\ Learn(o, Adopted)
    /\ UNCHANGED <<rec, file, copies, processes, fixed>>

(***************************************************************************)
(* The processes, the passing of the verification interval, and faults.    *)
(* A process keeps the directory it was created with, whatever the records *)
(* say, so only its being alive lets it write.                             *)
(***************************************************************************)
Write(n) ==
    /\ written < MaxWrites
    /\ \E a \in Allocs : <<n, a>> \in live
    /\ data[n] # None
    /\ written' = written + 1
    /\ data' = [data EXCEPT ![n] = written']
    /\ UNCHANGED <<goal, vol, rec, file, copies, processes, left>>

Age ==
    /\ vol # NoVolume /\ vol.fresh
    /\ vol' = [vol EXCEPT !.fresh = FALSE]
    /\ UNCHANGED <<node, copies, processes, fixed, left>>

Restart(n) ==
    /\ "crash" \in Faults /\ left > 0
    /\ left' = left - 1
    /\ rec' = [rec EXCEPT ![n] = file[n]]
    /\ UNCHANGED <<vol, file, data, copies, processes, fixed>>

Rot ==
    /\ "rot" \in Faults /\ left > 0
    /\ left' = left - 1
    /\ \/ \E n \in Nodes : \E s \in Shelved(n) \cap Snaps :
            copy' = [copy EXCEPT ![n][s] = Damaged] /\ UNCHANGED store
       \/ \E s \in Snaps :
            store[s] # None /\ store' = [store EXCEPT ![s] = Damaged] /\ UNCHANGED copy
    /\ UNCHANGED <<vol, node, shelf, processes, fixed>>

Operate ==
    \/ \E a \in Allocs : \/ \E n \in Nodes : Place(a, n)
                         \/ Attach(a) \/ Detach(a)
                         \/ Start(a) \/ Stop(a) \/ Delete(a)
    \/ \E n \in Nodes : CreateVolume(n) \/ Quiesce(n)
    \/ Transfer \/ Adopt

Protect ==
    \/ \E s \in Snaps : Snapshot(s) \/ DatabaseBackup(s) \/ Backup(s) \/ Restore(s)
    \/ Verify
    \/ \E k \in 1 .. Cardinality(Snaps), dry \in BOOLEAN : Prune(k, dry)

Next ==
    \/ Operate
    \/ Protect
    \/ \E n \in Nodes : Write(n) \/ Restart(n)
    \/ Age \/ Rot

Spec == Init /\ [][Next]_vars

(***************************************************************************)
(* Properties.                                                             *)
(***************************************************************************)

\* The states of the model: a handoff always names a node other than the
\* volume's home, and only a handoff past its snapshot names a checksum.
TypeOK ==
    /\ vol # NoVolume =>
        /\ vol.home \in Nodes /\ vol.owner \in Allocs \cup {None}
        /\ vol.gen \in 0 .. MaxGen
        /\ vol.last \in Range(vol.order) \cup {None}
        /\ Range(vol.order) = {s \in Snaps : vol.snaps[s] # None}
        /\ vol.backups \subseteq Snaps
        /\ vol.handoff # None =>
            /\ vol.handoff.to \in Nodes \ {vol.home}
            /\ (vol.handoff.sum = None) <=> (vol.handoff.phase = "quiesced")
    /\ \A a \in Allocs : alloc[a].phase \in {"absent", "created", "running", "stopped"}
    /\ \A n \in Nodes : Shelved(n) \subseteq Snaps \cup {ScratchOf(s) : s \in Snaps}
    /\ live \subseteq box /\ box \subseteq Nodes \X Allocs
    /\ written \in Contents /\ left \in 0 .. MaxFaults

\* Two processes never write one volume, and the one that does is the owner
\* the world records, at the generation it attached (the single-writer rule of
\* validateAttachVolume, validateDetachVolume and validateStartAllocation).
OneWriter ==
    \A p \in live : /\ live = {p}
                    /\ vol.owner = p[2] /\ vol.home = p[1]
                    /\ alloc[p[2]].gen = vol.gen

\* When the world moves a volume to another node, the target holds exactly the
\* data the origin holds at that moment: nothing written before, between or
\* after the phases of the handoff is left behind (handoff.go, the projection
\* of volume_adopted).
MovedIsCurrent ==
    [][ (vol # NoVolume /\ vol'.home # vol.home) =>
            data'[vol'.home] = data[vol.home] ]_vars

\* A volume that has a snapshot a restore on its home node would accept keeps
\* one, through prunes, verifications, moves, backups and restarts (the
\* floor of Volumes.prune and of validatePruneSnapshots), as long as no copy is
\* damaged and no crashed verification left its scratch copy on the shelf.
Restorable == \E s \in Range(vol.order) : Source(vol.home, s) = vol.snaps[s]

Sound ==
    \A s \in Snaps : /\ store[s] # Damaged
                     /\ \A n \in Nodes : copy[n][s] # Damaged /\ ScratchOf(s) \notin Shelved(n)

RecoveryPoint ==
    [][ (vol # NoVolume /\ Restorable /\ Sound /\ Sound') => Restorable' ]_vars

\* What the store holds for a snapshot recorded as backed up is the content
\* the world recorded for that snapshot, unless it was damaged in the store
\* (Volumes.backup, Put and the projection of volume_backed_up).
BackupIsSnapshot ==
    vol # NoVolume => \A s \in vol.backups : store[s] \in {vol.snaps[s], Damaged}

\* A restore and an adoption never put damaged data in a volume: they read the
\* copy again and compare it with the checksum recorded when it was taken.
NeverDamaged == \A n \in Nodes : data[n] # Damaged
=============================================================================
