--------------------------- MODULE VolumesProofs ---------------------------
(***************************************************************************)
(* A volume has one writer, a move loses nothing, backups hold what the    *)
(* world recorded and damaged data is never put in a volume: for any number*)
(* of nodes, allocations, snapshots, writes and faults.                    *)
(***************************************************************************)
EXTENDS Volumes, TLAPS

\* A checksum; damaged data has another one.
Sums == Nat \cup {None}

\* The fields of the world's record.
Fields(v) ==
    v = [home |-> v.home, owner |-> v.owner, gen |-> v.gen, snaps |-> v.snaps,
         order |-> v.order, last |-> v.last, backups |-> v.backups,
         verified |-> v.verified, fresh |-> v.fresh, handoff |-> v.handoff]

\* The types the arguments rest on.
VolumeShape ==
    vol # NoVolume =>
        /\ Fields(vol)
        /\ vol.home \in Nodes /\ vol.owner \in Allocs \cup {None} /\ vol.gen \in Nat
        /\ vol.snaps \in [Snaps -> Sums] /\ vol.backups \subseteq Snaps
        /\ vol.handoff # None =>
            /\ vol.handoff = [to |-> vol.handoff.to, phase |-> vol.handoff.phase,
                              snap |-> vol.handoff.snap, sum |-> vol.handoff.sum]
            /\ vol.handoff.to \in Nodes /\ vol.handoff.sum \in Sums

NodeShape ==
    /\ goal \in Goals /\ written \in Nat
    /\ data \in [Nodes -> Sums]
    /\ copy \in [Nodes -> [Snaps -> Sums \cup {Damaged}]]
    /\ store \in [Snaps -> Sums \cup {Damaged}]

Shape == VolumeShape /\ NodeShape

\* What the store has for a snapshot of the world is that snapshot, backed up
\* or not.
Stored ==
    vol # NoVolume =>
        /\ \A s \in Snaps : vol.snaps[s] # None /\ store[s] # None =>
                store[s] \in {vol.snaps[s], Damaged}
        /\ \A s \in vol.backups : vol.snaps[s] # None /\ store[s] # None

Content == Shape /\ Stored

\* The evidence of a snapshot, a verification or a prune leaves the volume where
\* it is and with whom.
Stays(v) ==
    Fields(v) /\ v.home = vol.home /\ v.owner = vol.owner /\ v.gen = vol.gen

LEMMA PrunedStays ==
    ASSUME vol # NoVolume, VolumeShape, NEW removed
    PROVE  /\ Stays(Pruned(removed)) /\ Pruned(removed).handoff = vol.handoff
           /\ Pruned(removed).snaps = [s \in Snaps |-> IF s \in removed THEN None
                                                       ELSE vol.snaps[s]]
           /\ Pruned(removed).backups = vol.backups \ removed
<1> DEFINE order == Without(vol.order, removed)
           last == IF vol.last \notin removed THEN vol.last
                   ELSE IF order = <<>> THEN None ELSE order[Len(order)]
<1>1. Pruned(removed) =
        [vol EXCEPT !.snaps = [s \in Snaps |-> IF s \in removed THEN None ELSE vol.snaps[s]],
                    !.backups = vol.backups \ removed, !.order = order, !.last = last]
  BY DEF Pruned
<1> HIDE DEF order, last
<1>2. Fields(vol)
  BY DEF VolumeShape
<1>3. QED BY <1>1, <1>2 DEF Stays, Fields

-----------------------------------------------------------------------------
(* What is stored.                                                          *)

kept == <<goal, written, data, copy, store>>

\* A handoff names a node and a checksum.
HandoffShape(h) ==
    h # None => /\ h = [to |-> h.to, phase |-> h.phase, snap |-> h.snap, sum |-> h.sum]
                /\ h.to \in Nodes /\ h.sum \in Sums

\* Operations that leave the snapshots alone.
LEMMA Elsewhere ==
    ASSUME Content, UNCHANGED kept,
           vol' = vol \/ (/\ vol # NoVolume /\ Fields(vol')
                          /\ vol'.snaps = vol.snaps /\ vol'.backups = vol.backups
                          /\ vol'.home \in Nodes /\ vol'.owner \in Allocs \cup {None}
                          /\ vol'.gen \in Nat /\ HandoffShape(vol'.handoff))
    PROVE  Content'
<1>1. VolumeShape'
  BY DEF Content, Shape, VolumeShape, HandoffShape, Fields
<1>2. NodeShape'
  BY DEF Content, Shape, NodeShape, kept
<1>3. Stored'
  BY DEF Content, Stored, kept
<1>4. QED BY <1>1, <1>2, <1>3 DEF Content, Shape

LEMMA CreateContent ==
    ASSUME Content, NEW n \in Nodes, CreateVolume(n) PROVE Content'
<1>1. /\ UNCHANGED <<goal, written, copy, store>>
      /\ \/ data' = data
         \/ data' = [data EXCEPT ![n] = IF @ = None THEN 0 ELSE @]
      /\ vol' = vol \/ (vol = NoVolume /\ vol' = Created(n))
  BY DEF CreateVolume, Learn, copies, fixed, node
<1>2. NodeShape'
  BY <1>1 DEF Content, Shape, NodeShape, Sums
<1>3. VolumeShape'
  BY <1>1 DEF Content, Shape, VolumeShape, Created, Fields, Sums
<1>4. Stored'
  BY <1>1 DEF Content, Stored, Created
<1>5. QED BY <1>2, <1>3, <1>4 DEF Content, Shape

LEMMA AttachContent ==
    ASSUME Content, NEW a \in Allocs, Attach(a) \/ Detach(a) PROVE Content'
<1>1. /\ UNCHANGED kept /\ vol # NoVolume
      /\ vol' \in {vol, Attached(a), Detached}
  BY DEF Attach, Detach, MayAttach, MayDetach, Learn, copies, fixed, kept
<1>2. Fields(vol) /\ vol.gen \in Nat /\ vol.home \in Nodes /\ HandoffShape(vol.handoff)
  BY <1>1 DEF Content, Shape, VolumeShape, HandoffShape
<1>3. ASSUME NEW v \in {Attached(a), Detached}
      PROVE  /\ Fields(v) /\ v.snaps = vol.snaps /\ v.backups = vol.backups
             /\ v.home \in Nodes /\ v.owner \in Allocs \cup {None} /\ v.gen \in Nat
             /\ v.handoff = vol.handoff
  <2> DEFINE g == IF vol.owner = a THEN vol.gen ELSE vol.gen + 1
  <2>1. Attached(a) = [vol EXCEPT !.owner = a, !.gen = g] /\ g \in Nat
    BY <1>2 DEF Attached, Fields
  <2>2. Detached = [vol EXCEPT !.owner = None, !.gen = vol.gen + 1] /\ vol.gen + 1 \in Nat
    BY <1>2 DEF Detached, Fields
  <2> HIDE DEF g
  <2>3. CASE v = Attached(a)
    BY <1>2, <2>1, <2>3 DEF Fields
  <2>4. CASE v = Detached
    BY <1>2, <2>2, <2>4 DEF Fields
  <2>5. QED BY <2>3, <2>4
<1>4. QED BY <1>1, <1>2, <1>3, Elsewhere

LEMMA QuiesceContent ==
    ASSUME Content, NEW n \in Nodes, Quiesce(n) PROVE Content'
<1>1. /\ UNCHANGED kept /\ vol # NoVolume
      /\ vol' \in {vol, Quiesced(n)}
  BY DEF Quiesce, MayQuiesce, Learn, copies, fixed, kept, node
<1>2. /\ Fields(vol) /\ vol.gen \in Nat /\ vol.home \in Nodes
      /\ vol.owner \in Allocs \cup {None}
  BY <1>1 DEF Content, Shape, VolumeShape
<1>3. QED BY <1>1, <1>2, Elsewhere DEF Quiesced, Fields, HandoffShape, Sums

LEMMA VerifyContent == ASSUME Content, Verify \/ Age PROVE Content'
<1>1. /\ UNCHANGED kept /\ vol # NoVolume
      /\ vol' \in {vol, Verified(vol.last), [vol EXCEPT !.fresh = FALSE]}
  BY DEF Verify, MayVerify, Overdue, Age, copies, fixed, kept, node
<1>2. /\ Fields(vol) /\ vol.gen \in Nat /\ vol.home \in Nodes
      /\ vol.owner \in Allocs \cup {None} /\ HandoffShape(vol.handoff)
  BY <1>1 DEF Content, Shape, VolumeShape, HandoffShape
<1>3. QED BY <1>1, <1>2, Elsewhere DEF Verified, Fields

\* A new snapshot is a copy of the directory under a label nothing has.
LEMMA Shelving ==
    ASSUME Content, NEW n \in Nodes, NEW s \in Snaps, Unused(s), Shelve(n, s)
    PROVE  /\ copy' = [copy EXCEPT ![n][s] = data[n]] /\ copy'[n][s] = data[n]
           /\ store[s] = None /\ vol.snaps[s] = None
  BY DEF Content, Shape, NodeShape, Unused, Shelve

LEMMA SnapshotContent ==
    ASSUME Content, ~Reuse, NEW s \in Snaps, Snapshot(s) \/ DatabaseBackup(s) PROVE Content'
<1> DEFINE n == vol.home
           sum == copy'[n][s]
<1>1. /\ UNCHANGED <<goal, written, data, store>> /\ vol # NoVolume
      /\ Unused(s) /\ Shelve(n, s)
      /\ vol' \in {vol, Snapshotted(s, sum), Recorded(s, sum)}
  BY DEF Snapshot, DatabaseBackup, MaySnapshot, MayBackupDatabase, Learn, fixed, node
<1>2. /\ Fields(vol) /\ vol.gen \in Nat /\ n \in Nodes /\ vol.snaps \in [Snaps -> Sums]
      /\ vol.owner \in Allocs \cup {None} /\ HandoffShape(vol.handoff)
      /\ vol.backups \subseteq Snaps
  BY <1>1 DEF Content, Shape, VolumeShape, HandoffShape
<1>3. /\ copy' = [copy EXCEPT ![n][s] = data[n]] /\ sum = data[n]
      /\ store[s] = None /\ vol.snaps[s] = None
  BY <1>1, <1>2, Shelving
<1>4. data[n] \in Sums
  BY <1>2 DEF Content, Shape, NodeShape
<1>5. NodeShape'
  BY <1>1, <1>2, <1>3, <1>4 DEF Content, Shape, NodeShape
<1> HIDE DEF n, sum
<1>6. ASSUME NEW v \in {Snapshotted(s, sum), Recorded(s, sum)}
      PROVE  /\ Fields(v) /\ v.snaps = [vol.snaps EXCEPT ![s] = sum]
             /\ v.backups = vol.backups /\ v.home = vol.home
             /\ v.owner = vol.owner /\ v.gen = vol.gen
             /\ HandoffShape(v.handoff)
  <2> DEFINE order == IF vol.snaps[s] = None THEN Append(vol.order, s) ELSE vol.order
  <2>1. Recorded(s, sum) = [vol EXCEPT !.snaps = [vol.snaps EXCEPT ![s] = sum],
                                       !.order = order, !.last = s]
    BY <1>2 DEF Recorded, Fields
  <2> HIDE DEF order
  <2>2. CASE v = Recorded(s, sum)
    BY <1>2, <2>1, <2>2 DEF Fields
  <2>3. CASE v = Snapshotted(s, sum)
    <3> DEFINE h == IF vol.handoff # None /\ vol.handoff.phase = "quiesced"
                      THEN [vol.handoff EXCEPT !.phase = "snapshotted", !.snap = s, !.sum = sum]
                      ELSE vol.handoff
    <3>1. v = [Recorded(s, sum) EXCEPT !.handoff = h]
      BY <1>2, <2>1, <2>3 DEF Snapshotted, Fields
    <3>2. HandoffShape(h)
      BY <1>2, <1>3, <1>4 DEF HandoffShape
    <3> HIDE DEF h
    <3>3. QED BY <1>2, <2>1, <3>1, <3>2 DEF Fields
  <2>4. QED BY <2>2, <2>3
<1>7. VolumeShape'
  BY <1>1, <1>2, <1>3, <1>4, <1>6 DEF Content, Shape, VolumeShape, HandoffShape, n
<1>8. Stored'
  BY <1>1, <1>2, <1>3, <1>6 DEF Content, Stored
<1>9. QED BY <1>5, <1>7, <1>8 DEF Content, Shape

\* The store takes the copy that matches the record, or keeps what it has.
LEMMA BackupContent == ASSUME Content, NEW s \in Snaps, Backup(s) PROVE Content'
<1> DEFINE n == vol.home
<1>1. /\ UNCHANGED <<goal, written, data, copy>> /\ vol # NoVolume
      /\ vol.snaps[s] # None /\ copy[n][s] = vol.snaps[s]
      /\ store' = [store EXCEPT ![s] = IF @ = None THEN copy[n][s] ELSE @]
      /\ vol' \in {vol, BackedUp(s)}
  BY DEF Backup, MayBackup, Learn, fixed, node
<1>2. /\ Fields(vol) /\ n \in Nodes /\ vol.backups \subseteq Snaps
      /\ vol.snaps \in [Snaps -> Sums] /\ store \in [Snaps -> Sums \cup {Damaged}]
  BY <1>1 DEF Content, Shape, VolumeShape, NodeShape
<1>3. LET v == BackedUp(s)
      IN  /\ Stays(v) /\ v.snaps = vol.snaps /\ v.handoff = vol.handoff
          /\ v.backups = vol.backups \cup {s}
  <2> DEFINE b == vol.backups \cup {s}
  <2>1. BackedUp(s) = [vol EXCEPT !.backups = b]
    BY <1>2 DEF BackedUp, Fields
  <2> HIDE DEF b
  <2>2. BackedUp(s).backups = b
    BY <1>2, <2>1 DEF Fields
  <2>3. Stays(BackedUp(s)) /\ BackedUp(s).snaps = vol.snaps
        /\ BackedUp(s).handoff = vol.handoff
    BY <1>2, <2>1 DEF Stays, Fields
  <2>4. QED BY <2>2, <2>3 DEF b
<1>4. VolumeShape'
  BY <1>1, <1>2, <1>3 DEF Content, Shape, VolumeShape, Stays
<1>5. NodeShape'
  BY <1>1, <1>2 DEF Content, Shape, NodeShape
<1>6. store'[s] # None /\ store'[s] \in {vol.snaps[s], Damaged}
      /\ \A t \in Snaps : t # s => store'[t] = store[t]
  BY <1>1, <1>2 DEF Content, Stored
<1>7. Stored'
  BY <1>1, <1>2, <1>3, <1>6 DEF Content, Stored
<1>8. QED BY <1>4, <1>5, <1>7 DEF Content, Shape

LEMMA PruneContent ==
    ASSUME Content, NEW k, NEW dry, Prune(k, dry) PROVE Content'
<1> DEFINE n == vol.home
           removed == Removable(n, k)
           gone == IF dry THEN {} ELSE removed
<1>1. /\ UNCHANGED <<goal, written, data, store>> /\ vol # NoVolume
      /\ vol' = vol \/ vol' = Pruned(removed)
  BY DEF Prune, MayPrune, Learn, fixed, node
<1>c. copy' = [copy EXCEPT ![n] = [s \in Snaps |-> IF s \in gone THEN None ELSE @[s]]]
  BY DEF Prune
<1> HIDE DEF gone, removed
<1>2. VolumeShape /\ Fields(vol) /\ n \in Nodes
  BY <1>1 DEF Content, Shape, VolumeShape
<1>3. /\ Stays(Pruned(removed)) /\ Pruned(removed).handoff = vol.handoff
      /\ Pruned(removed).snaps = [s \in Snaps |-> IF s \in removed THEN None ELSE vol.snaps[s]]
      /\ Pruned(removed).backups = vol.backups \ removed
  BY <1>1, <1>2, PrunedStays
<1>4. VolumeShape'
  BY <1>1, <1>2, <1>3 DEF VolumeShape, Stays, Sums
<1>5. NodeShape'
  <2>1. copy[n] \in [Snaps -> Sums \cup {Damaged}]
    BY <1>2 DEF Content, Shape, NodeShape
  <2>2. [s \in Snaps |-> IF s \in gone THEN None ELSE copy[n][s]]
            \in [Snaps -> Sums \cup {Damaged}]
    BY <2>1 DEF Sums
  <2>3. QED BY <1>1, <1>c, <1>2, <2>2 DEF Content, Shape, NodeShape
<1>6. Stored'
  BY <1>1, <1>2, <1>3 DEF Content, Stored, VolumeShape
<1>7. QED BY <1>4, <1>5, <1>6 DEF Content, Shape

LEMMA TransferContent == ASSUME Content, Transfer PROVE Content'
<1> DEFINE h == vol.handoff
           n == h.to
           got == Source(n, h.snap)
<1>1. /\ UNCHANGED <<goal, written, store>> /\ vol # NoVolume
      /\ data' = data \/ data' = [data EXCEPT ![n] = IF @ = None THEN 0 ELSE @]
      /\ \/ copy' = copy
         \/ copy' = [copy EXCEPT ![n][h.snap] = IF got = h.sum THEN got ELSE None]
      /\ vol' \in {vol, Transferred} /\ h # None
  BY DEF Transfer, MayTransfer, InPhase, Learn, fixed, node
<1>2. Fields(vol) /\ HandoffShape(h)
  BY <1>1 DEF Content, Shape, VolumeShape, HandoffShape
<1>3. n \in Nodes /\ h.sum \in Sums
      /\ h = [to |-> n, phase |-> h.phase, snap |-> h.snap, sum |-> h.sum]
  BY <1>1, <1>2 DEF HandoffShape
<1>4. LET v == Transferred
      IN  /\ Stays(v) /\ v.snaps = vol.snaps /\ v.backups = vol.backups
          /\ v.handoff = [to |-> n, phase |-> "transferred", snap |-> h.snap, sum |-> h.sum]
  BY <1>2, <1>3 DEF Transferred, Stays, Fields
<1> HIDE DEF h, n, got
<1>5. VolumeShape'
  BY <1>1, <1>3, <1>4 DEF Content, Shape, VolumeShape, Stays
<1>6. NodeShape'
  <2>1. data' \in [Nodes -> Sums]
    BY <1>1, <1>3 DEF Content, Shape, NodeShape, Sums
  <2>2. copy' \in [Nodes -> [Snaps -> Sums \cup {Damaged}]]
    BY <1>1, <1>3 DEF Content, Shape, NodeShape, Sums
  <2>3. QED BY <1>1, <2>1, <2>2 DEF Content, Shape, NodeShape
<1>7. Stored'
  BY <1>1, <1>4 DEF Content, Stored
<1>8. QED BY <1>5, <1>6, <1>7 DEF Content, Shape

\* What a restore or an adoption reads has the recorded checksum.
LEMMA RestoreContent ==
    ASSUME Content, NEW s \in Snaps, Restore(s) PROVE Content'
<1>1. /\ UNCHANGED <<goal, written, vol, copy, store>> /\ vol # NoVolume
      /\ data' = [data EXCEPT ![vol.home] = vol.snaps[s]]
  BY DEF Restore, MayRestore, copies, fixed
<1>2. vol.home \in Nodes /\ vol.snaps[s] \in Sums
  BY <1>1 DEF Content, Shape, VolumeShape
<1>3. VolumeShape' /\ Stored'
  BY <1>1 DEF Content, Shape, VolumeShape, Fields, Stored
<1>4. NodeShape'
  BY <1>1, <1>2 DEF Content, Shape, NodeShape
<1>5. QED BY <1>3, <1>4 DEF Content, Shape

LEMMA AdoptContent == ASSUME Content, Adopt PROVE Content'
<1> DEFINE h == vol.handoff
<1>1. /\ UNCHANGED <<goal, written, copy, store>> /\ vol # NoVolume /\ h # None
      /\ data' = [data EXCEPT ![h.to] = h.sum]
      /\ vol' \in {vol, Adopted}
  BY DEF Adopt, MayAdopt, InPhase, Learn, copies, fixed
<1>2. Fields(vol) /\ h.to \in Nodes /\ h.sum \in Sums /\ vol.gen \in Nat
  BY <1>1 DEF Content, Shape, VolumeShape
<1>3. LET v == Adopted
      IN  /\ Fields(v) /\ v.home = h.to /\ v.owner = vol.owner /\ v.gen \in Nat
          /\ v.snaps = vol.snaps /\ v.backups = vol.backups /\ v.handoff = None
  <2> DEFINE g == vol.gen + 1
  <2>1. Adopted = [vol EXCEPT !.home = h.to, !.gen = g, !.handoff = None] /\ g \in Nat
    BY <1>2 DEF Adopted, Fields
  <2> HIDE DEF g, h
  <2>2. QED BY <1>2, <2>1 DEF Fields
<1>4. VolumeShape' /\ Stored'
  BY <1>1, <1>2, <1>3 DEF Content, Shape, VolumeShape, Stored
<1>5. NodeShape'
  BY <1>1, <1>2 DEF Content, Shape, NodeShape
<1>6. QED BY <1>4, <1>5 DEF Content, Shape

LEMMA WriteContent == ASSUME Content, NEW n \in Nodes, Write(n) PROVE Content'
<1>1. /\ UNCHANGED <<goal, vol, copy, store>> /\ written' = written + 1
      /\ data' = [data EXCEPT ![n] = written + 1]
  BY DEF Write, copies
<1>2. VolumeShape' /\ Stored'
  BY <1>1 DEF Content, Shape, VolumeShape, Fields, Stored
<1>3. NodeShape'
  BY <1>1 DEF Content, Shape, NodeShape, Sums
<1>4. QED BY <1>2, <1>3 DEF Content, Shape

LEMMA RotContent == ASSUME Content, Rot PROVE Content'
<1>1. /\ UNCHANGED <<goal, vol, written, data>>
      /\ \/ /\ \E n \in Nodes, s \in Snaps : copy' = [copy EXCEPT ![n][s] = Damaged]
            /\ store' = store
         \/ /\ \E s \in Snaps : store' = [store EXCEPT ![s] = Damaged]
            /\ copy' = copy
  BY DEF Rot, node, fixed
<1>2. VolumeShape'
  BY <1>1 DEF Content, Shape, VolumeShape, Fields
<1>3. NodeShape'
  BY <1>1 DEF Content, Shape, NodeShape
<1>4. \A s \in Snaps : /\ store'[s] \in {store[s], Damaged}
                       /\ store[s] # None => store'[s] # None
  BY <1>1, VolumesAssumption DEF Content, Shape, NodeShape
<1>5. Stored'
  <2>1. vol # NoVolume => \A s \in vol.backups : s \in Snaps
    BY DEF Content, Shape, VolumeShape, Stored
  <2>2. QED BY <1>1, <1>4, <2>1 DEF Content, Stored
<1>6. QED BY <1>2, <1>3, <1>5 DEF Content, Shape

LEMMA InitContent == ASSUME Init PROVE Content
<1>1. VolumeShape /\ Stored
  BY DEF Init, VolumeShape, Stored
<1>2. NodeShape
  BY DEF Init, NodeShape, Sums
<1>3. QED BY <1>1, <1>2 DEF Content, Shape

\* One step for each action, when no label is used twice.
LEMMA NextContent == ASSUME Content, ~Reuse, [Next]_vars PROVE Content'
<1>1. ASSUME NEW a \in Allocs, NEW n \in Nodes, Place(a, n)
      PROVE  Content'
  BY <1>1, Elsewhere DEF Place, node, copies, fixed, kept
<1>2. ASSUME NEW a \in Allocs, Attach(a) \/ Detach(a)
      PROVE  Content'
  BY <1>2, AttachContent
<1>3. ASSUME NEW a \in Allocs, Start(a) \/ Stop(a) \/ Delete(a)
      PROVE  Content'
  BY <1>3, Elsewhere DEF Start, Stop, Delete, node, copies, fixed, kept
<1>4. ASSUME NEW n \in Nodes, CreateVolume(n) \/ Quiesce(n)
      PROVE  Content'
  BY <1>4, CreateContent, QuiesceContent
<1>5. CASE Transfer
  BY <1>5, TransferContent
<1>6. CASE Adopt
  BY <1>6, AdoptContent
<1>7. ASSUME NEW s \in Snaps, Snapshot(s) \/ DatabaseBackup(s)
      PROVE  Content'
  BY <1>7, SnapshotContent
<1>8. ASSUME NEW s \in Snaps, Backup(s) \/ Restore(s)
      PROVE  Content'
  BY <1>8, BackupContent, RestoreContent
<1>9. CASE Verify \/ Age
  BY <1>9, VerifyContent
<1>10. ASSUME NEW k \in 1 .. Cardinality(Snaps), NEW dry \in BOOLEAN, Prune(k, dry)
       PROVE  Content'
  BY <1>10, PruneContent
<1>11. ASSUME NEW n \in Nodes, Write(n)
       PROVE  Content'
  BY <1>11, WriteContent
<1>12. ASSUME NEW n \in Nodes, Restart(n)
       PROVE  Content'
  BY <1>12, Elsewhere DEF Restart, copies, fixed, kept
<1>13. CASE Rot
  BY <1>13, RotContent
<1>14. CASE UNCHANGED vars
  BY <1>14, Elsewhere DEF vars, kept
<1>15. QED BY <1>1, <1>2, <1>3, <1>4, <1>5, <1>6, <1>7, <1>8, <1>9, <1>10, <1>11, <1>12,
              <1>13, <1>14 DEF Next, Operate, Protect

\* As long as no proposal gives a label twice, the store has for a snapshot that
\* is recorded as backed up what the world recorded for it, or damage
\* (Volumes.backup, BackupStore.Put), whatever answers are lost.
THEOREM BackupsMatch == ASSUME ~Reuse PROVE Spec => []BackupIsSnapshot
<1>1. Init => Content
  BY InitContent
<1>2. Content /\ [Next]_vars => Content'
  BY NextContent
<1>3. Content => BackupIsSnapshot
  BY DEF Content, Shape, VolumeShape, Stored, BackupIsSnapshot
<1>4. QED BY <1>1, <1>2, <1>3, PTL DEF Spec

\* Under the same condition a volume directory never gets damaged data: a restore
\* and an adoption compare the copy with a checksum that was taken of the
\* directory itself (Volumes.restore, Volumes.adopt).
THEOREM DataSound == ASSUME ~Reuse PROVE Spec => []NeverDamaged
<1>1. Init => Content
  BY InitContent
<1>2. Content /\ [Next]_vars => Content'
  BY NextContent
<1>3. Content => NeverDamaged
  BY VolumesAssumption DEF Content, Shape, NodeShape, Sums, NeverDamaged
<1>4. QED BY <1>1, <1>2, <1>3, PTL DEF Spec

-----------------------------------------------------------------------------
(* Who writes.                                                              *)

Where ==
    vol # NoVolume =>
        /\ Fields(vol)
        /\ vol.home \in Nodes /\ vol.owner \in Allocs \cup {None} /\ vol.gen \in Nat
        /\ vol.handoff # None => vol.handoff.to \in Nodes

Allocated ==
    alloc \in [Allocs -> [phase : {"absent", "created", "running", "stopped"},
                          node : Nodes \cup {None}, gen : Nat, stateful : {Absent.stateful}]]

\* A process is that of the owner, where the volume is; the owner has the current
\* generation, and there is none while the volume moves.
Fenced ==
    /\ Where /\ Allocated
    /\ \A p \in live :
        /\ vol # NoVolume /\ vol.owner = p[2] /\ p[2] \in Allocs /\ p = <<vol.home, p[2]>>
        /\ alloc[p[2]].phase = "running"
    /\ vol # NoVolume /\ vol.owner # None =>
        /\ alloc[vol.owner].gen = vol.gen /\ vol.gen > 0
        /\ alloc[vol.owner].node = vol.home
        /\ vol.handoff = None

\* What the evidence of a copy, a verification or a prune may change.
Shelves(v) ==
    /\ Stays(v)
    /\ \/ v.handoff = vol.handoff
       \/ vol.handoff # None /\ v.handoff.to = vol.handoff.to

LEMMA FencedElsewhere ==
    ASSUME Fenced, UNCHANGED <<alloc, live>>,
           vol' = vol \/ (vol # NoVolume /\ Shelves(vol'))
    PROVE  Fenced'
<1>1. Where'
  BY DEF Fenced, Where, Shelves, Stays, Fields
<1>2. Allocated'
  BY DEF Fenced, Allocated
<1>3. vol # NoVolume => vol' # NoVolume
  BY VolumesAssumption DEF Fenced, Where, Shelves, Stays, NoVolume
<1>4. QED BY <1>1, <1>2, <1>3 DEF Fenced, Shelves, Stays

LEMMA CopyShelves ==
    ASSUME vol # NoVolume, Fields(vol), NEW s, NEW sum
    PROVE  Shelves(Recorded(s, sum)) /\ Shelves(Snapshotted(s, sum))
<1> DEFINE order == IF vol.snaps[s] = None THEN Append(vol.order, s) ELSE vol.order
           snaps == [vol.snaps EXCEPT ![s] = sum]
           h == IF vol.handoff # None /\ vol.handoff.phase = "quiesced"
                  THEN [vol.handoff EXCEPT !.phase = "snapshotted", !.snap = s, !.sum = sum]
                  ELSE vol.handoff
<1>1. Recorded(s, sum) = [vol EXCEPT !.snaps = snaps, !.order = order, !.last = s]
  BY DEF Recorded, Fields
<1>2. h = vol.handoff \/ (vol.handoff # None /\ h.to = vol.handoff.to)
  OBVIOUS
<1> HIDE DEF order, snaps, h
<1>3. Shelves(Recorded(s, sum)) /\ Recorded(s, sum).handoff = vol.handoff
  BY <1>1 DEF Shelves, Stays, Fields
<1>4. Snapshotted(s, sum) = [Recorded(s, sum) EXCEPT !.handoff = h]
  BY <1>3 DEF Snapshotted, Shelves, Stays, Fields, h
<1>5. Shelves(Snapshotted(s, sum))
  BY <1>2, <1>3, <1>4 DEF Shelves, Stays, Fields
<1>6. QED BY <1>3, <1>5

\* The operations that protect the volume's data.
LEMMA ProtectFenced ==
    ASSUME Fenced, Protect \/ Age PROVE Fenced'
<1>1. ASSUME vol # NoVolume PROVE Fields(vol) /\ Stays(vol)
  BY <1>1 DEF Fenced, Where, Stays
<1>2. ASSUME NEW s \in Snaps, Snapshot(s) \/ DatabaseBackup(s)
      PROVE  Fenced'
  <2>1. /\ UNCHANGED <<alloc, live>> /\ vol # NoVolume
        /\ vol' \in {vol, Snapshotted(s, copy'[vol.home][s]), Recorded(s, copy'[vol.home][s])}
    BY <1>2 DEF Snapshot, DatabaseBackup, MaySnapshot, MayBackupDatabase, Learn, processes
  <2>2. vol' = vol \/ Shelves(vol')
    BY <1>1, <2>1, CopyShelves
  <2>3. QED BY <2>1, <2>2, FencedElsewhere
<1>3. ASSUME NEW s \in Snaps, Backup(s)
      PROVE  Fenced'
  <2>1. UNCHANGED <<alloc, live>> /\ vol # NoVolume /\ vol' \in {vol, BackedUp(s)}
    BY <1>3 DEF Backup, MayBackup, Learn, processes
  <2> DEFINE b == vol.backups \cup {s}
  <2>2. BackedUp(s) = [vol EXCEPT !.backups = b]
    BY <2>1, <1>1 DEF BackedUp, Fields
  <2> HIDE DEF b
  <2>3. Shelves(BackedUp(s))
    BY <2>1, <2>2, <1>1, SMTT(30) DEF Shelves, Stays, Fields
  <2>4. QED BY <2>1, <2>3, FencedElsewhere
<1>4. ASSUME NEW s \in Snaps, Restore(s)
      PROVE  Fenced'
  BY <1>4, FencedElsewhere DEF Restore, processes
<1>5. CASE Verify \/ Age
  <2>1. /\ UNCHANGED <<alloc, live>> /\ vol # NoVolume
        /\ vol' \in {vol, Verified(vol.last), [vol EXCEPT !.fresh = FALSE]}
    BY <1>5 DEF Verify, MayVerify, Overdue, Age, processes
  <2>2. vol' = vol \/ Shelves(vol')
    BY <2>1, <1>1 DEF Verified, Shelves, Stays, Fields
  <2>3. QED BY <2>1, <2>2, FencedElsewhere
<1>6. ASSUME NEW k \in 1 .. Cardinality(Snaps), NEW dry \in BOOLEAN, Prune(k, dry)
      PROVE  Fenced'
  <2> DEFINE removed == Removable(vol.home, k)
             order == Without(vol.order, removed)
             last == IF vol.last \notin removed THEN vol.last
                     ELSE IF order = <<>> THEN None ELSE order[Len(order)]
             snaps == [s \in Snaps |-> IF s \in removed THEN None ELSE vol.snaps[s]]
             backups == vol.backups \ removed
  <2>1. /\ UNCHANGED <<alloc, live>> /\ vol # NoVolume
        /\ vol' = vol \/ vol' = Pruned(removed)
    BY <1>6 DEF Prune, MayPrune, Learn, processes
  <2> HIDE DEF removed
  <2>2. Pruned(removed) = [vol EXCEPT !.snaps = snaps, !.backups = backups,
                                      !.order = order, !.last = last]
    BY DEF Pruned
  <2> HIDE DEF snaps, backups, order, last
  <2>3. Shelves(Pruned(removed))
    BY <2>1, <2>2, <1>1 DEF Shelves, Stays, Fields
  <2>4. QED BY <2>1, <2>3, FencedElsewhere
<1>7. QED BY <1>2, <1>3, <1>4, <1>5, <1>6 DEF Protect

\* An operation that was executed is learned of, or failed to be saved.
LEMMA Learned ==
    ASSUME "lost" \notin Faults, NEW kinds \in SUBSET {"lost", "unsaved"},
           NEW o \in Outcomes(kinds)
    PROVE  o = "done" \/ (o = "unsaved" /\ "unsaved" \in kinds)
  BY DEF Outcomes

LEMMA CreateFenced ==
    ASSUME Fenced, NEW n \in Nodes, CreateVolume(n) PROVE Fenced'
<1>1. UNCHANGED <<alloc, live>> /\ (vol' = vol \/ (vol = NoVolume /\ vol' = Created(n)))
  BY DEF CreateVolume, Learn, processes
<1>2. CASE vol' = vol
  BY <1>1, <1>2, FencedElsewhere
<1>3. CASE vol = NoVolume /\ vol' = Created(n)
  <2>1. Where'
    BY <1>3 DEF Where, Created, Fields
  <2>2. Allocated'
    BY <1>1, SMTT(30) DEF Fenced, Allocated
  <2>3. live' = {} /\ vol'.owner = None
    BY <1>1, <1>3 DEF Fenced, Created
  <2>4. QED BY <2>1, <2>2, <2>3 DEF Fenced
<1>4. QED BY <1>1, <1>2, <1>3

LEMMA PlaceFenced ==
    ASSUME Fenced, NEW a \in Allocs, NEW n \in Nodes, Place(a, n) PROVE Fenced'
<1>1. /\ UNCHANGED <<vol, live>> /\ alloc[a] = Absent
      /\ \/ alloc' = alloc
         \/ alloc' = [alloc EXCEPT ![a].phase = "created", ![a].node = n]
  BY DEF Place
<1>2. CASE alloc' = alloc
  BY <1>1, <1>2, FencedElsewhere
<1>3. CASE alloc' # alloc
  <2>1. alloc[a].gen = 0 /\ alloc[a].phase = "absent"
    BY <1>1 DEF Absent
  <2>2. Where'
    BY <1>1 DEF Fenced, Where, Fields
  <2>3. Allocated' /\ \A b \in Allocs : b # a => alloc'[b] = alloc[b]
    BY <1>1 DEF Fenced, Allocated
  <2>4. \A p \in live : p[2] # a
    BY <2>1 DEF Fenced
  <2>5. vol # NoVolume => vol.owner # a
    BY <2>1, VolumesAssumption DEF Fenced, Where
  <2>6. QED BY <1>1, <2>2, <2>3, <2>4, <2>5 DEF Fenced, Where
<1>4. QED BY <1>2, <1>3

\* Attaching takes the volume from nobody: the generation goes up with the owner.
LEMMA AttachFenced ==
    ASSUME Fenced, NEW a \in Allocs, Attach(a) PROVE Fenced'
<1> DEFINE g == IF vol.owner = a THEN vol.gen ELSE vol.gen + 1
<1>1. /\ vol # NoVolume /\ vol.owner \in {None, a} /\ vol.handoff = None
      /\ alloc[a].phase = "created" /\ vol.home = alloc[a].node /\ live' = live
      /\ \/ vol' = vol /\ alloc' = alloc
         \/ vol' = Attached(a) /\ alloc' = [alloc EXCEPT ![a].gen = Attached(a).gen]
  BY DEF Attach, MayAttach, Learn
<1>2. /\ Fields(vol) /\ vol.home \in Nodes /\ vol.gen \in Nat /\ Where /\ Allocated
      /\ a # None
  BY <1>1, VolumesAssumption DEF Fenced, Where
<1>3. CASE vol' = vol /\ alloc' = alloc
  BY <1>1, <1>3, FencedElsewhere
<1>4. CASE vol' = Attached(a) /\ alloc' = [alloc EXCEPT ![a].gen = Attached(a).gen]
  <2>1. Attached(a) = [vol EXCEPT !.owner = a, !.gen = g] /\ g \in Nat /\ g > 0
    BY <1>1, <1>2 DEF Attached, Fields, Fenced
  <2> HIDE DEF g
  <2>2. Fields(vol') /\ vol'.owner = a /\ vol'.gen = g /\ vol'.home = vol.home
        /\ vol'.handoff = None
    BY <1>1, <1>2, <1>4, <2>1 DEF Fields
  <2>3. alloc' = [alloc EXCEPT ![a].gen = g]
    BY <1>4, <2>2
  <2>4. Allocated' /\ alloc'[a].gen = g /\ alloc'[a].node = alloc[a].node
    BY <1>2, <2>1, <2>3 DEF Allocated
  <2>5. Where'
    BY <1>2, <2>1, <2>2 DEF Where
  <2>6. live' = {}
    BY <1>1, <1>2, VolumesAssumption DEF Fenced
  <2>7. QED BY <1>1, <2>1, <2>2, <2>4, <2>5, <2>6 DEF Fenced
<1>5. QED BY <1>1, <1>3, <1>4

\* Detaching is refused while the owner runs.
LEMMA DetachFenced ==
    ASSUME Fenced, NEW a \in Allocs, Detach(a) PROVE Fenced'
<1>1. /\ vol # NoVolume /\ vol.owner \in {None, a} /\ alloc[a].phase # "running"
      /\ live' = live
      /\ \/ vol' = vol /\ alloc' = alloc
         \/ /\ vol' = Detached
            /\ alloc' = alloc \/ (vol.owner # None
                                   /\ alloc' = [alloc EXCEPT ![vol.owner].gen = 0])
  BY DEF Detach, MayDetach, Learn
<1>2. /\ Fields(vol) /\ vol.home \in Nodes /\ vol.gen \in Nat /\ Where /\ Allocated
      /\ vol.owner # None => vol.owner \in Allocs
  BY <1>1 DEF Fenced, Where
<1>3. CASE vol' = vol /\ alloc' = alloc
  BY <1>1, <1>3, FencedElsewhere
<1>4. CASE vol' = Detached
  <2> DEFINE g == vol.gen + 1
  <2>1. Detached = [vol EXCEPT !.owner = None, !.gen = g] /\ g \in Nat
    BY <1>2 DEF Detached, Fields
  <2> HIDE DEF g
  <2>2. Fields(vol') /\ vol'.owner = None /\ vol'.gen = g /\ vol'.home = vol.home
        /\ vol'.handoff = vol.handoff
    BY <1>2, <1>4, <2>1 DEF Fields
  <2>3. Where'
    BY <1>1, <1>2, <2>1, <2>2 DEF Where
  <2>4. Allocated'
    BY <1>1, <1>2 DEF Allocated
  <2>5. live' = {}
    BY <1>1, VolumesAssumption DEF Fenced
  <2>6. QED BY <2>2, <2>3, <2>4, <2>5 DEF Fenced
<1>5. QED BY <1>1, <1>3, <1>4

\* The kernel starts the owner, at its generation, on the volume's node.
LEMMA StartFenced ==
    ASSUME Fenced, "lost" \notin Faults, NEW a \in Allocs, Start(a) PROVE Fenced'
<1>1. /\ vol' = vol /\ vol # NoVolume /\ vol.owner = a
      /\ live' = live \cup {<<alloc[a].node, a>>}
      /\ alloc' = [alloc EXCEPT ![a].phase = "running"]
  BY Learned DEF Start, MayStart
<1>2. a # None /\ alloc[a].node = vol.home /\ Where /\ Allocated
  BY <1>1, VolumesAssumption DEF Fenced
<1>3. Where'
  BY <1>1, <1>2 DEF Where, Fields
<1>4. Allocated' /\ alloc'[a].phase = "running" /\ alloc'[a].gen = alloc[a].gen
      /\ alloc'[a].node = alloc[a].node
  BY <1>1, <1>2 DEF Allocated
<1>5. QED BY <1>1, <1>2, <1>3, <1>4 DEF Fenced

LEMMA StopFenced ==
    ASSUME Fenced, "lost" \notin Faults, NEW a \in Allocs, Stop(a) PROVE Fenced'
<1>1. /\ vol' = vol /\ alloc[a].phase = "running"
      /\ live' = live \ {<<alloc[a].node, a>>}
      /\ alloc' = [alloc EXCEPT ![a].phase = "stopped"]
  BY Learned DEF Stop
<1>2. Where /\ Allocated
  BY DEF Fenced
<1>3. Where'
  BY <1>1, <1>2 DEF Where, Fields
<1>4. /\ Allocated' /\ alloc'[a].gen = alloc[a].gen /\ alloc'[a].node = alloc[a].node
      /\ \A b \in Allocs : b # a => alloc'[b] = alloc[b]
  BY <1>1, <1>2 DEF Allocated
<1>5. \A p \in live' : p \in live /\ p[2] # a
  BY <1>1, VolumesAssumption, SMTT(30) DEF Fenced, Where
<1>6. QED BY <1>1, <1>2, <1>3, <1>4, <1>5 DEF Fenced, Where

\* What is deleted has no generation, so it is not the owner.
LEMMA DeleteFenced ==
    ASSUME Fenced, "lost" \notin Faults, NEW a \in Allocs, Delete(a) PROVE Fenced'
<1>1. /\ vol' = vol /\ live' = live /\ alloc[a].phase \in {"created", "stopped"}
      /\ alloc[a].gen = 0
      /\ alloc' = [alloc EXCEPT ![a] = Absent]
  BY Learned DEF Delete, MayDelete
<1>2. Where /\ Allocated
  BY DEF Fenced
<1>3. Where'
  BY <1>1, <1>2 DEF Where, Fields
<1>4. Absent \in [phase : {"absent", "created", "running", "stopped"},
                  node : Nodes \cup {None}, gen : Nat, stateful : {Absent.stateful}]
  BY DEF Absent
<1>5. Allocated' /\ \A b \in Allocs : b # a => alloc'[b] = alloc[b]
  BY <1>1, <1>2, <1>4 DEF Allocated
<1>6. /\ \A p \in live : p[2] # a
      /\ vol # NoVolume => vol.owner # a
  BY <1>1, VolumesAssumption DEF Fenced
<1>7. QED BY <1>1, <1>2, <1>3, <1>5, <1>6, SMTT(30) DEF Fenced, Where

\* A move begins and ends with nobody attached.
LEMMA MoveFenced ==
    ASSUME Fenced, (\E n \in Nodes : Quiesce(n)) \/ Transfer \/ Adopt PROVE Fenced'
<1>1. CASE \E n \in Nodes : Quiesce(n)
  <2>1. PICK n \in Nodes : /\ UNCHANGED <<alloc, live>> /\ vol # NoVolume /\ vol.owner = None
                           /\ vol' = vol \/ vol' = Quiesced(n)
    BY <1>1 DEF Quiesce, MayQuiesce, Learn, processes
  <2>2. CASE vol' = vol
    BY <2>1, <2>2, FencedElsewhere
  <2>3. CASE vol' = Quiesced(n)
    <3>1. Fields(vol)
      BY <2>1 DEF Fenced, Where
    <3>2. Stays(vol') /\ vol'.handoff.to = n
      BY <2>1, <2>3, <3>1, SMTT(30) DEF Quiesced, Stays, Fields
    <3>3. Where' /\ Allocated'
      BY <2>1, <3>2 DEF Fenced, Where, Allocated, Stays
    <3>4. live' = {}
      BY <2>1, VolumesAssumption DEF Fenced
    <3>5. QED BY <2>1, <3>2, <3>3, <3>4 DEF Fenced, Stays
  <2>4. QED BY <2>1, <2>2, <2>3
<1>2. CASE Transfer
  <2>1. /\ UNCHANGED <<alloc, live>> /\ vol # NoVolume /\ vol.handoff # None
        /\ vol' = vol \/ vol' = Transferred
    BY <1>2, SMTT(30) DEF Transfer, MayTransfer, InPhase, Learn, processes
  <2>2. Fields(vol)
    BY <2>1 DEF Fenced, Where
  <2> DEFINE h == [vol.handoff EXCEPT !.phase = "transferred"]
  <2>3. Transferred = [vol EXCEPT !.handoff = h] /\ h.to = vol.handoff.to
    BY <2>2 DEF Transferred, Fields
  <2> HIDE DEF h
  <2>4. Shelves(Transferred)
    BY <2>1, <2>2, <2>3 DEF Shelves, Stays, Fields
  <2>5. QED BY <2>1, <2>4, FencedElsewhere, SMTT(30)
<1>3. CASE Adopt
  <2>1. /\ UNCHANGED <<alloc, live>> /\ vol # NoVolume /\ vol.handoff # None
        /\ vol' = vol \/ vol' = Adopted
    BY <1>3, SMTT(30) DEF Adopt, MayAdopt, InPhase, Learn, processes
  <2>2. Fields(vol) /\ vol.owner = None /\ vol.handoff.to \in Nodes /\ vol.gen \in Nat
    BY <2>1 DEF Fenced, Where
  <2>3. CASE vol' = vol
    BY <2>1, <2>3, FencedElsewhere
  <2>4. CASE vol' = Adopted
    <3> DEFINE g == vol.gen + 1
    <3>1. Adopted = [vol EXCEPT !.home = vol.handoff.to, !.gen = g, !.handoff = None]
          /\ g \in Nat
      BY <2>2 DEF Adopted, Fields
    <3> HIDE DEF g
    <3>2. Where' /\ vol'.owner = None
      BY <2>2, <2>4, <3>1 DEF Where, Fields
    <3>3. live' = {}
      BY <2>1, <2>2, VolumesAssumption DEF Fenced
    <3>4. QED BY <2>1, <3>2, <3>3 DEF Fenced, Allocated
  <2>5. QED BY <2>1, <2>3, <2>4, SMTT(30)
<1>4. QED BY <1>1, <1>2, <1>3

LEMMA InitFenced == ASSUME Init PROVE Fenced
<1>1. Where /\ live = {} /\ vol = NoVolume
  BY DEF Init, Where
<1>2. Absent \in [phase : {"absent", "created", "running", "stopped"},
                  node : Nodes \cup {None}, gen : Nat, stateful : {Absent.stateful}]
  BY DEF Absent
<1>3. Allocated
  BY <1>2 DEF Init, Allocated
<1>4. QED BY <1>1, <1>3 DEF Fenced

\* One step for each action, when every answer arrives.
LEMMA NextFenced == ASSUME Fenced, "lost" \notin Faults, [Next]_vars PROVE Fenced'
<1>1. ASSUME NEW a \in Allocs, NEW n \in Nodes, Place(a, n)
      PROVE  Fenced'
  BY <1>1, PlaceFenced
<1>2. ASSUME NEW a \in Allocs, Attach(a) \/ Detach(a)
      PROVE  Fenced'
  BY <1>2, AttachFenced, DetachFenced
<1>3. ASSUME NEW a \in Allocs, Start(a) \/ Stop(a) \/ Delete(a)
      PROVE  Fenced'
  BY <1>3, StartFenced, StopFenced, DeleteFenced
<1>4. ASSUME NEW n \in Nodes, CreateVolume(n)
      PROVE  Fenced'
  BY <1>4, CreateFenced
<1>5. CASE (\E n \in Nodes : Quiesce(n)) \/ Transfer \/ Adopt
  BY <1>5, MoveFenced
<1>6. CASE Protect \/ Age
  BY <1>6, ProtectFenced
<1>7. ASSUME NEW n \in Nodes, Write(n) \/ Restart(n)
      PROVE  Fenced'
  BY <1>7, FencedElsewhere DEF Write, Restart, processes
<1>8. CASE Rot
  BY <1>8, FencedElsewhere DEF Rot, processes
<1>9. CASE UNCHANGED vars
  BY <1>9, FencedElsewhere DEF vars
<1>10. QED BY <1>1, <1>2, <1>3, <1>4, <1>5, <1>6, <1>7, <1>8, <1>9 DEF Next, Operate

\* As long as the server hears what a node did, two processes never write one
\* volume, and the one that does is the owner the world records, at its generation
\* (validateAttachVolume, validateDetachVolume, validateStartAllocation), through
\* moves, restarts of the nodes and writes of their files that fail.
THEOREM SingleWriter == ASSUME "lost" \notin Faults PROVE Spec => []OneWriter
<1>1. Init => Fenced
  BY InitFenced
<1>2. Fenced /\ [Next]_vars => Fenced'
  BY NextFenced
<1>3. Fenced => OneWriter
  <2> SUFFICES ASSUME Fenced, NEW p \in live
               PROVE  /\ live = {p} /\ vol.owner = p[2] /\ vol.home = p[1]
                      /\ alloc[p[2]].gen = vol.gen
    BY DEF OneWriter
  <2>1. /\ vol # NoVolume /\ vol.owner = p[2] /\ p = <<vol.home, p[2]>> /\ p[2] # None
    BY VolumesAssumption DEF Fenced
  <2>2. \A q \in live : q = p
    BY <2>1 DEF Fenced
  <2>3. QED BY <2>1, <2>2 DEF Fenced
<1>4. QED BY <1>1, <1>2, <1>3, PTL DEF Spec

-----------------------------------------------------------------------------
(* What moves.                                                              *)

\* The condition of the theorem: labels are used once, answers arrive, and the
\* operators do not let one volume be restored while it may be moved.
Orderly ==
    /\ ~Reuse /\ "lost" \notin Faults
    /\ \A g \in Goals : ~({"move-volume", "restore-volume"} \subseteq g.approved)

\* The checksum of a move is that of the directory it leaves, which is there.
Moving ==
    /\ rec = [n \in Nodes |-> rec[n]] /\ file = [n \in Nodes |-> file[n]]
    /\ \A n \in Nodes : rec[n] # None \/ file[n] # None => data[n] # None
    /\ vol # NoVolume =>
        /\ data[vol.home] # None
        /\ vol.handoff # None =>
            /\ vol.owner = None /\ vol.handoff.to # vol.home
            /\ "move-volume" \in goal.approved
            /\ vol.handoff.phase \in {"snapshotted", "transferred"} =>
                   vol.handoff.sum = data[vol.home]

LEMMA MovingElsewhere ==
    ASSUME Moving, UNCHANGED <<goal, data>>,
           rec' = [n \in Nodes |-> rec'[n]], file' = [n \in Nodes |-> file'[n]],
           \A n \in Nodes : rec'[n] # None \/ file'[n] # None =>
                                rec[n] # None \/ file[n] # None,
           vol' = vol \/ (/\ vol # NoVolume /\ vol'.home = vol.home
                          /\ vol'.handoff # None => /\ vol'.handoff = vol.handoff
                                                    /\ vol'.owner \in {vol.owner, None})
    PROVE  Moving'
  BY DEF Moving

\* The record of a node changes only where there is one.
LEMMA SaveMoving ==
    ASSUME Moving, NEW n \in Nodes, NEW r, NEW o, rec[n] # None, Save(n, r, o)
    PROVE  /\ rec' = [m \in Nodes |-> rec'[m]] /\ file' = [m \in Nodes |-> file'[m]]
           /\ \A m \in Nodes : rec'[m] # None \/ file'[m] # None =>
                                   rec[m] # None \/ file[m] # None
  BY DEF Moving, Save

\* A node that makes its record of the volume has the directory.
LEMMA MadeMoving ==
    ASSUME Moving, NEW n \in Nodes, NEW r, NEW o, Save(n, r, o), data \in [Nodes -> Sums],
           data' = [data EXCEPT ![n] = IF @ = None THEN 0 ELSE @]
    PROVE  /\ rec' = [m \in Nodes |-> rec'[m]] /\ file' = [m \in Nodes |-> file'[m]]
           /\ \A m \in Nodes : rec'[m] # None \/ file'[m] # None => data'[m] # None
           /\ data'[n] # None
           /\ \A m \in Nodes : data[m] # None => data'[m] = data[m]
<1>1. 0 # None
  BY VolumesAssumption
<1>2. data'[n] # None /\ \A m \in Nodes : data[m] # None => data'[m] = data[m]
  BY <1>1
<1>3. rec' = [m \in Nodes |-> rec'[m]] /\ file' = [m \in Nodes |-> file'[m]]
      /\ \A m \in Nodes : m # n => rec'[m] = rec[m] /\ file'[m] = file[m]
  BY DEF Moving, Save
<1>4. QED BY <1>2, <1>3, ZenonT(30) DEF Moving

LEMMA CreateMoving ==
    ASSUME Content, Moving, NEW n \in Nodes, CreateVolume(n) PROVE Moving'
<1>1. /\ goal' = goal
      /\ vol' = vol \/ (vol = NoVolume /\ vol' = Created(n))
      /\ \/ rec[n] # None /\ UNCHANGED <<rec, file, data>>
         \/ /\ \E o : Save(n, [owner |-> None, gen |-> 0], o)
            /\ data' = [data EXCEPT ![n] = IF @ = None THEN 0 ELSE @]
  BY DEF CreateVolume, Learn, node, fixed
<1>2. data \in [Nodes -> Sums] /\ (vol # NoVolume => vol.home \in Nodes)
  BY DEF Content, Shape, NodeShape, VolumeShape
<1>3. /\ rec' = [m \in Nodes |-> rec'[m]] /\ file' = [m \in Nodes |-> file'[m]]
      /\ \A m \in Nodes : rec'[m] # None \/ file'[m] # None => data'[m] # None
      /\ data'[n] # None
      /\ \A m \in Nodes : data[m] # None => data'[m] = data[m]
  <2>1. CASE rec[n] # None /\ UNCHANGED <<rec, file, data>>
    BY <2>1 DEF Moving
  <2>2. ASSUME NEW o, Save(n, [owner |-> None, gen |-> 0], o),
               data' = [data EXCEPT ![n] = IF @ = None THEN 0 ELSE @]
        PROVE  /\ rec' = [m \in Nodes |-> rec'[m]] /\ file' = [m \in Nodes |-> file'[m]]
               /\ \A m \in Nodes : rec'[m] # None \/ file'[m] # None => data'[m] # None
               /\ data'[n] # None
               /\ \A m \in Nodes : data[m] # None => data'[m] = data[m]
    BY <1>2, <2>2, MadeMoving
  <2>3. QED BY <1>1, <2>1, <2>2
<1>4. CASE vol' = vol
  BY <1>1, <1>2, <1>3, <1>4 DEF Moving
<1>5. CASE vol' = Created(n)
  <2>1. vol'.home = n /\ vol'.handoff = None
    BY <1>5 DEF Created
  <2>2. QED BY <1>3, <2>1 DEF Moving
<1>6. QED BY <1>1, <1>4, <1>5

LEMMA AttachMoving ==
    ASSUME Content, Moving, NEW a \in Allocs, Attach(a) \/ Detach(a) PROVE Moving'
<1>1. /\ UNCHANGED <<goal, data>> /\ vol # NoVolume
      /\ \/ UNCHANGED <<rec, file>>
         \/ rec[vol.home] # None /\ \E r, o : Save(vol.home, r, o)
      /\ \/ vol' = vol
         \/ vol' = Attached(a) /\ vol.handoff = None
         \/ vol' = Detached
  BY SMTT(30) DEF Attach, Detach, MayAttach, MayDetach, Learn, fixed
<1>2. Fields(vol) /\ vol.home \in Nodes /\ vol.gen \in Nat
  BY <1>1 DEF Content, Shape, VolumeShape
<1>3. /\ rec' = [m \in Nodes |-> rec'[m]] /\ file' = [m \in Nodes |-> file'[m]]
      /\ \A m \in Nodes : rec'[m] # None \/ file'[m] # None =>
                              rec[m] # None \/ file[m] # None
  <2>1. CASE UNCHANGED <<rec, file>>
    BY <2>1 DEF Moving
  <2>2. CASE rec[vol.home] # None /\ \E r, o : Save(vol.home, r, o)
    BY <1>2, <2>2, SaveMoving
  <2>3. QED BY <1>1, <2>1, <2>2
<1>4. Detached.home = vol.home /\ Detached.owner = None /\ Detached.handoff = vol.handoff
  BY <1>2 DEF Detached, Fields
<1>5. Attached(a).home = vol.home /\ Attached(a).handoff = vol.handoff
  BY <1>2 DEF Attached, Fields
<1>6. QED BY <1>1, <1>3, <1>4, <1>5, MovingElsewhere

\* The snapshot a move takes is of the directory as it is, under a new label.
LEMMA SnapshotMoving ==
    ASSUME ~Reuse, Content, Moving, NEW s \in Snaps, Snapshot(s) \/ DatabaseBackup(s)
    PROVE  Moving' /\ vol'.home = vol.home
<1> DEFINE n == vol.home
           sum == copy'[n][s]
<1>1. /\ UNCHANGED <<goal, rec, file, data>> /\ vol # NoVolume
      /\ Unused(s) /\ Shelve(n, s)
      /\ vol' = vol \/ vol' = Snapshotted(s, sum) \/ vol' = Recorded(s, sum)
  BY ZenonT(30) DEF Snapshot, DatabaseBackup, MaySnapshot, MayBackupDatabase, Learn, fixed, node
<1>2. Fields(vol) /\ n \in Nodes /\ HandoffShape(vol.handoff)
  BY <1>1 DEF Content, Shape, VolumeShape, HandoffShape
<1>3. sum = data[n]
  BY <1>1, <1>2, Shelving
<1> HIDE DEF sum
<1> DEFINE order == IF vol.snaps[s] = None THEN Append(vol.order, s) ELSE vol.order
           snaps == [vol.snaps EXCEPT ![s] = sum]
           h == IF vol.handoff # None /\ vol.handoff.phase = "quiesced"
                  THEN [vol.handoff EXCEPT !.phase = "snapshotted", !.snap = s, !.sum = sum]
                  ELSE vol.handoff
<1>4. Recorded(s, sum) = [vol EXCEPT !.snaps = snaps, !.order = order, !.last = s]
  BY <1>2 DEF Recorded, Fields
<1>5. h = vol.handoff \/ /\ vol.handoff # None /\ h.to = vol.handoff.to /\ h.sum = sum
  BY <1>2 DEF HandoffShape
<1> HIDE DEF order, snaps, h
<1>6. Recorded(s, sum).home = vol.home /\ Recorded(s, sum).handoff = vol.handoff
      /\ Recorded(s, sum).owner = vol.owner /\ Fields(Recorded(s, sum))
  BY <1>2, <1>4 DEF Fields
<1>7. Snapshotted(s, sum) = [Recorded(s, sum) EXCEPT !.handoff = h]
  BY <1>6 DEF Snapshotted, Fields, h
<1>8. Snapshotted(s, sum).home = vol.home /\ Snapshotted(s, sum).handoff = h
      /\ Snapshotted(s, sum).owner = vol.owner
  BY <1>6, <1>7 DEF Fields
<1>9. QED BY <1>1, <1>3, <1>5, <1>6, <1>8, SMTT(30) DEF Moving

\* The operations that take no copy and bring none back.
LEMMA ProtectMoving ==
    ASSUME Content, Moving,
           \/ \E s \in Snaps : Backup(s)
           \/ Verify \/ Age
           \/ \E k \in 1 .. Cardinality(Snaps), dry \in BOOLEAN : Prune(k, dry)
    PROVE  Moving' /\ vol'.home = vol.home
<1>1. ASSUME vol # NoVolume PROVE Fields(vol)
  BY <1>1 DEF Content, Shape, VolumeShape
<1>2. ASSUME NEW s \in Snaps, Backup(s)
      PROVE  Moving' /\ vol'.home = vol.home
  <2>1. UNCHANGED <<goal, rec, file, data>> /\ vol # NoVolume /\ vol' \in {vol, BackedUp(s)}
    BY <1>2 DEF Backup, MayBackup, Learn, fixed, node
  <2>2. LET v == BackedUp(s)
        IN  v.home = vol.home /\ v.handoff = vol.handoff /\ v.owner = vol.owner
    BY <1>1, <2>1 DEF BackedUp, Fields
  <2>3. vol'.home = vol.home
    BY <2>1, <2>2
  <2>4. QED BY <2>1, <2>2, <2>3, MovingElsewhere, SMTT(30) DEF Moving
<1>3. CASE Verify \/ Age
  <2>1. /\ UNCHANGED <<goal, file, data>> /\ vol # NoVolume
        /\ \/ UNCHANGED rec
           \/ rec' = [rec EXCEPT ![vol.home] = file[vol.home]]
        /\ vol' \in {vol, Verified(vol.last), [vol EXCEPT !.fresh = FALSE]}
    BY <1>3 DEF Verify, MayVerify, Overdue, Age, fixed, node
  <2>2. vol'.home = vol.home /\ vol'.handoff = vol.handoff /\ vol'.owner = vol.owner
    BY <1>1, <2>1, ZenonT(30) DEF Verified, Fields
  <2>3. rec' = [m \in Nodes |-> rec'[m]]
        /\ \A m \in Nodes : rec'[m] \in {rec[m], file[m]}
    BY <2>1 DEF Moving
  <2>4. QED BY <2>1, <2>2, <2>3, MovingElsewhere DEF Moving
<1>4. ASSUME NEW k \in 1 .. Cardinality(Snaps), NEW dry \in BOOLEAN, Prune(k, dry)
      PROVE  Moving' /\ vol'.home = vol.home
  <2> DEFINE removed == Removable(vol.home, k)
  <2>1. /\ UNCHANGED <<goal, rec, file, data>> /\ vol # NoVolume
        /\ vol' = vol \/ vol' = Pruned(removed)
    BY <1>4 DEF Prune, MayPrune, Learn, fixed, node
  <2> HIDE DEF removed
  <2>2. Stays(Pruned(removed)) /\ Pruned(removed).handoff = vol.handoff
    BY <2>1, PrunedStays DEF Content, Shape
  <2>3. QED BY <2>1, <2>2, MovingElsewhere DEF Moving, Stays
<1>5. QED BY <1>2, <1>3, <1>4

\* Nothing is restored, and nothing writes, while the volume moves.
LEMMA DataMoving ==
    ASSUME Orderly, Content, Fenced, Moving,
           (\E s \in Snaps : Restore(s)) \/ (\E n \in Nodes : Write(n))
    PROVE  Moving'
<1>1. ASSUME NEW s \in Snaps, Restore(s)
      PROVE  Moving'
  <2>1. /\ UNCHANGED <<goal, vol, rec, file>> /\ vol # NoVolume /\ vol.snaps[s] # None
        /\ "restore-volume" \in goal.approved
        /\ data' = [data EXCEPT ![vol.home] = vol.snaps[s]]
    BY <1>1 DEF Restore, MayRestore, fixed
  <2>2. /\ vol.home \in Nodes /\ data \in [Nodes -> Sums]
        /\ ~("move-volume" \in goal.approved)
    BY <2>1 DEF Content, Shape, VolumeShape, NodeShape, Orderly
  <2>3. vol.handoff = None
    BY <2>1, <2>2 DEF Moving
  <2>4. \A m \in Nodes : data[m] # None => data'[m] # None
    BY <2>1, <2>2
  <2>5. QED BY <2>1, <2>2, <2>3, <2>4 DEF Moving
<1>2. ASSUME NEW n \in Nodes, Write(n)
      PROVE  Moving'
  <2>1. /\ UNCHANGED <<goal, vol, rec, file>> /\ live # {}
        /\ data' = [data EXCEPT ![n] = written + 1] /\ written + 1 # None
    BY <1>2, VolumesAssumption DEF Write, Content, Shape, NodeShape
  <2>2. vol # NoVolume /\ vol.owner # None
    BY <2>1, VolumesAssumption, SMTT(30) DEF Fenced
  <2>3. vol.handoff = None /\ vol.home \in Nodes /\ data \in [Nodes -> Sums]
    BY <2>2 DEF Moving, Content, Shape, VolumeShape, NodeShape
  <2>4. \A m \in Nodes : data[m] # None => data'[m] # None
    BY <2>1, <2>3
  <2>5. QED BY <2>1, <2>3, <2>4 DEF Moving
<1>3. QED BY <1>1, <1>2

\* The phases of the move itself.
LEMMA QuiesceMoving ==
    ASSUME Content, Moving, NEW n \in Nodes, Quiesce(n) PROVE Moving'
<1>1. /\ UNCHANGED <<goal, rec, file, data>> /\ vol # NoVolume /\ vol.owner = None
      /\ n # vol.home /\ "move-volume" \in goal.approved
      /\ vol' = vol \/ vol' = Quiesced(n)
  BY SMTT(30) DEF Quiesce, MayQuiesce, Learn, fixed, node
<1>2. Fields(vol)
  BY <1>1 DEF Content, Shape, VolumeShape
<1>3. /\ Quiesced(n).home = vol.home /\ Quiesced(n).owner = None
      /\ Quiesced(n).handoff.to = n /\ Quiesced(n).handoff.phase = "quiesced"
  BY <1>1, <1>2, SMTT(30) DEF Quiesced, Fields
<1>4. QED BY <1>1, <1>3, SMTT(30) DEF Moving

LEMMA TransferMoving == ASSUME Content, Moving, Transfer PROVE Moving'
<1> DEFINE h == vol.handoff
           n == h.to
<1>1. /\ goal' = goal /\ vol # NoVolume /\ h # None /\ h.phase = "snapshotted"
      /\ vol' = vol \/ vol' = Transferred
      /\ \/ UNCHANGED <<rec, file, data>>
         \/ /\ \E o : Save(n, [owner |-> None, gen |-> 0], o)
            /\ data' = [data EXCEPT ![n] = IF @ = None THEN 0 ELSE @]
  BY SMTT(30) DEF Transfer, MayTransfer, InPhase, Learn, node, fixed
<1>2. /\ Fields(vol) /\ vol.home \in Nodes /\ n \in Nodes /\ data \in [Nodes -> Sums]
      /\ h = [to |-> n, phase |-> h.phase, snap |-> h.snap, sum |-> h.sum]
  BY <1>1 DEF Content, Shape, VolumeShape, NodeShape
<1>3. /\ rec' = [m \in Nodes |-> rec'[m]] /\ file' = [m \in Nodes |-> file'[m]]
      /\ \A m \in Nodes : rec'[m] # None \/ file'[m] # None => data'[m] # None
      /\ \A m \in Nodes : data[m] # None => data'[m] = data[m]
  <2>1. CASE UNCHANGED <<rec, file, data>>
    BY <2>1, SMTT(30) DEF Moving
  <2>2. ASSUME NEW o, Save(n, [owner |-> None, gen |-> 0], o),
               data' = [data EXCEPT ![n] = IF @ = None THEN 0 ELSE @]
        PROVE  /\ rec' = [m \in Nodes |-> rec'[m]] /\ file' = [m \in Nodes |-> file'[m]]
               /\ \A m \in Nodes : rec'[m] # None \/ file'[m] # None => data'[m] # None
               /\ \A m \in Nodes : data[m] # None => data'[m] = data[m]
    BY <1>2, <2>2, MadeMoving
  <2>3. QED BY <1>1, <2>1, <2>2
<1>4. LET v == Transferred
      IN  /\ v.home = vol.home /\ v.owner = vol.owner
          /\ v.handoff = [to |-> n, phase |-> "transferred", snap |-> h.snap, sum |-> h.sum]
  BY <1>2 DEF Transferred, Fields
<1> HIDE DEF n
<1>5. QED BY <1>1, <1>2, <1>3, <1>4, SMTT(30) DEF Moving, n

LEMMA AdoptMoving ==
    ASSUME Content, Moving, Adopt
    PROVE  Moving' /\ (vol' = vol \/ data'[vol'.home] = data[vol.home])
<1> DEFINE h == vol.handoff
<1>1. /\ UNCHANGED <<goal, rec, file>> /\ vol # NoVolume /\ h # None
      /\ h.phase = "transferred" /\ data' = [data EXCEPT ![h.to] = h.sum]
      /\ vol' = vol \/ vol' = Adopted
  BY DEF Adopt, MayAdopt, InPhase, Learn, fixed
<1>2. /\ Fields(vol) /\ vol.home \in Nodes /\ h.to \in Nodes /\ data \in [Nodes -> Sums]
      /\ vol.gen \in Nat
  BY <1>1 DEF Content, Shape, VolumeShape, NodeShape
<1>3. h.sum = data[vol.home] /\ data[vol.home] # None /\ h.to # vol.home
  BY <1>1 DEF Moving
<1>4. data'[h.to] = data[vol.home] /\ \A m \in Nodes : m # h.to => data'[m] = data[m]
  BY <1>1, <1>2, <1>3
<1>5. Adopted.home = h.to /\ Adopted.handoff = None
  BY <1>2, SMTT(30) DEF Adopted, Fields
<1>6. Moving'
  BY <1>1, <1>2, <1>3, <1>4, <1>5, SMTT(30) DEF Moving
<1>7. QED BY <1>1, <1>4, <1>5, <1>6

LEMMA InitMoving == ASSUME Init PROVE Moving
  BY SMTT(30) DEF Init, Moving

\* One step for each action.  Only an adoption changes the volume's home.
LEMMA NextMoving ==
    ASSUME Orderly, Content, Fenced, Moving, [Next]_vars
    PROVE  /\ Moving'
           /\ vol # NoVolume /\ vol'.home # vol.home => data'[vol'.home] = data[vol.home]
<1> DEFINE Stay == vol = NoVolume \/ vol'.home = vol.home
<1>1. ASSUME NEW a \in Allocs, NEW n \in Nodes, Place(a, n)
      PROVE  Moving' /\ Stay
  BY <1>1, MovingElsewhere DEF Place, node, fixed, Moving
<1>2. ASSUME NEW a \in Allocs, Attach(a) \/ Detach(a)
      PROVE  Moving' /\ Stay
  <2>1. vol # NoVolume /\ vol' \in {vol, Attached(a), Detached}
    BY <1>2, SMTT(30) DEF Attach, Detach, MayAttach, MayDetach, Learn
  <2>2. Fields(vol)
    BY <2>1 DEF Content, Shape, VolumeShape
  <2>3. Attached(a).home = vol.home /\ Detached.home = vol.home
    BY <2>2 DEF Attached, Detached, Fields
  <2>4. QED BY <1>2, <2>1, <2>3, AttachMoving
<1>3. ASSUME NEW a \in Allocs, Start(a) \/ Stop(a) \/ Delete(a)
      PROVE  Moving' /\ Stay
  BY <1>3, MovingElsewhere, SMTT(30) DEF Start, Stop, Delete, node, fixed, Moving
<1>4. ASSUME NEW n \in Nodes, CreateVolume(n)
      PROVE  Moving' /\ Stay
  BY <1>4, CreateMoving DEF CreateVolume, Learn
<1>5. ASSUME NEW n \in Nodes, Quiesce(n)
      PROVE  Moving' /\ Stay
  <2>1. vol # NoVolume /\ vol' \in {vol, Quiesced(n)}
    BY <1>5 DEF Quiesce, MayQuiesce, Learn
  <2>2. Quiesced(n).home = vol.home
    BY <2>1 DEF Content, Shape, VolumeShape, Quiesced, Fields
  <2>3. QED BY <1>5, <2>1, <2>2, QuiesceMoving, SMTT(30)
<1>6. CASE Transfer
  <2>1. vol # NoVolume /\ vol' \in {vol, Transferred}
    BY <1>6 DEF Transfer, MayTransfer, InPhase, Learn
  <2>2. Transferred.home = vol.home
    BY <2>1 DEF Content, Shape, VolumeShape, Transferred, Fields
  <2>3. QED BY <1>6, <2>1, <2>2, TransferMoving, SMTT(30)
<1>7. CASE Adopt
  BY <1>7, AdoptMoving
<1>8. ASSUME NEW s \in Snaps, Snapshot(s) \/ DatabaseBackup(s)
      PROVE  Moving' /\ Stay
  BY <1>8, SnapshotMoving DEF Orderly
<1>9. CASE \/ \E s \in Snaps : Backup(s)
           \/ Verify \/ Age
           \/ \E k \in 1 .. Cardinality(Snaps), dry \in BOOLEAN : Prune(k, dry)
  <2>1. Moving' /\ Stay
    BY <1>9, ProtectMoving
  <2>2. QED BY <2>1
<1>10. CASE (\E s \in Snaps : Restore(s)) \/ (\E n \in Nodes : Write(n))
  <2>1. vol' = vol
    BY <1>10, ZenonT(30) DEF Restore, Write
  <2>2. QED BY <1>10, <2>1, DataMoving, SMTT(30)
<1>11. ASSUME NEW n \in Nodes, Restart(n)
       PROVE  Moving' /\ Stay
  <2>1. /\ UNCHANGED <<goal, vol, file, data>>
        /\ rec' = [rec EXCEPT ![n] = file[n]]
    BY <1>11 DEF Restart, fixed
  <2>2. rec' = [m \in Nodes |-> rec'[m]]
        /\ \A m \in Nodes : rec'[m] \in {rec[m], file[m]}
    BY <2>1, SMTT(30) DEF Moving
  <2>3. QED BY <2>1, <2>2, MovingElsewhere DEF Moving
<1>12. CASE Rot
  BY <1>12, MovingElsewhere, SMTT(30) DEF Rot, node, fixed, Moving
<1>13. CASE UNCHANGED vars
  BY <1>13, MovingElsewhere DEF vars, Moving
<1>14. QED BY <1>1, <1>2, <1>3, <1>4, <1>5, <1>6, <1>7, <1>8, <1>9, <1>10, <1>11, <1>12,
              <1>13, ZenonT(30) DEF Next, Operate, Protect

\* When the world moves a volume, the target holds exactly what the origin holds at
\* that moment (handoff.go), through restarts of the nodes, failed writes of their
\* files and damaged copies: if labels are used once, answers arrive, and no volume
\* may be both moved and restored.
THEOREM MoveLosesNothing == ASSUME Orderly PROVE Spec => MovedIsCurrent
<1> DEFINE All == Content /\ Fenced /\ Moving
           Moved == vol # NoVolume /\ vol'.home # vol.home =>
                        data'[vol'.home] = data[vol.home]
<1>1. Init => All
  BY InitContent, InitFenced, InitMoving, SMTT(30)
<1>2. All /\ [Next]_vars => All' /\ Moved
  BY NextContent, NextFenced, NextMoving DEF Orderly
<1>3. QED BY <1>1, <1>2, PTL DEF Spec, MovedIsCurrent
=============================================================================
