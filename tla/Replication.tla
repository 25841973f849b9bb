---------------------------- MODULE Replication ----------------------------
(***************************************************************************)
(* The event log as a file that processes open: the hash chain and the     *)
(* append that guards it (eventlog/store.go, chain.go), the anchor that    *)
(* witnesses chain heads outside the store (anchor.go), archives and their *)
(* restore (backup.go), the server that owns a log (server/server.go) and  *)
(* the standby that follows one and is promoted (server/standby.go,        *)
(* cmd/a4s/standby.go).                                                    *)
(*                                                                         *)
(* A hash is the sequence of the events it digests, so its length is the   *)
(* sequence number it belongs to.  A missing file opens as an empty log.   *)
(* A refused operation changes nothing and is no step.                     *)
(***************************************************************************)
EXTENDS Naturals, FiniteSets, Sequences

CONSTANTS
    Stores,     \* event log files, one per machine
    Procs,      \* processes that open them
    MaxEvents,  \* events recorded in a behaviour
    MaxStops,   \* how often a process stops or crashes
    Batch,      \* MaxRecordBatch
    Practices,  \* the ways operators run the control plane, one per behaviour
    None

ASSUME ReplicationAssumption ==
    /\ {MaxEvents, MaxStops} \subseteq Nat /\ Batch \in Nat \ {0}
    /\ Practices \subseteq
         [homes : SUBSET Stores,  \* the stores a server is started on
          anchored : BOOLEAN,     \* every server is given the same anchor file
          fenced : BOOLEAN,       \* a server starts once the others are stopped
          whole : BOOLEAN,        \* a standby is sent the log from its beginning
          uses : SUBSET {"standby", "promote", "backup", "crash", "restore",
                         "rot", "quiet"}]

Events == 0 .. MaxEvents

\* A file that is not there is no sequence of records and no manifest.
ASSUME NoneAssumption ==
    /\ None \notin Seq([event : Events, hash : Seq(Events)])
    /\ None \notin [checksum : Seq([event : Events, hash : Seq(Events)]), head : Seq(Events)]

VARIABLES
    records,  \* the records of each store
    anchor,   \* the heads in the anchor file
    proc,     \* each process: its role, its store, File.head, Anchor.last
    lived,    \* the history of the server that last started or recorded
    made,     \* how many events were ever recorded
    stops,
    archive,  \* the archive file's records, or None
    manifest, \* the manifest file, or None
    job,      \* the backup or the restore that is under way, or None
    practice  \* how this control plane is run; never changes

vars == <<records, anchor, proc, lived, made, stops, archive, manifest, job, practice>>
saved == <<archive, manifest, job, practice>>

Down == [role |-> "down", store |-> None, head |-> <<>>, last |-> <<>>]

Init ==
    /\ records = [s \in Stores |-> <<>>]
    /\ anchor = {}
    /\ proc = [p \in Procs |-> Down]
    /\ lived = <<>>
    /\ made = 0 /\ stops = 0
    /\ archive = None /\ manifest = None /\ job = None
    /\ practice \in Practices

(***************************************************************************)
(* The chain.                                                              *)
(***************************************************************************)
Hash(previous, e) == Append(previous, e)

Verify(recs) ==
    \A i \in DOMAIN recs :
        recs[i].hash = Hash(IF i = 1 THEN <<>> ELSE recs[i - 1].hash, recs[i].event)

Tip(recs) == IF recs = <<>> THEN <<>> ELSE recs[Len(recs)].hash

\* The history s is the beginning of t.
Begins(s, t) == Len(s) <= Len(t) /\ s = SubSeq(t, 1, Len(s))

\* As if an append took its place from the table and its hash from memory.
AppendBlindly(recs, head, e) == Append(recs, [event |-> e, hash |-> Hash(head, e)])

\* The row's sequence is a primary key and the chain head only advances from
\* the sequence this handle knows: None when the table has moved on.
AppendRecord(recs, head, e) ==
    IF Len(recs) = Len(head)
      THEN Append(recs, [event |-> e, hash |-> Hash(head, e)])
      ELSE None

(***************************************************************************)
(* The anchor.                                                             *)
(***************************************************************************)
\* The highest sequence in the file; two hashes there come in any order.
OpenAnchor ==
    {h \in anchor : \A g \in anchor : Len(g) <= Len(h)}
        \cup (IF anchor = {} THEN {<<>>} ELSE {})

\* As if a store that ends before the witnessed head were not refused.
CheckWhatIsThere(last, head, recs) ==
    \A i \in DOMAIN recs : i = Len(last) => recs[i].hash = last

Check(last, head, recs) ==
    last # <<>> =>
        /\ Len(head) >= Len(last)
        /\ last = IF Len(head) = Len(last) THEN head ELSE recs[Len(last)].hash

\* What p's anchor has of the head: refused below what p itself witnessed.
Witnesses(last, head) == practice.anchored /\ Len(head) > Len(last)

Witness(last, head) ==
    anchor' = IF Witnesses(last, head) THEN anchor \cup {head} ELSE anchor

Witnessed(last, head) == IF Witnesses(last, head) THEN head ELSE last

(***************************************************************************)
(* A server: started on a log, recording, and stopped or crashed.          *)
(***************************************************************************)
Serving == {p \in Procs : proc[p].role = "server"}

Idle(s) == \A p \in Procs : proc[p].store # s

\* Operators open no log while they restore it, and restore none that is open.
Restoring(s) == IF job = None THEN FALSE ELSE job.kind = "restore" /\ job.store = s

\* The checks of Open passed: the projection is built, the head witnessed.
Serve(p, s, last) ==
    LET head == Tip(records[s]) IN
    /\ Witness(last, head)
    /\ proc' = [proc EXCEPT ![p] = [role |-> "server", store |-> s, head |-> head,
                                    last |-> Witnessed(last, head)]]
    /\ lived' = head

Start(p, s) ==
    /\ proc[p].role = "down"
    /\ practice.fenced => Serving = {}
    /\ s \in practice.homes /\ ~Restoring(s)
    /\ Verify(records[s])
    /\ \E last \in OpenAnchor :
        /\ Check(last, Tip(records[s]), records[s])
        /\ Serve(p, s, last)
    /\ UNCHANGED <<records, made, stops, saved>>

\* A bound, and the quiet in which an operator may choose to take a backup.
MayRecord == made < MaxEvents /\ ("quiet" \in practice.uses => job = None)

\* One event of the reconcile loop.  The head is witnessed when the run ends.
Record(p) ==
    LET s == proc[p].store
        recs == AppendRecord(records[s], proc[p].head, made + 1) IN
    /\ proc[p].role = "server" /\ MayRecord
    /\ recs # None
    /\ records' = [records EXCEPT ![s] = recs]
    /\ proc' = [proc EXCEPT ![p].head = Tip(recs)]
    /\ lived' = Tip(recs)
    /\ made' = made + 1
    /\ UNCHANGED <<anchor, stops, saved>>

\* An operator's decision is witnessed before it is answered.
Decide(p) ==
    LET s == proc[p].store
        recs == AppendRecord(records[s], proc[p].head, made + 1) IN
    /\ proc[p].role = "server" /\ MayRecord
    /\ recs # None
    /\ records' = [records EXCEPT ![s] = recs]
    /\ Witness(proc[p].last, Tip(recs))
    /\ proc' = [proc EXCEPT ![p].head = Tip(recs),
                            ![p].last = Witnessed(@, Tip(recs))]
    /\ lived' = Tip(recs)
    /\ made' = made + 1
    /\ UNCHANGED <<stops, saved>>

EndRun(p) ==
    /\ proc[p].role = "server"
    /\ Witnesses(proc[p].last, proc[p].head)
    /\ Witness(proc[p].last, proc[p].head)
    /\ proc' = [proc EXCEPT ![p].last = proc[p].head]
    /\ UNCHANGED <<records, lived, made, stops, saved>>

Stop(p) ==
    /\ proc[p].role # "down" /\ stops < MaxStops
    /\ proc' = [proc EXCEPT ![p] = Down]
    /\ stops' = stops + 1
    /\ UNCHANGED <<records, anchor, lived, made, saved>>

(***************************************************************************)
(* A standby.  It reads the anchor once, when it opens.                    *)
(***************************************************************************)
OpenStandby(p, s) ==
    /\ "standby" \in practice.uses
    /\ proc[p].role = "down"
    /\ practice.anchored
    /\ ~Restoring(s)
    /\ Verify(records[s])
    /\ \E last \in OpenAnchor :
        proc' = [proc EXCEPT ![p] = [role |-> "standby", store |-> s,
                                     head |-> Tip(records[s]), last |-> last]]
    /\ UNCHANGED <<records, anchor, lived, made, stops, saved>>

\* As if the newest record were held back.
SentShort(recs, after, n) ==
    IF Len(recs) <= after + 1 THEN <<>>
      ELSE SubSeq(recs, after + 1, IF Len(recs) <= after + n THEN Len(recs) - 1 ELSE after + n)

\* The records a primary sends: at most n after a sequence.
Sent(recs, after, n) ==
    IF Len(recs) <= after THEN <<>>
      ELSE SubSeq(recs, after + 1, IF Len(recs) < after + n THEN Len(recs) ELSE after + n)

\* As if a record already held were skipped without a look at it.
SkipHeld(recs, record) == TRUE

ConfirmRecord(recs, record) == recs[Len(record.hash)].hash = record.hash

\* One record after the other, until one is refused.  A record is compared with
\* the primary's hash after it is appended.
IngestOne(f, record) ==
    IF ~f.ok THEN f
    ELSE IF Len(record.hash) <= Len(f.head)
      THEN [f EXCEPT !.ok = ConfirmRecord(f.recs, record)]
    ELSE LET recs == AppendRecord(f.recs, f.head, record.event)
         IN  IF recs = None \/ Len(record.hash) # Len(f.head) + 1
               THEN [f EXCEPT !.ok = FALSE]
               ELSE [recs |-> recs, head |-> Tip(recs), ok |-> Tip(recs) = record.hash]

Ingest(recs, head, batch) ==
    LET taken[k \in 0 .. Len(batch)] ==
            IF k = 0 THEN [recs |-> recs, head |-> head, ok |-> TRUE]
            ELSE IngestOne(taken[k - 1], batch[k])
    IN  taken[Len(batch)]

\* One request to the server q and the records of its answer that p takes
\* before it is interrupted.
Sync(p, q) ==
    LET s == proc[p].store
        after == IF practice.whole THEN 0 ELSE Len(proc[p].head)
        limit == IF practice.whole THEN Len(records[proc[q].store]) ELSE Batch IN
    /\ proc[p].role = "standby" /\ proc[q].role = "server"
    /\ s # proc[q].store
    /\ \E n \in 1 .. limit :
        LET batch == Sent(records[proc[q].store], after, n)
            f == Ingest(records[s], proc[p].head, batch) IN
        /\ batch # <<>>
        /\ records' = [records EXCEPT ![s] = f.recs]
        /\ proc' = [proc EXCEPT ![p].head = f.head]
    /\ UNCHANGED <<anchor, lived, made, stops, saved>>

\* The checks against the anchor the standby read when it opened, then Open.
\* A standby whose log Open refuses is left closed.
Promote(p) ==
    LET s == proc[p].store IN
    /\ "promote" \in practice.uses
    /\ proc[p].role = "standby"
    /\ practice.fenced => Serving = {}
    /\ Verify(records[s])
    /\ Check(proc[p].last, proc[p].head, records[s])
    /\ \E last \in OpenAnchor :
        IF Check(last, Tip(records[s]), records[s])
          THEN Serve(p, s, last)
          ELSE /\ proc' = [proc EXCEPT ![p].role = "closed"]
               /\ UNCHANGED <<anchor, lived>>
    /\ UNCHANGED <<records, made, stops, saved>>

(***************************************************************************)
(* Backup, by a process of its own, and restore.                           *)
(***************************************************************************)
\* The records are read and the chain verified.
ReadForBackup(s) ==
    /\ "backup" \in practice.uses /\ s \in practice.homes /\ job = None
    /\ records[s] # <<>> /\ Verify(records[s])
    /\ job' = [kind |-> "read", store |-> s, records |-> records[s]]
    /\ UNCHANGED <<records, anchor, proc, lived, made, stops, archive, manifest,
                   practice>>

ClearPrevious ==
    /\ job # None /\ job.kind = "read"
    /\ archive' = None
    /\ job' = [job EXCEPT !.kind = "cleared"]
    /\ UNCHANGED <<records, anchor, proc, lived, made, stops, manifest, practice>>

VacuumInto ==
    /\ job # None /\ job.kind = "cleared"
    /\ archive' = records[job.store]
    /\ job' = [job EXCEPT !.kind = "written"]
    /\ UNCHANGED <<records, anchor, proc, lived, made, stops, manifest, practice>>

\* The checksum is the archive's; the count and the head are what was read.
WriteManifest ==
    /\ job # None /\ job.kind = "written"
    /\ manifest' = [checksum |-> archive, head |-> Tip(job.records)]
    /\ job' = None
    /\ UNCHANGED <<records, anchor, proc, lived, made, stops, archive, practice>>

\* As if the size were the only check.
SizeMatches ==
    archive # None /\ manifest # None /\ Len(archive) = Len(manifest.checksum)

VerifyBackup ==
    /\ archive # None /\ manifest # None
    /\ archive = manifest.checksum
    /\ Len(archive) = Len(manifest.head)
    /\ Verify(archive)
    /\ Tip(archive) = manifest.head

\* The log that is there is moved aside, the archive then put in its place.
MoveAside(s) ==
    /\ "restore" \in practice.uses /\ s \in practice.homes /\ job = None
    /\ Idle(s)
    /\ VerifyBackup
    /\ records' = [records EXCEPT ![s] = <<>>]
    /\ job' = [kind |-> "restore", store |-> s, records |-> archive]
    /\ UNCHANGED <<anchor, proc, lived, made, stops, archive, manifest, practice>>

Install ==
    /\ job # None /\ job.kind = "restore"
    /\ records' = [records EXCEPT ![job.store] = job.records]
    /\ job' = None
    /\ UNCHANGED <<anchor, proc, lived, made, stops, archive, manifest, practice>>

CrashJob ==
    /\ "crash" \in practice.uses
    /\ job # None /\ stops < MaxStops
    /\ job' = None
    /\ stops' = stops + 1
    /\ UNCHANGED <<records, anchor, proc, lived, made, archive, manifest, practice>>

\* The storage loses an event of a log nobody has open, or of the archive.
Rotten(recs, i) == [recs EXCEPT ![i].event = 0]

Rot ==
    /\ "rot" \in practice.uses /\ stops < MaxStops
    /\ \/ \E s \in Stores : \E i \in DOMAIN records[s] :
            /\ Idle(s)
            /\ records' = [records EXCEPT ![s] = Rotten(@, i)]
            /\ UNCHANGED archive
       \/ /\ archive # None
          /\ \E i \in DOMAIN archive : archive' = Rotten(archive, i)
          /\ UNCHANGED records
    /\ stops' = stops + 1
    /\ UNCHANGED <<anchor, proc, lived, made, manifest, job, practice>>

-----------------------------------------------------------------------------
Next ==
    \/ \E p \in Procs :
        \/ \E s \in Stores : Start(p, s) \/ OpenStandby(p, s)
        \/ Record(p) \/ Decide(p) \/ EndRun(p) \/ Stop(p)
        \/ \E q \in Procs : Sync(p, q)
        \/ Promote(p)
    \/ \E s \in Stores : ReadForBackup(s) \/ MoveAside(s)
    \/ ClearPrevious \/ VacuumInto \/ WriteManifest \/ Install \/ CrashJob \/ Rot

Spec == Init /\ [][Next]_vars

\* The ticker of a4s standby fires again and again.
FairSpec == Spec /\ \A p \in Procs : \A q \in Procs \ {p} : WF_vars(Sync(p, q))

-----------------------------------------------------------------------------
\* A practice of one server at a time, or of servers on one store and no promotion.
Alone(pr) ==
    pr.fenced \/ ("promote" \notin pr.uses /\ \E s \in Stores : pr.homes \subseteq {s})

\* What WitnessedHistory and DivergenceRefused need of operators: without it two servers
\* act on histories of their own.
Exclusive == \A pr \in Practices : Alone(pr)

\* What BackupsVerify needs of them: in the quiet of a backup no standby writes to the
\* log and the storage loses nothing.
Calm == \A pr \in Practices : "quiet" \in pr.uses => {"standby", "rot"} \cap pr.uses = {}

\* The shape of files, handles and jobs; a process that is down has no handle.
TypeOK ==
    /\ \A s \in Stores : \A i \in DOMAIN records[s] :
        records[s][i].event \in Events /\ Len(records[s][i].hash) <= MaxEvents
    /\ anchor \subseteq UNION {[1 .. n -> Events] : n \in 0 .. MaxEvents}
    /\ \A p \in Procs :
        /\ proc[p].role \in {"down", "server", "standby", "closed"}
        /\ proc[p].store \in Stores \cup {None}
        /\ proc[p].role = "down" => proc[p] = Down
        /\ Len(proc[p].head) <= MaxEvents /\ Len(proc[p].last) <= MaxEvents
    /\ made \in 0 .. MaxEvents /\ stops \in 0 .. MaxStops
    /\ job # None => job.kind \in {"read", "cleared", "written", "restore"}

\* The highest head in the anchor file.
Newest == CHOOSE h \in OpenAnchor : TRUE

Cluster == INSTANCE History WITH log <- lived, safe <- Newest

\* The history the cluster acts on keeps what was witnessed, whoever serves it
\* after crashes, promotions, restarts and restores (server.Open, Anchor.Check).
WitnessedHistory == Cluster!Spec

\* However many processes write to one store, its chain verifies, and each of
\* them holds a head that is on it, unless the storage lost an event
\* (File.Append).
OneChain ==
    \A s \in Stores :
        (\A i \in DOMAIN records[s] : records[s][i].event # 0) =>
            /\ Verify(records[s])
            /\ \A p \in Procs : proc[p].store = s => Begins(proc[p].head, Tip(records[s]))

\* A standby that is sent the log from its beginning takes a record only when
\* its history is the beginning of the primary's (File.Ingest, confirmRecord).
DivergenceRefused ==
    [][\A p, q \in Procs :
        practice.whole /\ proc[p].role = "standby" /\ proc'[p].head # proc[p].head
          /\ proc'[p].role = "standby"
          /\ proc[q].role = "server" /\ proc[q].store # proc[p].store
            => Begins(Tip(records[proc[p].store]), Tip(records[proc[q].store]))]_vars

\* Once a server records no more, all it recorded reaches a standby, unless one of them
\* goes away, another process wrote to the standby's log, or that log is not the
\* beginning of the server's (syncStandby).
Follows(p, q) ==
    /\ proc[p].role = "standby" /\ proc[q].role = "server"
    /\ proc[p].head = Tip(records[proc[p].store])
    /\ Begins(proc[p].head, Tip(records[proc[q].store]))

Followed ==
    \A p \in Procs : \A q \in Procs \ {p} :
        []<>(Follows(p, q) => proc[p].head = Tip(records[proc[q].store]))

\* A backup that nothing is recorded during verifies when it is finished, and a
\* store that was restored holds a whole chain, whatever crashed in between and
\* whatever became of the archive since it was written (File.Backup, VerifyBackup,
\* Restore).
BackupsVerify ==
    [][/\ WriteManifest /\ "quiet" \in practice.uses => VerifyBackup'
       /\ Install => Verify(records'[job.store])]_vars
=============================================================================
