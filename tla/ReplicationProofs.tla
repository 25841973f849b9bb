------------------------- MODULE ReplicationProofs --------------------------
(***************************************************************************)
(* What the event log keeps, proved about Replication for any number of    *)
(* stores, processes, events and stops: one chain per store, the backups   *)
(* that verify, the standby that refuses another history, and the history  *)
(* that keeps what was witnessed.                                          *)
(***************************************************************************)
EXTENDS Replication, TLAPS

\* A set of natural numbers has a least one.  The library's theorem that establishes
\* it is brought in at the end of the module, where it is proved, and not before:
\* every step of a proof carries all that precedes it.
LeastMembers == \A S \in SUBSET Nat : S # {} => \E x \in S : \A y \in S : x <= y

Hashes == Seq(Events)
Rec == [event : Events, hash : Hashes]
Recs == Seq(Rec)

-----------------------------------------------------------------------------
(* Beginnings of a history.                                                 *)

LEMMA PrefixForms ==
    ASSUME NEW s \in Hashes, NEW t \in Hashes
    PROVE  Begins(s, t) <=> Len(s) <= Len(t) /\ \A i \in 1 .. Len(s) : s[i] = t[i]
<1>1. s \in Seq(Events) /\ t \in Seq(Events) /\ Len(s) \in Nat /\ Len(t) \in Nat
  BY DEF Hashes
<1>2. ASSUME Len(s) <= Len(t)
      PROVE  s = SubSeq(t, 1, Len(s)) <=> \A i \in 1 .. Len(s) : s[i] = t[i]
  <2> DEFINE b == SubSeq(t, 1, Len(s))
  <2>1. b \in Seq(Events) /\ Len(b) = Len(s) /\ \A i \in 1 .. Len(s) : b[i] = t[i]
    BY <1>1, <1>2
  <2> HIDE DEF b
  <2>2. s = b => \A i \in 1 .. Len(s) : s[i] = t[i]
    BY <2>1
  <2>3. ASSUME \A i \in 1 .. Len(s) : s[i] = t[i] PROVE s = b
    BY <1>1, <2>1, <2>3
  <2> QED BY <2>2, <2>3, Zenon DEF b
<1> QED BY <1>2, Zenon DEF Begins

LEMMA PrefixEmpty ==
    ASSUME NEW t \in Hashes
    PROVE  <<>> \in Hashes /\ Begins(<<>>, t)
<1>1. <<>> \in Hashes /\ Len(<<>>) = 0 /\ Len(t) \in Nat
  BY DEF Hashes
<1> QED BY <1>1, PrefixForms

LEMMA PrefixSelf ==
    ASSUME NEW s \in Hashes
    PROVE  Begins(s, s)
<1>1. Len(s) \in Nat
  BY DEF Hashes
<1> QED BY <1>1, PrefixForms

\* A beginning stays one when the history grows.
LEMMA PrefixGrows ==
    ASSUME NEW s \in Hashes, NEW t \in Hashes, NEW e \in Events, Begins(s, t)
    PROVE  Begins(s, Append(t, e))
<1> DEFINE u == Append(t, e)
<1>1. /\ u \in Hashes /\ Len(u) = Len(t) + 1 /\ Len(t) \in Nat /\ Len(s) \in Nat
      /\ \A i \in 1 .. Len(t) : u[i] = t[i]
  BY DEF Hashes
<1> HIDE DEF u
<1>2. Len(s) <= Len(t) /\ \A i \in 1 .. Len(s) : s[i] = t[i]
  BY PrefixForms, Zenon
<1>3. Len(s) <= Len(u) /\ \A i \in 1 .. Len(s) : s[i] = u[i]
  BY <1>1, <1>2
<1> QED BY <1>1, <1>3, PrefixForms, Zenon DEF u

LEMMA PrefixWhole ==
    ASSUME NEW s \in Hashes, NEW t \in Hashes, Begins(s, t), Len(t) <= Len(s)
    PROVE  s = t
<1>1. Len(s) <= Len(t) /\ \A i \in 1 .. Len(s) : s[i] = t[i]
  BY PrefixForms, Zenon
<1>2. Len(s) = Len(t)
  BY <1>1 DEF Hashes
<1> QED BY <1>1, <1>2 DEF Hashes

LEMMA PrefixTransitive ==
    ASSUME NEW s \in Hashes, NEW t \in Hashes, NEW u \in Hashes, Begins(s, t), Begins(t, u)
    PROVE  Begins(s, u)
<1>1. Len(s) \in Nat /\ Len(t) \in Nat /\ Len(u) \in Nat
  BY DEF Hashes
<1>2. Len(s) <= Len(t) /\ \A i \in 1 .. Len(s) : s[i] = t[i]
  BY PrefixForms, Zenon
<1>3. Len(t) <= Len(u) /\ \A i \in 1 .. Len(t) : t[i] = u[i]
  BY PrefixForms, Zenon
<1>4. Len(s) <= Len(u) /\ \A i \in 1 .. Len(s) : s[i] = u[i]
  BY <1>1, <1>2, <1>3
<1> QED BY <1>4, PrefixForms, Zenon

\* Of two beginnings of one history, the shorter one begins the longer one.
LEMMA PrefixesOrdered ==
    ASSUME NEW s \in Hashes, NEW t \in Hashes, NEW u \in Hashes, Begins(s, u), Begins(t, u),
           Len(s) <= Len(t)
    PROVE  Begins(s, t)
<1>1. Len(s) \in Nat /\ Len(t) \in Nat /\ Len(u) \in Nat
  BY DEF Hashes
<1>2. Len(s) <= Len(u) /\ \A i \in 1 .. Len(s) : s[i] = u[i]
  BY PrefixForms, Zenon
<1>3. Len(t) <= Len(u) /\ \A i \in 1 .. Len(t) : t[i] = u[i]
  BY PrefixForms, Zenon
<1>4. \A i \in 1 .. Len(s) : s[i] = t[i]
  BY <1>1, <1>2, <1>3
<1> QED BY <1>4, PrefixForms, Zenon
-----------------------------------------------------------------------------
(* Chains of records.                                                       *)

LEMMA RecordForms ==
    ASSUME NEW recs \in Recs
    PROVE  /\ Len(recs) \in Nat /\ DOMAIN recs = 1 .. Len(recs)
           /\ \A i \in 1 .. Len(recs) : recs[i].event \in Events /\ recs[i].hash \in Hashes
<1>1. /\ Len(recs) \in Nat /\ DOMAIN recs = 1 .. Len(recs)
      /\ \A i \in 1 .. Len(recs) : recs[i] \in Rec
  BY DEF Recs
<1>2. \A r \in Rec : r.event \in Events /\ r.hash \in Hashes
  BY DEF Rec
<1> QED BY <1>1, <1>2, Zenon

LEMMA TipForms ==
    ASSUME NEW recs \in Recs
    PROVE  /\ Tip(recs) \in Hashes
           /\ Len(recs) = 0 => Tip(recs) = <<>>
           /\ Len(recs) # 0 => Len(recs) \in 1 .. Len(recs) /\ Tip(recs) = recs[Len(recs)].hash
<1>1. Len(recs) \in Nat
  BY RecordForms, Zenon
<1>2. CASE Len(recs) = 0
  <2>1. recs = <<>>
    BY <1>2 DEF Recs
  <2> QED BY <1>2, <2>1, PrefixEmpty DEF Tip, Hashes
<1>3. CASE Len(recs) # 0
  <2>1. recs # <<>> /\ Len(recs) \in 1 .. Len(recs)
    BY <1>1, <1>3
  <2>2. Tip(recs) = recs[Len(recs)].hash
    BY <2>1, Zenon DEF Tip
  <2> QED BY <1>3, <2>1, <2>2, RecordForms, Zenon
<1> QED BY <1>2, <1>3, Zenon

LEMMA ChainLinks ==
    ASSUME NEW recs \in Recs, Verify(recs), NEW i \in 1 .. Len(recs)
    PROVE  /\ i = 1 => recs[i].hash = Append(<<>>, recs[i].event)
           /\ i # 1 => /\ i - 1 \in 1 .. Len(recs)
                       /\ recs[i].hash = Append(recs[i - 1].hash, recs[i].event)
<1>1. i \in DOMAIN recs /\ Len(recs) \in Nat
  BY RecordForms, Zenon
<1>2. recs[i].hash = Append(IF i = 1 THEN <<>> ELSE recs[i - 1].hash, recs[i].event)
  BY <1>1, Zenon DEF Verify, Hash
<1>3. i # 1 => i - 1 \in 1 .. Len(recs)
  BY <1>1
<1> QED BY <1>2, <1>3, Zenon

\* A record's hash digests as many events as its sequence number says.
LEMMA ChainLengths ==
    ASSUME LeastMembers, NEW recs \in Recs, Verify(recs)
    PROVE  \A i \in 1 .. Len(recs) : Len(recs[i].hash) = i
<1> DEFINE bad == {i \in 1 .. Len(recs) : Len(recs[i].hash) # i}
<1> SUFFICES ASSUME bad # {} PROVE FALSE
  BY Zenon
<1>1. Len(recs) \in Nat
  BY RecordForms, Zenon
<1>2. PICK i \in bad : \A j \in bad : i <= j
  <2>1. bad \in SUBSET Nat
    BY <1>1
  <2> HIDE DEF bad
  <2> QED BY <2>1, Zenon DEF LeastMembers
<1>3. i \in 1 .. Len(recs) /\ Len(recs[i].hash) # i /\ recs[i].event \in Events
  BY RecordForms, Zenon
<1>4. CASE i = 1
  <2>1. recs[i].hash = Append(<<>>, recs[i].event)
    BY <1>3, <1>4, ChainLinks, Zenon
  <2> QED BY <1>3, <1>4, <2>1
<1>5. CASE i # 1
  <2>1. i - 1 \in 1 .. Len(recs) /\ recs[i].hash = Append(recs[i - 1].hash, recs[i].event)
    BY <1>3, <1>5, ChainLinks, Zenon
  <2>2. i - 1 \notin bad
    BY <1>1, <1>2, <1>3
  <2>3. Len(recs[i - 1].hash) = i - 1 /\ recs[i - 1].hash \in Seq(Events)
    BY <2>1, <2>2, RecordForms, Zenon DEF Hashes
  <2>4. Len(recs[i].hash) = i - 1 + 1
    BY <1>3, <2>1, <2>3
  <2> QED BY <1>1, <1>3, <2>4
<1> QED BY <1>4, <1>5, Zenon

LEMMA TipLength ==
    ASSUME LeastMembers, NEW recs \in Recs, Verify(recs)
    PROVE  Len(Tip(recs)) = Len(recs)
<1>1. CASE Len(recs) = 0
  <2>1. Len(<<>>) = 0
    OBVIOUS
  <2> QED BY <1>1, <2>1, TipForms, Zenon
<1>2. CASE Len(recs) # 0
  BY <1>2, TipForms, ChainLengths, Zenon
<1> QED BY <1>1, <1>2, Zenon

\* Every hash on a chain is a beginning of its tip.
LEMMA ChainBegins ==
    ASSUME LeastMembers, NEW recs \in Recs, Verify(recs), NEW i \in 1 .. Len(recs)
    PROVE  Begins(recs[i].hash, Tip(recs))
<1> DEFINE bad == {j \in i .. Len(recs) : ~Begins(recs[i].hash, recs[j].hash)}
<1>1. Len(recs) \in Nat /\ i \in Nat /\ i >= 1 /\ i <= Len(recs) /\ recs[i].hash \in Hashes
  <2>1. Len(recs) \in Nat
    BY RecordForms, Zenon
  <2> QED BY <2>1, RecordForms
<1>2. bad = {}
  <2> SUFFICES ASSUME bad # {} PROVE FALSE
    BY Zenon
  <2>1. PICK j \in bad : \A k \in bad : j <= k
    <3>1. bad \in SUBSET Nat
      BY <1>1
    <3> HIDE DEF bad
    <3> QED BY <3>1, Zenon DEF LeastMembers
  <2>2. j \in i .. Len(recs) /\ ~Begins(recs[i].hash, recs[j].hash)
    BY Zenon
  <2>3. j # i
    BY <1>1, <2>2, PrefixSelf, Zenon
  <2>4. j \in 1 .. Len(recs) /\ j # 1 /\ j - 1 \in i .. Len(recs) /\ ~(j <= j - 1)
    BY <1>1, <2>2, <2>3
  <2>5. Begins(recs[i].hash, recs[j - 1].hash)
    BY <2>1, <2>4, Zenon
  <2>6. recs[j].hash = Append(recs[j - 1].hash, recs[j].event) /\ j - 1 \in 1 .. Len(recs)
    BY <2>4, ChainLinks, Zenon
  <2>7. recs[j - 1].hash \in Hashes /\ recs[j].event \in Events
    BY <2>4, <2>6, RecordForms, Zenon
  <2> QED BY <1>1, <2>2, <2>5, <2>6, <2>7, PrefixGrows, Zenon
<1>3. Len(recs) \in i .. Len(recs) /\ Len(recs) # 0
  BY <1>1
<1>4. Begins(recs[i].hash, recs[Len(recs)].hash)
  BY <1>2, <1>3, Zenon
<1> QED BY <1>3, <1>4, TipForms, Zenon

\* A handle whose head is on the chain adds the next record, or none (File.Append).
LEMMA AppendChain ==
    ASSUME LeastMembers, NEW recs \in Recs, Verify(recs), NEW head \in Hashes,
           Begins(head, Tip(recs)), NEW e \in Events,
           NEW new, new = AppendRecord(recs, head, e), new # None
    PROVE  /\ head = Tip(recs) /\ Len(recs) = Len(head)
           /\ new \in Recs /\ Verify(new)
           /\ Tip(new) = Append(head, e) /\ Tip(new) \in Hashes
<1>1. Len(recs) = Len(head) /\ new = Append(recs, [event |-> e, hash |-> Append(head, e)])
  BY Zenon DEF AppendRecord, Hash
<1>2. Len(recs) \in Nat /\ Tip(recs) \in Hashes
  BY RecordForms, TipForms, Zenon
<1>3. head = Tip(recs)
  <2>1. Len(Tip(recs)) = Len(recs)
    BY TipLength, Zenon
  <2>2. Len(Tip(recs)) <= Len(head)
    BY <1>1, <1>2, <2>1
  <2> QED BY <1>2, <2>2, PrefixWhole, Zenon
<1> DEFINE r == [event |-> e, hash |-> Append(head, e)]
           n == Len(recs) + 1
<1>4. r \in Rec /\ r.hash = Append(head, e) /\ r.event = e
  BY DEF Hashes, Rec
<1>5. /\ new \in Recs /\ Len(new) = n /\ new[n] = r /\ n \in Nat /\ n # 0
      /\ \A i \in 1 .. Len(recs) : new[i] = recs[i]
  <2>1. new = Append(recs, r)
    BY <1>1, Zenon
  <2> HIDE DEF r
  <2>2. /\ Append(recs, r) \in Seq(Rec) /\ Len(Append(recs, r)) = Len(recs) + 1
        /\ Append(recs, r)[Len(recs) + 1] = r
        /\ \A i \in 1 .. Len(recs) : Append(recs, r)[i] = recs[i]
    BY <1>4 DEF Recs
  <2>3. n \in Nat /\ n # 0
    BY <1>2
  <2> QED BY <2>1, <2>2, <2>3, Zenon DEF Recs
<1> HIDE DEF r
<1>6. Tip(new) = Append(head, e) /\ Tip(new) \in Hashes
  BY <1>4, <1>5, TipForms, Zenon
<1>7. ASSUME NEW i \in DOMAIN new
      PROVE  new[i].hash = Hash(IF i = 1 THEN <<>> ELSE new[i - 1].hash, new[i].event)
  <2>1. i \in 1 .. n
    BY <1>5, RecordForms, Zenon
  <2>2. CASE i = n
    <3>1. IF i = 1 THEN Len(recs) = 0 ELSE i - 1 \in 1 .. Len(recs) /\ i - 1 = Len(recs)
      BY <1>2, <2>1, <2>2
    <3>2. (IF i = 1 THEN <<>> ELSE new[i - 1].hash) = head
      <4>1. CASE i = 1
        BY <1>3, <3>1, <4>1, TipForms, Zenon
      <4>2. CASE i # 1
        <5>1. i - 1 \in 1 .. Len(recs) /\ i - 1 = Len(recs) /\ Len(recs) # 0
          BY <1>2, <3>1, <4>2
        <5>2. new[i - 1] = recs[Len(recs)]
          BY <1>5, <5>1, Zenon
        <5> QED BY <1>3, <4>2, <5>1, <5>2, TipForms, Zenon
      <4> QED BY <4>1, <4>2, Zenon
    <3> QED BY <1>4, <1>5, <2>2, <3>2, Zenon DEF Hash
  <2>3. CASE i # n
    <3>1. i \in 1 .. Len(recs)
      BY <1>2, <2>1, <2>3
    <3>2. new[i] = recs[i] /\ (i # 1 => new[i - 1] = recs[i - 1])
      BY <1>5, <3>1, ChainLinks, Zenon
    <3> QED BY <3>1, <3>2, ChainLinks, Zenon DEF Hash
  <2> QED BY <2>2, <2>3, Zenon
<1> QED BY <1>1, <1>3, <1>5, <1>6, <1>7, Zenon DEF Verify
-----------------------------------------------------------------------------
(* What a standby ingests.                                                  *)

\* A batch is taken one record after the other.
Taken(g, recs, head, batch) ==
    /\ g[0] = [recs |-> recs, head |-> head, ok |-> TRUE]
    /\ \A k \in 1 .. Len(batch) : g[k] = IngestOne(g[k - 1], batch[k])
    /\ Ingest(recs, head, batch) = g[Len(batch)]

LEMMA IngestForms ==
    ASSUME LeastMembers, NEW recs, NEW head, NEW batch \in Recs
    PROVE  \E g : Taken(g, recs, head, batch)
<1> DEFINE base == [recs |-> recs, head |-> head, ok |-> TRUE]
           Good(f, n) == f = [k \in 0 .. n |->
                                IF k = 0 THEN base ELSE IngestOne(f[k - 1], batch[k])]
           bad == {n \in Nat : ~ \E f : Good(f, n)}
<1>1. Good([k \in {0} |-> base], 0)
  <2>1. 0 .. 0 = {0}
    OBVIOUS
  <2> QED BY <2>1, Zenon
<1>2. ASSUME NEW n \in Nat, NEW f, Good(f, n) PROVE \E g : Good(g, n + 1)
  <2> DEFINE g == [k \in 0 .. n + 1 |-> IF k = n + 1 THEN IngestOne(f[n], batch[n + 1]) ELSE f[k]]
  <2>1. /\ n \in 0 .. n + 1 /\ n # n + 1 /\ n + 1 # 0 /\ n + 1 - 1 = n
        /\ n + 1 \in 0 .. n + 1
    OBVIOUS
  <2>2. ASSUME NEW k \in 0 .. n + 1
        PROVE  g[k] = IF k = 0 THEN base ELSE IngestOne(g[k - 1], batch[k])
    <3>1. CASE k = n + 1
      <4>1. g[n + 1] = IngestOne(f[n], batch[n + 1]) /\ g[n] = f[n]
        BY <2>1, Zenon
      <4>2. k # 0 /\ k - 1 = n
        BY <2>1, <3>1
      <4> HIDE DEF g
      <4> QED BY <3>1, <4>1, <4>2, Zenon
    <3>2. CASE k # n + 1
      <4>1. k \in 0 .. n /\ (k # 0 => k - 1 \in 0 .. n + 1 /\ k - 1 # n + 1)
        BY <3>2
      <4>2. f[k] = IF k = 0 THEN base ELSE IngestOne(f[k - 1], batch[k])
        BY <1>2, <4>1, Zenon
      <4> QED BY <3>2, <4>1, <4>2, Zenon
    <3> QED BY <3>1, <3>2, Zenon
  <2>3. Good(g, n + 1)
    BY <2>2, Zenon
  <2> QED BY <2>3, Zenon
<1>3. bad = {}
  <2> SUFFICES ASSUME bad # {} PROVE FALSE
    BY Zenon
  <2>1. PICK n \in bad : \A m \in bad : n <= m
    <3>1. bad \in SUBSET Nat
      BY Zenon
    <3> HIDE DEF bad
    <3> QED BY <3>1, Zenon DEF LeastMembers
  <2>2. n \in Nat /\ n # 0
    BY <1>1, Zenon
  <2>3. n - 1 \in Nat /\ ~(n <= n - 1) /\ n - 1 + 1 = n
    BY <2>2
  <2>4. PICK f : Good(f, n - 1)
    BY <2>1, <2>3, Zenon
  <2>5. \E g : Good(g, n)
    BY <1>2, <2>3, <2>4
  <2> QED BY <2>2, <2>5, Zenon
<1>4. Len(batch) \in Nat
  BY RecordForms, Zenon
<1> DEFINE all == Len(batch)
           F == CHOOSE f : Good(f, all)
<1>5. Good(F, all)
  <2>1. \E f : Good(f, all)
    BY <1>3, <1>4, Zenon
  <2> HIDE DEF Good
  <2> QED BY <2>1, Zenon
<1>6. Ingest(recs, head, batch) = F[all]
  BY Zenon DEF Ingest
<1> HIDE DEF F
<1>7. F[0] = base
  <2>1. 0 \in 0 .. all
    BY <1>4
  <2> QED BY <1>5, <2>1, Zenon
<1>8. ASSUME NEW k \in 1 .. all PROVE F[k] = IngestOne(F[k - 1], batch[k])
  <2>1. k \in 0 .. all /\ k # 0
    BY <1>4
  <2> QED BY <1>5, <2>1, Zenon
<1> QED BY <1>6, <1>7, <1>8, Zenon DEF Taken

\* What holds of the file before the batch, and after each record if it held before
\* it, holds after the batch.
LEMMA IngestInduction ==
    ASSUME LeastMembers, NEW recs, NEW head, NEW batch \in Recs, NEW G,
           [recs |-> recs, head |-> head, ok |-> TRUE] \in G[0],
           \A k \in 1 .. Len(batch) : \A f \in G[k - 1] : IngestOne(f, batch[k]) \in G[k]
    PROVE  Ingest(recs, head, batch) \in G[Len(batch)]
<1>1. PICK g : Taken(g, recs, head, batch)
  BY IngestForms, Zenon
<1> DEFINE bad == {k \in 0 .. Len(batch) : g[k] \notin G[k]}
<1>2. Len(batch) \in Nat
  BY RecordForms, Zenon
<1>3. bad = {}
  <2> SUFFICES ASSUME bad # {} PROVE FALSE
    BY Zenon
  <2>1. PICK k \in bad : \A m \in bad : k <= m
    <3>1. bad \in SUBSET Nat
      BY <1>2
    <3> HIDE DEF bad
    <3> QED BY <3>1, Zenon DEF LeastMembers
  <2>2. k \in 0 .. Len(batch) /\ k # 0 /\ g[k] \notin G[k]
    BY <1>1, Zenon DEF Taken
  <2>3. k \in 1 .. Len(batch) /\ k - 1 \in 0 .. Len(batch) /\ ~(k <= k - 1)
    BY <1>2, <2>2
  <2>4. g[k - 1] \in G[k - 1]
    BY <2>1, <2>3, Zenon
  <2> QED BY <1>1, <2>2, <2>3, <2>4, Zenon DEF Taken
<1>4. Len(batch) \in 0 .. Len(batch)
  BY <1>2
<1> QED BY <1>1, <1>3, <1>4, Zenon DEF Taken
Files == [recs : Recs, head : Hashes, ok : BOOLEAN]

\* A file on whose chain a handle's head is.
Sound(f) == Verify(f.recs) /\ Begins(f.head, Tip(f.recs))

Continues(f, g) == g \in Files /\ Sound(g) /\ Begins(Tip(f.recs), Tip(g.recs))

\* What a standby takes of a record leaves its log a chain that continues the one it had.
LEMMA IngestOneSound ==
    ASSUME LeastMembers, NEW f \in Files, Sound(f),
           NEW record, record.event \in Events
    PROVE  Continues(f, IngestOne(f, record))
<1> DEFINE g == IngestOne(f, record)
           new == AppendRecord(f.recs, f.head, record.event)
<1>1. /\ f.recs \in Recs /\ f.head \in Hashes /\ f.ok \in BOOLEAN /\ Tip(f.recs) \in Hashes
      /\ f = [recs |-> f.recs, head |-> f.head, ok |-> f.ok]
  BY TipForms DEF Files
<1>2. Begins(Tip(f.recs), Tip(f.recs))
  BY <1>1, PrefixSelf, Zenon
<1>3. ASSUME NEW b \in BOOLEAN PROVE Continues(f, [f EXCEPT !.ok = b])
  <2> DEFINE h == [f EXCEPT !.ok = b]
  <2>1. h = [recs |-> f.recs, head |-> f.head, ok |-> b]
    BY <1>1
  <2>2. h \in Files /\ h.recs = f.recs /\ h.head = f.head
    BY <1>1, <2>1 DEF Files
  <2> HIDE DEF h
  <2>3. Continues(f, h)
    BY <1>2, <2>2, Zenon DEF Sound, Continues
  <2> QED BY <2>3, Zenon DEF h
<1>4. CASE ~f.ok
  <2>1. g = f
    BY <1>4, Zenon DEF IngestOne
  <2> QED BY <1>2, <2>1, Zenon DEF Continues
<1>5. CASE f.ok /\ Len(record.hash) <= Len(f.head)
  <2>1. g = [f EXCEPT !.ok = ConfirmRecord(f.recs, record)]
    BY <1>5, Zenon DEF IngestOne
  <2>2. ConfirmRecord(f.recs, record) \in BOOLEAN
    BY Zenon DEF ConfirmRecord
  <2> QED BY <1>3, <2>1, <2>2
<1>6. CASE /\ f.ok /\ ~(Len(record.hash) <= Len(f.head))
           /\ new = None \/ Len(record.hash) # Len(f.head) + 1
  <2>1. g = [f EXCEPT !.ok = FALSE]
    BY <1>6, Zenon DEF IngestOne
  <2> QED BY <1>3, <2>1, Zenon
<1>7. CASE /\ f.ok /\ ~(Len(record.hash) <= Len(f.head))
           /\ ~(new = None \/ Len(record.hash) # Len(f.head) + 1)
  <2>1. g = [recs |-> new, head |-> Tip(new), ok |-> Tip(new) = record.hash]
    BY <1>7, Zenon DEF IngestOne
  <2>2. /\ f.head = Tip(f.recs) /\ new \in Recs /\ Verify(new)
        /\ Tip(new) = Append(f.head, record.event) /\ Tip(new) \in Hashes
    <3> HIDE DEF new
    <3>1. new # None /\ Begins(f.head, Tip(f.recs)) /\ Verify(f.recs)
      BY <1>7, Zenon DEF Sound
    <3> QED BY <1>1, <3>1, AppendChain DEF new
  <2> HIDE DEF g, new
  <2>3. Begins(Tip(f.recs), Tip(new)) /\ Begins(Tip(new), Tip(new))
    BY <1>1, <1>2, <2>2, PrefixGrows, PrefixSelf, Zenon
  <2>4. g \in Files /\ g.recs = new /\ g.head = Tip(new)
    BY <2>1, <2>2 DEF Files
  <2>5. Continues(f, g)
    BY <2>2, <2>3, <2>4, Zenon DEF Sound, Continues
  <2> QED BY <2>5, Zenon DEF g
<1> QED BY <1>1, <1>4, <1>5, <1>6, <1>7, Zenon

LEMMA IngestSound ==
    ASSUME LeastMembers, NEW recs \in Recs, Verify(recs), NEW head \in Hashes,
           Begins(head, Tip(recs)), NEW batch \in Recs
    PROVE  LET f == Ingest(recs, head, batch) IN
           f \in Files /\ Sound(f) /\ Begins(Tip(recs), Tip(f.recs))
<1> DEFINE good == {f \in Files : Sound(f) /\ Begins(Tip(recs), Tip(f.recs))}
           G == [k \in 0 .. Len(batch) |-> good]
           f0 == [recs |-> recs, head |-> head, ok |-> TRUE]
<1>1. Len(batch) \in Nat /\ Tip(recs) \in Hashes
  BY RecordForms, TipForms, Zenon
<1>2. f0 \in good
  <2>1. f0 \in Files /\ f0.recs = recs /\ f0.head = head
    BY DEF Files
  <2>2. Begins(Tip(recs), Tip(recs))
    BY <1>1, PrefixSelf, Zenon
  <2> HIDE DEF f0
  <2> QED BY <2>1, <2>2, Zenon DEF Sound
<1>3. ASSUME NEW k \in 1 .. Len(batch), NEW f \in good
      PROVE  IngestOne(f, batch[k]) \in good
  <2> DEFINE g == IngestOne(f, batch[k])
  <2>1. batch[k].event \in Events
    BY RecordForms, Zenon
  <2>2. g \in Files /\ Sound(g) /\ Begins(Tip(f.recs), Tip(g.recs))
    <3>1. Continues(f, g)
      BY <2>1, IngestOneSound, Zenon
    <3> HIDE DEF g
    <3> QED BY <3>1, Zenon DEF Continues
  <2> HIDE DEF g
  <2>3. f.recs \in Recs /\ g.recs \in Recs
    BY <2>2 DEF Files
  <2>4. Tip(f.recs) \in Hashes /\ Tip(g.recs) \in Hashes
    BY <2>3, TipForms, Zenon
  <2>5. Begins(Tip(recs), Tip(g.recs))
    BY <1>1, <2>2, <2>4, PrefixTransitive, Zenon
  <2>6. g \in good
    BY <2>2, <2>5, Zenon
  <2> QED BY <2>6, Zenon DEF g
<1> HIDE DEF good
<1>4. f0 \in G[0]
  <2>1. 0 \in 0 .. Len(batch)
    BY <1>1
  <2> QED BY <1>2, <2>1, Zenon
<1>5. ASSUME NEW k \in 1 .. Len(batch), NEW f \in G[k - 1]
      PROVE  IngestOne(f, batch[k]) \in G[k]
  <2>1. k \in 0 .. Len(batch) /\ k - 1 \in 0 .. Len(batch)
    BY <1>1
  <2>2. f \in good
    BY <2>1, Zenon
  <2> QED BY <1>3, <2>1, <2>2, Zenon
<1>6. Len(batch) \in 0 .. Len(batch)
  BY <1>1
<1>7. Ingest(recs, head, batch) \in G[Len(batch)]
  <2> HIDE DEF G
  <2> QED BY <1>4, <1>5, IngestInduction, Zenon
<1>8. Ingest(recs, head, batch) \in good
  BY <1>6, <1>7, Zenon
<1> QED BY <1>8, Zenon DEF good

\* The records that are sent are records.
LEMMA SentForms ==
    ASSUME NEW recs \in Recs, NEW after \in Nat, NEW n \in Nat
    PROVE  Sent(recs, after, n) \in Recs
<1>1. Len(recs) \in Nat
  BY RecordForms, Zenon
<1>2. CASE Len(recs) <= after
  BY <1>2 DEF Sent, Recs
<1>3. CASE ~(Len(recs) <= after)
  <2> DEFINE m == IF Len(recs) < after + n THEN Len(recs) ELSE after + n
  <2>1. Sent(recs, after, n) = SubSeq(recs, after + 1, m)
    BY <1>3, Zenon DEF Sent
  <2>2. m \in Nat /\ m <= Len(recs) /\ after + 1 >= 1
    BY <1>1
  <2> HIDE DEF m
  <2> QED BY <2>1, <2>2 DEF Recs
<1> QED BY <1>2, <1>3, Zenon
-----------------------------------------------------------------------------
(* Files, handles and the job.                                              *)

Handles == [role : {"down", "server", "standby", "closed"}, store : Stores \cup {None},
            head : Hashes, last : Hashes]
Jobs == [kind : {"read", "cleared", "written", "restore"}, store : Stores, records : Recs]

Typed ==
    /\ records \in [Stores -> Recs] /\ anchor \in SUBSET Hashes
    /\ proc \in [Procs -> Handles] /\ lived \in Hashes
    /\ made \in Nat
    /\ archive # None => archive \in Recs
    /\ job # None => job \in Jobs
    /\ practice \in Practices

Opened(s) == \E p \in Procs : proc[p].role # "down" /\ proc[p].store = s

Unspoilt(recs) == \A i \in DOMAIN recs : recs[i].event # 0

\* A store that is open, or has lost nothing, is a chain; so is what a restore is about
\* to install.
ChainsHold ==
    /\ \A s \in Stores : Opened(s) \/ Unspoilt(records[s]) => Verify(records[s])
    /\ Restoring(job.store) => Verify(job.records)

\* A handle's head is on the chain of its store, and no handle is open on a store that
\* is being restored.
HandlesHold ==
    /\ \A p \in Procs : proc[p].role = "down" => proc[p].head = <<>>
    /\ \A p \in Procs : proc[p].role # "down" =>
        /\ proc[p].store \in Stores /\ ~Restoring(proc[p].store)
        /\ Begins(proc[p].head, Tip(records[proc[p].store]))

RInv == Typed /\ ChainsHold /\ HandlesHold

\* The invariant says what OneChain says.
LEMMA RInvChain == RInv => OneChain
<1> SUFFICES ASSUME RInv, NEW s \in Stores, \A i \in DOMAIN records[s] : records[s][i].event # 0
             PROVE  /\ Verify(records[s])
                    /\ \A p \in Procs : proc[p].store = s => Begins(proc[p].head, Tip(records[s]))
  BY Zenon DEF OneChain
<1>1. Verify(records[s])
  BY Zenon DEF RInv, ChainsHold, Unspoilt
<1>2. Tip(records[s]) \in Hashes
  <2>1. records[s] \in Recs
    BY Zenon DEF RInv, Typed
  <2> QED BY <2>1, TipForms, Zenon
<1>3. ASSUME NEW p \in Procs, proc[p].store = s PROVE Begins(proc[p].head, Tip(records[s]))
  <2>1. CASE proc[p].role = "down"
    BY <1>2, <2>1, PrefixEmpty, Zenon DEF RInv, HandlesHold
  <2>2. CASE proc[p].role # "down"
    BY <1>3, <2>2, Zenon DEF RInv, HandlesHold
  <2> QED BY <2>1, <2>2, Zenon
<1> QED BY <1>1, <1>3, Zenon

LEMMA RInvInit == Init => RInv
<1> SUFFICES ASSUME Init PROVE RInv
  OBVIOUS
<1>1. Down \in Handles /\ Down.role = "down" /\ Down.head = <<>>
  BY DEF Down, Handles, Hashes
<1>2. <<>> \in Recs /\ <<>> \in Hashes /\ Verify(<<>>)
  BY DEF Recs, Hashes, Verify
<1>3. Typed
  BY <1>1, <1>2 DEF Init, Typed
<1>4. ASSUME NEW s \in Stores PROVE Verify(records[s])
  BY <1>2, Zenon DEF Init
<1>5. ~Restoring(job.store)
  BY Zenon DEF Init, Restoring
<1>6. ASSUME NEW p \in Procs PROVE proc[p].role = "down" /\ proc[p].head = <<>>
  BY <1>1, Zenon DEF Init
<1> QED BY <1>3, <1>4, <1>5, <1>6, Zenon DEF RInv, ChainsHold, HandlesHold

\* A process opens a store, or holds it and adds to its chain.
Touches(p, s, recs, handle) ==
    /\ records' = [records EXCEPT ![s] = recs] /\ proc' = [proc EXCEPT ![p] = handle]
    /\ job' = job
    /\ s \in Stores /\ ~Restoring(s)
    /\ recs \in Recs /\ Verify(recs) /\ Begins(Tip(records[s]), Tip(recs))
    /\ handle \in Handles /\ handle.role # "down" /\ handle.store = s
    /\ Begins(handle.head, Tip(recs))

LEMMA TouchKeeps ==
    ASSUME RInv, NEW p \in Procs, NEW s, NEW recs, NEW handle, Touches(p, s, recs, handle)
    PROVE  ChainsHold' /\ HandlesHold'
<1>1. /\ records \in [Stores -> Recs] /\ proc \in [Procs -> Handles]
      /\ s \in Stores /\ ~Restoring(s) /\ recs \in Recs /\ Verify(recs)
      /\ Begins(Tip(records[s]), Tip(recs))
      /\ handle \in Handles /\ handle.role # "down" /\ handle.store = s
      /\ Begins(handle.head, Tip(recs))
  BY Zenon DEF RInv, Typed, Touches
<1>2. /\ records'[s] = recs /\ \A t \in Stores : t # s => records'[t] = records[t]
      /\ proc'[p] = handle /\ \A q \in Procs : q # p => proc'[q] = proc[q]
  BY <1>1, Zenon DEF Touches
<1>3. \A t : Restoring(t)' <=> Restoring(t)
  BY Zenon DEF Touches, Restoring
<1>4. job' = job
  BY Zenon DEF Touches
<1>5. ASSUME NEW t \in Stores, (Opened(t) \/ Unspoilt(records[t]))' PROVE Verify(records[t])'
  <2>1. CASE t = s
    BY <1>1, <1>2, <2>1, Zenon DEF Verify
  <2>2. CASE t # s
    <3>1. records'[t] = records[t]
      BY <1>2, <2>2, Zenon
    <3>2. Opened(t)' => Opened(t)
      BY <1>1, <1>2, <2>2, Zenon DEF Opened
    <3>3. Verify(records[t])
      BY <1>5, <3>1, <3>2, Zenon DEF RInv, ChainsHold, Unspoilt
    <3> QED BY <3>1, <3>3, Zenon DEF Verify
  <2> QED BY <2>1, <2>2, Zenon
<1>6. Restoring(job.store)' => Verify(job.records)'
  BY <1>3, <1>4, Zenon DEF RInv, ChainsHold, Verify
<1>7. ASSUME NEW q \in Procs
      PROVE  /\ proc'[q].role = "down" => proc'[q].head = <<>>
             /\ proc'[q].role # "down" =>
                  /\ proc'[q].store \in Stores /\ ~Restoring(proc'[q].store)
                  /\ Begins(proc'[q].head, Tip(records'[proc'[q].store]))
  <2>1. CASE q = p
    BY <1>1, <1>2, <2>1, Zenon
  <2>2. CASE q # p
    <3>1. proc'[q] = proc[q]
      BY <1>2, <2>2, Zenon
    <3>2. proc[q].role = "down" => proc[q].head = <<>>
      BY Zenon DEF RInv, HandlesHold
    <3>3. ASSUME proc[q].role # "down"
          PROVE  /\ proc[q].store \in Stores /\ ~Restoring(proc[q].store)
                 /\ Begins(proc[q].head, Tip(records'[proc[q].store]))
      <4>1. /\ proc[q].store \in Stores /\ ~Restoring(proc[q].store)
            /\ Begins(proc[q].head, Tip(records[proc[q].store]))
        BY <3>3, Zenon DEF RInv, HandlesHold
      <4>2. CASE proc[q].store = s
        <5>1. proc[q].head \in Hashes /\ Tip(records[s]) \in Hashes /\ Tip(recs) \in Hashes
          <6>1. records[s] \in Recs
            BY <1>1, Zenon
          <6>2. proc[q].head \in Hashes
            BY <1>1 DEF Handles
          <6> QED BY <1>1, <6>1, <6>2, TipForms, Zenon
        <5>2. Begins(proc[q].head, Tip(recs))
          BY <1>1, <4>1, <4>2, <5>1, PrefixTransitive, Zenon
        <5> QED BY <1>2, <4>1, <4>2, <5>2, Zenon
      <4>3. CASE proc[q].store # s
        BY <1>2, <4>1, <4>3, Zenon
      <4> QED BY <4>2, <4>3, Zenon
    <3> QED BY <3>1, <3>2, <3>3, Zenon
  <2> QED BY <2>1, <2>2, Zenon
<1>8. ChainsHold'
  BY <1>5, <1>6, Zenon DEF ChainsHold
<1>9. HandlesHold'
  BY <1>3, <1>7, Zenon DEF HandlesHold, Tip
<1> QED BY <1>8, <1>9, Zenon
LEMMA TouchPreserves ==
    ASSUME RInv, NEW p \in Procs, NEW s, NEW recs, NEW handle, Touches(p, s, recs, handle),
           anchor' \in SUBSET Hashes, lived' \in Hashes, made' \in Nat, UNCHANGED saved
    PROVE  RInv'
<1>1. /\ records \in [Stores -> Recs] /\ proc \in [Procs -> Handles]
      /\ s \in Stores /\ recs \in Recs /\ handle \in Handles
      /\ records' = [records EXCEPT ![s] = recs] /\ proc' = [proc EXCEPT ![p] = handle]
  BY Zenon DEF RInv, Typed, Touches
<1>2. records' \in [Stores -> Recs] /\ proc' \in [Procs -> Handles]
  BY <1>1, Zenon
<1>3. archive' = archive /\ job' = job /\ practice' = practice
  BY Zenon DEF saved
<1>4. Typed'
  BY <1>2, <1>3, Zenon DEF RInv, Typed
<1> QED BY <1>4, TouchKeeps, Zenon DEF RInv

\* A process that holds a store holds a chain.
LEMMA HeldChain ==
    ASSUME RInv, NEW p \in Procs, proc[p].role # "down"
    PROVE  /\ proc[p].store \in Stores /\ ~Restoring(proc[p].store)
           /\ records[proc[p].store] \in Recs /\ Verify(records[proc[p].store])
           /\ proc[p].head \in Hashes /\ proc[p].last \in Hashes
           /\ Begins(proc[p].head, Tip(records[proc[p].store]))
           /\ Tip(records[proc[p].store]) \in Hashes
<1>1. /\ proc[p].store \in Stores /\ ~Restoring(proc[p].store)
      /\ Begins(proc[p].head, Tip(records[proc[p].store]))
  BY Zenon DEF RInv, HandlesHold
<1>2. Verify(records[proc[p].store])
  BY <1>1, Zenon DEF RInv, ChainsHold, Opened
<1>3. records[proc[p].store] \in Recs /\ proc[p] \in Handles
  BY <1>1, Zenon DEF RInv, Typed
<1>4. proc[p].head \in Hashes /\ proc[p].last \in Hashes
  BY <1>3 DEF Handles
<1> QED BY <1>1, <1>2, <1>3, <1>4, TipForms, Zenon

\* The records of a store that a process opens or holds stay as they are.
LEMMA SameRecords ==
    ASSUME RInv, NEW s \in Stores
    PROVE  /\ records[s] \in Recs /\ Tip(records[s]) \in Hashes
           /\ Begins(Tip(records[s]), Tip(records[s]))
           /\ records = [records EXCEPT ![s] = records[s]]
<1>1. records \in [Stores -> Recs]
  BY Zenon DEF RInv, Typed
<1>2. records[s] \in Recs /\ records = [records EXCEPT ![s] = records[s]]
  BY <1>1, Zenon
<1>3. Tip(records[s]) \in Hashes
  BY <1>2, TipForms, Zenon
<1> QED BY <1>2, <1>3, PrefixSelf, Zenon

LEMMA ServePreserves ==
    ASSUME RInv, NEW p \in Procs, NEW s \in Stores, NEW last \in OpenAnchor,
           Serve(p, s, last), Verify(records[s]), ~Restoring(s),
           UNCHANGED <<records, made, stops, saved>>
    PROVE  RInv'
<1> DEFINE head == Tip(records[s])
           handle == [role |-> "server", store |-> s, head |-> head,
                      last |-> Witnessed(last, head)]
<1>1. /\ records[s] \in Recs /\ head \in Hashes /\ Begins(head, head)
      /\ records = [records EXCEPT ![s] = records[s]]
  BY SameRecords, Zenon
<1>2. last \in Hashes /\ anchor \in SUBSET Hashes /\ made \in Nat
  <2>1. <<>> \in Hashes /\ anchor \in SUBSET Hashes /\ made \in Nat
    BY <1>1, PrefixEmpty, Zenon DEF RInv, Typed
  <2> QED BY <2>1, Zenon DEF OpenAnchor
<1>3. /\ Witness(last, head) /\ proc' = [proc EXCEPT ![p] = handle] /\ lived' = head
      /\ records' = records /\ made' = made /\ UNCHANGED saved /\ job' = job
  BY Zenon DEF Serve, saved
<1>4. Witnessed(last, head) \in Hashes /\ anchor' \in SUBSET Hashes
  <2> HIDE DEF head
  <2> QED BY <1>1, <1>2, <1>3, Zenon DEF Witnessed, Witness
<1>5. handle \in Handles /\ handle.role = "server" /\ handle.store = s /\ handle.head = head
  <2> HIDE DEF head
  <2> QED BY <1>1, <1>4 DEF Handles
<1> HIDE DEF handle
<1>6. Touches(p, s, records[s], handle)
  BY <1>1, <1>3, <1>5, Zenon DEF Touches
<1> QED BY <1>1, <1>2, <1>3, <1>4, <1>6, TouchPreserves, Zenon

LEMMA StartPreserves ==
    ASSUME RInv, NEW p \in Procs, NEW s \in Stores, Start(p, s)
    PROVE  RInv'
<1>1. PICK last \in OpenAnchor : Serve(p, s, last)
  BY Zenon DEF Start
<1>2. Verify(records[s]) /\ ~Restoring(s) /\ UNCHANGED <<records, made, stops, saved>>
  BY Zenon DEF Start
<1> QED BY <1>1, <1>2, ServePreserves, Zenon

LEMMA OpenStandbyPreserves ==
    ASSUME RInv, NEW p \in Procs, NEW s \in Stores, OpenStandby(p, s)
    PROVE  RInv'
<1>1. PICK last \in OpenAnchor :
        proc' = [proc EXCEPT ![p] = [role |-> "standby", store |-> s,
                                     head |-> Tip(records[s]), last |-> last]]
  BY Zenon DEF OpenStandby
<1> DEFINE head == Tip(records[s])
           handle == [role |-> "standby", store |-> s, head |-> head, last |-> last]
<1>2. /\ records[s] \in Recs /\ head \in Hashes /\ Begins(head, head)
      /\ records = [records EXCEPT ![s] = records[s]]
  BY SameRecords, Zenon
<1>3. last \in Hashes /\ anchor \in SUBSET Hashes /\ made \in Nat /\ lived \in Hashes
  <2>1. <<>> \in Hashes /\ anchor \in SUBSET Hashes /\ made \in Nat /\ lived \in Hashes
    BY <1>2, PrefixEmpty, Zenon DEF RInv, Typed
  <2> QED BY <2>1, Zenon DEF OpenAnchor
<1>4. /\ Verify(records[s]) /\ ~Restoring(s) /\ records' = records /\ anchor' = anchor
      /\ lived' = lived /\ made' = made /\ UNCHANGED saved /\ job' = job
  BY Zenon DEF OpenStandby, saved
<1>5. handle \in Handles /\ handle.role = "standby" /\ handle.store = s /\ handle.head = head
  <2> HIDE DEF head
  <2> QED BY <1>2, <1>3 DEF Handles
<1>6. proc' = [proc EXCEPT ![p] = handle]
  BY <1>1, Zenon
<1> HIDE DEF handle
<1>7. Touches(p, s, records[s], handle)
  BY <1>2, <1>4, <1>5, <1>6, Zenon DEF Touches
<1> QED BY <1>2, <1>3, <1>4, <1>7, TouchPreserves, Zenon
\* What changes in a handle.
Handle(role, s, head, last) == [role |-> role, store |-> s, head |-> head, last |-> last]

LEMMA HandleForms ==
    ASSUME NEW h \in Handles, NEW x
    PROVE  /\ [h EXCEPT !.head = x] = Handle(h.role, h.store, x, h.last)
           /\ [h EXCEPT !.last = x] = Handle(h.role, h.store, h.head, x)
           /\ [h EXCEPT !.role = x] = Handle(x, h.store, h.head, h.last)
<1>1. h = [role |-> h.role, store |-> h.store, head |-> h.head, last |-> h.last]
  BY DEF Handles
<1>2. [h EXCEPT !.head = x] = [role |-> h.role, store |-> h.store, head |-> x, last |-> h.last]
  BY <1>1
<1>3. [h EXCEPT !.last = x] = [role |-> h.role, store |-> h.store, head |-> h.head, last |-> x]
  BY <1>1
<1>4. [h EXCEPT !.role = x] = [role |-> x, store |-> h.store, head |-> h.head, last |-> h.last]
  BY <1>1
<1> QED BY <1>2, <1>3, <1>4, Zenon DEF Handle

LEMMA HandleFields ==
    ASSUME NEW h \in Handles, NEW x, NEW y
    PROVE  [h EXCEPT !.head = x, !.last = y] = Handle(h.role, h.store, x, y)
<1> DEFINE g == [h EXCEPT !.head = x]
<1>1. g = Handle(h.role, h.store, x, h.last)
  BY HandleForms, Zenon
<1>2. [g EXCEPT !.last = y] = Handle(h.role, h.store, x, y)
  <2> HIDE DEF g
  <2> QED BY <1>1 DEF Handle
<1>3. [h EXCEPT !.head = x, !.last = y] = [g EXCEPT !.last = y]
  OBVIOUS
<1> HIDE DEF g
<1> QED BY <1>2, <1>3, Zenon

LEMMA HandleTyped ==
    ASSUME NEW s \in Stores, NEW head \in Hashes, NEW last \in Hashes,
           NEW role \in {"down", "server", "standby", "closed"}
    PROVE  /\ Handle(role, s, head, last) \in Handles
           /\ Handle(role, s, head, last).role = role
           /\ Handle(role, s, head, last).store = s
           /\ Handle(role, s, head, last).head = head
           /\ Handle(role, s, head, last).last = last
  BY DEF Handles, Handle

\* What a server may append to its store.
LEMMA AppendForms ==
    ASSUME LeastMembers, RInv, NEW p \in Procs, proc[p].role = "server", MayRecord,
           NEW recs, recs = AppendRecord(records[proc[p].store], proc[p].head, made + 1),
           recs # None
    PROVE  /\ recs \in Recs /\ Verify(recs) /\ Tip(recs) \in Hashes /\ made + 1 \in Events
           /\ proc[p].head = Tip(records[proc[p].store])
           /\ Tip(recs) = Append(Tip(records[proc[p].store]), made + 1)
           /\ Begins(Tip(records[proc[p].store]), Tip(recs))
<1> DEFINE s == proc[p].store
<1>1. /\ records[s] \in Recs /\ Verify(records[s]) /\ Tip(records[s]) \in Hashes
      /\ proc[p].head \in Hashes /\ Begins(proc[p].head, Tip(records[s]))
  <2>1. proc[p].role # "down"
    BY Zenon
  <2> QED BY <2>1, HeldChain, Zenon
<1>2. made + 1 \in Events
  <2>1. made \in Nat /\ made < MaxEvents /\ MaxEvents \in Nat
    BY ReplicationAssumption DEF RInv, Typed, MayRecord
  <2> QED BY <2>1 DEF Events
<1>3. /\ proc[p].head = Tip(records[s]) /\ recs \in Recs /\ Verify(recs)
      /\ Tip(recs) = Append(proc[p].head, made + 1) /\ Tip(recs) \in Hashes
  <2> HIDE DEF s
  <2>1. recs = AppendRecord(records[s], proc[p].head, made + 1)
    BY Zenon DEF s
  <2> QED BY <1>1, <1>2, <2>1, AppendChain
<1>4. Begins(Tip(records[s]), Tip(recs))
  <2>1. Begins(Tip(records[s]), Tip(records[s]))
    BY <1>1, PrefixSelf, Zenon
  <2> QED BY <1>1, <1>2, <1>3, <2>1, PrefixGrows, Zenon
<1> QED BY <1>2, <1>3, <1>4, Zenon

\* A process that holds a store changes its handle, and perhaps adds to the store.
LEMMA HolderTouches ==
    ASSUME RInv, NEW p \in Procs, proc[p].role # "down", NEW recs \in Recs, Verify(recs),
           Begins(Tip(records[proc[p].store]), Tip(recs)),
           NEW role \in {"server", "standby", "closed"}, NEW head \in Hashes,
           Begins(head, Tip(recs)), NEW last \in Hashes,
           records' = [records EXCEPT ![proc[p].store] = recs],
           proc' = [proc EXCEPT ![p] = Handle(role, proc[p].store, head, last)],
           job' = job
    PROVE  Touches(p, proc[p].store, recs, Handle(role, proc[p].store, head, last))
<1> DEFINE s == proc[p].store
           handle == Handle(role, s, head, last)
<1>1. s \in Stores /\ ~Restoring(s)
  BY HeldChain, Zenon
<1>2. handle \in Handles /\ handle.role = role /\ handle.store = s /\ handle.head = head
  <2>1. role \in {"down", "server", "standby", "closed"}
    BY Zenon
  <2> QED BY <1>1, <2>1, HandleTyped
<1>3. handle.role # "down"
  BY <1>2
<1> HIDE DEF handle
<1>4. proc' = [proc EXCEPT ![p] = handle]
  BY Zenon DEF handle
<1>5. Touches(p, s, recs, handle)
  BY <1>1, <1>2, <1>3, <1>4, Zenon DEF Touches
<1> QED BY <1>5, Zenon DEF handle

LEMMA RecordPreserves ==
    ASSUME LeastMembers, RInv, NEW p \in Procs, Record(p)
    PROVE  RInv'
<1> DEFINE s == proc[p].store
           recs == AppendRecord(records[s], proc[p].head, made + 1)
           handle == Handle("server", s, Tip(recs), proc[p].last)
<1>1. /\ proc[p].role = "server" /\ MayRecord /\ recs # None
      /\ records' = [records EXCEPT ![s] = recs]
      /\ proc' = [proc EXCEPT ![p].head = Tip(recs)] /\ lived' = Tip(recs)
      /\ made' = made + 1 /\ anchor' = anchor /\ UNCHANGED saved /\ job' = job
  BY Zenon DEF Record, saved
<1>2. proc[p].role # "down"
  BY <1>1, Zenon
<1>3. /\ proc[p] \in Handles /\ proc[p].last \in Hashes /\ made \in Nat
      /\ anchor \in SUBSET Hashes
  BY <1>2, HeldChain, Zenon DEF RInv, Typed
<1>4. /\ recs \in Recs /\ Verify(recs) /\ Tip(recs) \in Hashes
      /\ Begins(Tip(records[s]), Tip(recs))
  BY <1>1, AppendForms, Zenon
<1> HIDE DEF recs
<1>5. proc' = [proc EXCEPT ![p] = handle]
  <2> DEFINE tip == Tip(recs)
  <2> HIDE DEF tip
  <2>1. [proc[p] EXCEPT !.head = tip] = Handle(proc[p].role, proc[p].store, tip, proc[p].last)
    BY <1>3, HandleForms
  <2> QED BY <1>1, <2>1, Zenon DEF tip
<1>6. Touches(p, s, recs, handle)
  BY <1>1, <1>2, <1>3, <1>4, <1>5, PrefixSelf, HolderTouches, Zenon
<1>7. made' \in Nat
  BY <1>1, <1>3
<1> HIDE DEF handle, s
<1> QED BY <1>1, <1>3, <1>4, <1>6, <1>7, TouchPreserves, Zenon

LEMMA DecidePreserves ==
    ASSUME LeastMembers, RInv, NEW p \in Procs, Decide(p)
    PROVE  RInv'
<1> DEFINE s == proc[p].store
           recs == AppendRecord(records[s], proc[p].head, made + 1)
           tip == Tip(recs)
           last == Witnessed(proc[p].last, tip)
           handle == Handle("server", s, tip, last)
<1>1. /\ proc[p].role = "server" /\ MayRecord /\ recs # None
      /\ records' = [records EXCEPT ![s] = recs] /\ Witness(proc[p].last, tip)
      /\ proc' = [proc EXCEPT ![p].head = tip, ![p].last = Witnessed(@, tip)]
      /\ lived' = tip /\ made' = made + 1 /\ UNCHANGED saved /\ job' = job
  BY Zenon DEF Decide, saved
<1>2. proc[p].role # "down"
  BY <1>1, Zenon
<1>3. /\ proc[p] \in Handles /\ proc[p].last \in Hashes /\ made \in Nat
      /\ anchor \in SUBSET Hashes /\ proc \in [Procs -> Handles]
  BY <1>2, HeldChain, Zenon DEF RInv, Typed
<1>4. recs \in Recs /\ Verify(recs) /\ tip \in Hashes /\ Begins(Tip(records[s]), tip)
  BY <1>1, AppendForms, Zenon
<1> HIDE DEF recs, tip
<1>5. last \in Hashes /\ anchor' \in SUBSET Hashes
  BY <1>1, <1>3, <1>4, Zenon DEF Witnessed, Witness
<1>6. proc' = [proc EXCEPT ![p] = handle]
  <2> HIDE DEF last
  <2>1. proc' = [proc EXCEPT ![p] = [proc[p] EXCEPT !.head = tip, !.last = last]]
    BY <1>1, <1>3, Zenon DEF Handles, last
  <2>2. [proc[p] EXCEPT !.head = tip, !.last = last] = Handle(proc[p].role, proc[p].store, tip, last)
    BY <1>3, HandleFields, Zenon
  <2> QED BY <1>1, <2>1, <2>2, Zenon
<1> HIDE DEF last
<1>7. Touches(p, s, recs, handle)
  BY <1>1, <1>2, <1>4, <1>5, <1>6, PrefixSelf, HolderTouches, Zenon DEF tip
<1>8. made' \in Nat
  BY <1>1, <1>3
<1> HIDE DEF handle, s
<1> QED BY <1>1, <1>4, <1>5, <1>7, <1>8, TouchPreserves, Zenon

LEMMA EndRunPreserves ==
    ASSUME RInv, NEW p \in Procs, EndRun(p)
    PROVE  RInv'
<1> DEFINE s == proc[p].store
           head == proc[p].head
           handle == Handle("server", s, head, head)
<1>1. /\ proc[p].role = "server" /\ Witness(proc[p].last, head)
      /\ proc' = [proc EXCEPT ![p].last = head]
      /\ records' = records /\ lived' = lived /\ made' = made /\ UNCHANGED saved /\ job' = job
  BY Zenon DEF EndRun, saved
<1>2. proc[p].role # "down"
  BY <1>1, Zenon
<1>3. s \in Stores /\ Verify(records[s]) /\ head \in Hashes /\ Begins(head, Tip(records[s]))
  BY <1>2, HeldChain, Zenon
<1>4. /\ records[s] \in Recs /\ Begins(Tip(records[s]), Tip(records[s]))
      /\ records' = [records EXCEPT ![s] = records[s]]
  BY <1>1, <1>3, SameRecords, Zenon
<1>5. /\ proc[p] \in Handles /\ made \in Nat /\ lived \in Hashes /\ anchor \in SUBSET Hashes
  BY Zenon DEF RInv, Typed
<1>6. proc' = [proc EXCEPT ![p] = handle]
  <2>1. [proc[p] EXCEPT !.last = head] = Handle(proc[p].role, proc[p].store, proc[p].head, head)
    BY <1>5, HandleForms
  <2> QED BY <1>1, <2>1, Zenon
<1>7. Touches(p, s, records[s], handle)
  BY <1>1, <1>2, <1>3, <1>4, <1>6, HolderTouches, Zenon
<1>8. anchor' \in SUBSET Hashes
  BY <1>1, <1>3, <1>5, Zenon DEF Witness
<1> HIDE DEF handle, s
<1> QED BY <1>1, <1>5, <1>7, <1>8, TouchPreserves, Zenon

LEMMA StopPreserves ==
    ASSUME RInv, NEW p \in Procs, Stop(p)
    PROVE  RInv'
<1>1. /\ proc' = [proc EXCEPT ![p] = Down] /\ records' = records /\ anchor' = anchor
      /\ lived' = lived /\ made' = made
      /\ archive' = archive /\ job' = job /\ practice' = practice
  BY Zenon DEF Stop, saved
<1>2. proc \in [Procs -> Handles] /\ Down \in Handles /\ Down.role = "down" /\ Down.head = <<>>
  <2>1. Down \in Handles /\ Down.role = "down" /\ Down.head = <<>>
    BY DEF Down, Handles, Hashes
  <2> QED BY <2>1, Zenon DEF RInv, Typed
<1>3. /\ proc' \in [Procs -> Handles] /\ proc'[p] = Down
      /\ \A q \in Procs : q # p => proc'[q] = proc[q]
  BY <1>1, <1>2, Zenon
<1>4. Typed'
  BY <1>1, <1>3, Zenon DEF RInv, Typed
<1>5. \A t : (Opened(t)' => Opened(t)) /\ (Restoring(t)' <=> Restoring(t))
  BY <1>1, <1>2, <1>3, Zenon DEF Opened, Restoring
<1>6. ChainsHold'
  BY <1>1, <1>5, Zenon DEF RInv, ChainsHold, Verify, Unspoilt
<1>7. ASSUME NEW q \in Procs
      PROVE  /\ proc'[q].role = "down" => proc'[q].head = <<>>
             /\ proc'[q].role # "down" =>
                  /\ proc'[q].store \in Stores /\ ~Restoring(proc'[q].store)
                  /\ Begins(proc'[q].head, Tip(records'[proc'[q].store]))
  <2>1. CASE q = p
    BY <1>2, <1>3, <2>1, Zenon
  <2>2. CASE q # p
    BY <1>1, <1>3, <2>2, Zenon DEF RInv, HandlesHold
  <2> QED BY <2>1, <2>2, Zenon
<1>8. HandlesHold'
  BY <1>5, <1>7, Zenon DEF HandlesHold, Tip
<1> QED BY <1>4, <1>6, <1>8, Zenon DEF RInv

\* What a request to the server q brings p.
LEMMA SyncForms ==
    ASSUME LeastMembers, RInv, NEW p \in Procs, NEW q \in Procs, Sync(p, q)
    PROVE  \E n \in Nat, after \in Nat :
             LET s == proc[p].store
                 batch == Sent(records[proc[q].store], after, n)
                 f == Ingest(records[s], proc[p].head, batch) IN
             /\ practice.whole => after = 0
             /\ batch \in Recs /\ f \in Files /\ Sound(f) /\ Begins(Tip(records[s]), Tip(f.recs))
             /\ records' = [records EXCEPT ![s] = f.recs]
             /\ proc' = [proc EXCEPT ![p].head = f.head]
<1> DEFINE s == proc[p].store
           after == IF practice.whole THEN 0 ELSE Len(proc[p].head)
           limit == IF practice.whole THEN Len(records[proc[q].store]) ELSE Batch
           sent(n) == Sent(records[proc[q].store], after, n)
           taken(n) == Ingest(records[s], proc[p].head, sent(n))
<1>1. PICK n \in 1 .. limit : /\ records' = [records EXCEPT ![s] = taken(n).recs]
                              /\ proc' = [proc EXCEPT ![p].head = taken(n).head]
  BY Zenon DEF Sync
<1>2. proc[p].role # "down" /\ proc[q].role # "down"
  BY Zenon DEF Sync
<1>3. /\ records[s] \in Recs /\ Verify(records[s]) /\ proc[p].head \in Hashes
      /\ Begins(proc[p].head, Tip(records[s])) /\ records[proc[q].store] \in Recs
  BY <1>2, HeldChain, Zenon
<1>4. limit \in Nat /\ after \in Nat
  <2>1. Len(records[proc[q].store]) \in Nat
    BY <1>3, RecordForms, Zenon
  <2>2. Len(proc[p].head) \in Nat
    BY <1>3 DEF Hashes
  <2>3. Batch \in Nat
    BY ReplicationAssumption
  <2>4. 0 \in Nat
    OBVIOUS
  <2> QED BY <2>1, <2>2, <2>3, <2>4, Zenon
<1>5. n \in Nat
  <2> HIDE DEF limit
  <2> QED BY <1>4
<1>6. practice.whole => after = 0
  BY Zenon
<1> HIDE DEF after
<1>7. sent(n) \in Recs
  BY <1>3, <1>4, <1>5, SentForms, Zenon
<1>8. LET f == taken(n) IN f \in Files /\ Sound(f) /\ Begins(Tip(records[s]), Tip(f.recs))
  <2> HIDE DEF sent, s
  <2> QED BY <1>3, <1>7, IngestSound, Zenon
<1> QED BY <1>1, <1>4, <1>5, <1>6, <1>7, <1>8, Zenon

LEMMA SyncPreserves ==
    ASSUME LeastMembers, RInv, NEW p \in Procs, NEW q \in Procs, Sync(p, q)
    PROVE  RInv'
<1> DEFINE s == proc[p].store
<1>1. PICK f \in Files : /\ Sound(f) /\ Begins(Tip(records[s]), Tip(f.recs))
                         /\ records' = [records EXCEPT ![s] = f.recs]
                         /\ proc' = [proc EXCEPT ![p].head = f.head]
  BY SyncForms, Zenon
<1>2. /\ proc[p].role = "standby" /\ anchor' = anchor /\ lived' = lived /\ made' = made
      /\ UNCHANGED saved /\ job' = job
  BY Zenon DEF Sync, saved
<1>3. proc[p].role # "down"
  BY <1>2, Zenon
<1>4. f.recs \in Recs /\ f.head \in Hashes
  BY DEF Files
<1>5. proc[p] \in Handles /\ proc[p].last \in Hashes
  BY <1>3, HeldChain, Zenon DEF RInv, Typed
<1> DEFINE handle == Handle("standby", s, f.head, proc[p].last)
<1>6. proc' = [proc EXCEPT ![p] = handle]
  <2>1. [proc[p] EXCEPT !.head = f.head] = Handle(proc[p].role, s, f.head, proc[p].last)
    BY <1>5, HandleForms
  <2> QED BY <1>1, <1>2, <2>1, Zenon
<1>7. Verify(f.recs) /\ Begins(f.head, Tip(f.recs))
  BY <1>1, Zenon DEF Sound
<1>8. Touches(p, s, f.recs, handle)
  BY <1>1, <1>2, <1>3, <1>4, <1>5, <1>6, <1>7, HolderTouches, Zenon
<1>9. anchor' \in SUBSET Hashes /\ lived' \in Hashes /\ made' \in Nat
  BY <1>2, Zenon DEF RInv, Typed
<1> HIDE DEF handle, s
<1> QED BY <1>2, <1>8, <1>9, TouchPreserves, Zenon

LEMMA PromotePreserves ==
    ASSUME RInv, NEW p \in Procs, Promote(p)
    PROVE  RInv'
<1> DEFINE s == proc[p].store
           handle == Handle("closed", s, proc[p].head, proc[p].last)
<1>1. /\ proc[p].role # "down" /\ Verify(records[s])
      /\ UNCHANGED <<records, made, stops, saved>>
  BY Zenon DEF Promote
<1>2. PICK last \in OpenAnchor :
        \/ Serve(p, s, last)
        \/ proc' = [proc EXCEPT ![p].role = "closed"] /\ UNCHANGED <<anchor, lived>>
  BY Zenon DEF Promote
<1>3. /\ s \in Stores /\ ~Restoring(s) /\ proc[p].head \in Hashes /\ proc[p].last \in Hashes
      /\ Begins(proc[p].head, Tip(records[s]))
  BY <1>1, HeldChain, Zenon
<1>4. CASE Serve(p, s, last)
  BY <1>1, <1>3, <1>4, ServePreserves, Zenon
<1>5. CASE proc' = [proc EXCEPT ![p].role = "closed"] /\ UNCHANGED <<anchor, lived>>
  <2>1. proc[p] \in Handles
    BY Zenon DEF RInv, Typed
  <2>2. proc' = [proc EXCEPT ![p] = handle]
    <3>1. [proc[p] EXCEPT !.role = "closed"] = handle
      BY <2>1, HandleForms
    <3> QED BY <1>5, <3>1, Zenon
  <2>3. records' = records /\ made' = made /\ UNCHANGED saved /\ job' = job
    BY <1>1, Zenon DEF saved
  <2>4. /\ records[s] \in Recs /\ Begins(Tip(records[s]), Tip(records[s]))
        /\ records' = [records EXCEPT ![s] = records[s]]
    BY <1>3, <2>3, SameRecords, Zenon
  <2>5. Touches(p, s, records[s], handle)
    BY <1>1, <1>3, <2>2, <2>3, <2>4, HolderTouches, Zenon
  <2>6. anchor' \in SUBSET Hashes /\ lived' \in Hashes /\ made' \in Nat
    BY <1>5, <2>3, Zenon DEF RInv, Typed
  <2> HIDE DEF handle, s
  <2> QED BY <2>3, <2>5, <2>6, TouchPreserves, Zenon
<1> QED BY <1>2, <1>4, <1>5, Zenon

\* A step that no process takes changes only stores that are closed.
LEMMA ClosedPreserves ==
    ASSUME RInv, Typed', proc' = proc,
           \A s \in Stores : \/ records'[s] = records[s]
                             \/ ~Opened(s) /\ (Unspoilt(records'[s]) => Verify(records'[s])),
           \A s : Restoring(s)' => ~Opened(s),
           Restoring(job.store)' => Verify(job'.records)
    PROVE  RInv'
<1>1. \A s : Opened(s)' <=> Opened(s)
  BY Zenon DEF Opened
<1>2. ASSUME NEW s \in Stores, (Opened(s) \/ Unspoilt(records[s]))' PROVE Verify(records'[s])
  BY <1>1, <1>2, Zenon DEF RInv, ChainsHold, Unspoilt
<1>3. ChainsHold'
  BY <1>2, Zenon DEF ChainsHold, Verify
<1>4. ASSUME NEW p \in Procs, proc[p].role # "down"
      PROVE  /\ proc[p].store \in Stores /\ records'[proc[p].store] = records[proc[p].store]
             /\ Begins(proc[p].head, Tip(records[proc[p].store])) /\ ~Restoring(proc[p].store)'
  <2>1. proc[p].store \in Stores /\ Begins(proc[p].head, Tip(records[proc[p].store]))
    BY <1>4, Zenon DEF RInv, HandlesHold
  <2>2. Opened(proc[p].store)
    BY <1>4, Zenon DEF Opened
  <2>3. \A s : Restoring(s)' => ~Opened(s)
    OBVIOUS
  <2>4. ~Restoring(proc[p].store)'
    <3>1. ~Restoring(proc[p].store)' <=> ~(IF job' = None THEN FALSE
                                 ELSE job'.kind = "restore" /\ job'.store = proc[p].store)
      BY Zenon DEF Restoring
    <3> QED BY <2>2, <2>3, <3>1, Zenon DEF Restoring
  <2> QED BY <2>1, <2>2, <2>4, Zenon
<1>5. \A p \in Procs : proc[p].role = "down" => proc[p].head = <<>>
  BY Zenon DEF RInv, HandlesHold
<1>6. HandlesHold'
  BY <1>4, <1>5, Zenon DEF HandlesHold, Tip
<1> QED BY <1>3, <1>6, Zenon DEF RInv

\* The steps of a backup change no store.
LEMMA BackupPreserves ==
    ASSUME RInv,
           \/ \E s \in Stores : ReadForBackup(s)
           \/ ClearPrevious \/ VacuumInto \/ WriteManifest \/ CrashJob
    PROVE  RInv'
<1>1. /\ records' = records /\ proc' = proc /\ anchor' = anchor /\ lived' = lived
      /\ made' = made /\ practice' = practice
  BY Zenon DEF ReadForBackup, ClearPrevious, VacuumInto, WriteManifest, CrashJob
<1>2. /\ job' = None \/ (job' \in Jobs /\ job'.kind # "restore")
      /\ archive' # None => archive' \in Recs
  <2>1. ASSUME NEW s \in Stores, ReadForBackup(s)
        PROVE  job' \in Jobs /\ job'.kind = "read" /\ archive' = archive
    <3>1. /\ job' = [kind |-> "read", store |-> s, records |-> records[s]]
          /\ archive' = archive /\ records[s] \in Recs
      BY <2>1, Zenon DEF ReadForBackup, RInv, Typed
    <3> QED BY <3>1 DEF Jobs
  <2>2. ASSUME ClearPrevious
        PROVE  job' \in Jobs /\ job'.kind = "cleared" /\ archive' = None
    <3>1. job \in Jobs /\ job' = [job EXCEPT !.kind = "cleared"] /\ archive' = None
      BY <2>2, Zenon DEF ClearPrevious, RInv, Typed
    <3> QED BY <3>1 DEF Jobs
  <2>3. ASSUME VacuumInto
        PROVE  job' \in Jobs /\ job'.kind = "written" /\ archive' \in Recs
    <3>1. /\ job \in Jobs /\ job' = [job EXCEPT !.kind = "written"]
          /\ archive' = records[job.store] /\ records \in [Stores -> Recs]
      BY <2>3, Zenon DEF VacuumInto, RInv, Typed
    <3>2. job.store \in Stores /\ job' \in Jobs /\ job'.kind = "written"
      BY <3>1 DEF Jobs
    <3> QED BY <3>1, <3>2, Zenon
  <2>4. WriteManifest \/ CrashJob => job' = None /\ archive' = archive
    BY Zenon DEF WriteManifest, CrashJob
  <2> QED BY <2>1, <2>2, <2>3, <2>4, Zenon DEF RInv, Typed
<1>3. Typed'
  BY <1>1, <1>2, Zenon DEF RInv, Typed
<1>4. \A s : ~Restoring(s)'
  BY <1>2, Zenon DEF Restoring
<1> QED BY <1>1, <1>3, <1>4, ClosedPreserves, Zenon

LEMMA MoveAsidePreserves ==
    ASSUME RInv, NEW s \in Stores, MoveAside(s)
    PROVE  RInv'
<1>1. /\ Idle(s) /\ archive # None /\ Verify(archive)
      /\ records' = [records EXCEPT ![s] = <<>>] /\ proc' = proc
      /\ job' = [kind |-> "restore", store |-> s, records |-> archive]
      /\ anchor' = anchor /\ lived' = lived /\ made' = made /\ archive' = archive
      /\ practice' = practice
  BY Zenon DEF MoveAside, VerifyBackup
<1>2. <<>> \in Recs /\ Verify(<<>>)
  BY DEF Recs, Verify
<1>3. job' \in Jobs /\ job'.store = s /\ job'.records = archive
  <2>1. archive \in Recs
    BY <1>1, Zenon DEF RInv, Typed
  <2> QED BY <1>1, <2>1 DEF Jobs
<1>4. records \in [Stores -> Recs]
  BY Zenon DEF RInv, Typed
<1>5. /\ records' \in [Stores -> Recs] /\ records'[s] = <<>>
      /\ \A t \in Stores : t # s => records'[t] = records[t]
  BY <1>1, <1>2, <1>4, Zenon
<1>6. Typed'
  BY <1>1, <1>3, <1>5, Zenon DEF RInv, Typed
<1>7. ~Opened(s)
  BY <1>1, Zenon DEF Idle, Opened
<1>8. \A t : Restoring(t)' => ~Opened(t)
  BY <1>3, <1>7, Zenon DEF Restoring
<1>9. \A t \in Stores : \/ records'[t] = records[t]
                        \/ ~Opened(t) /\ (Unspoilt(records'[t]) => Verify(records'[t]))
  BY <1>2, <1>5, <1>7, Zenon
<1> QED BY <1>1, <1>3, <1>6, <1>8, <1>9, ClosedPreserves, Zenon

LEMMA InstallPreserves ==
    ASSUME RInv, Install
    PROVE  RInv'
<1>1. /\ job # None /\ job.kind = "restore"
      /\ records' = [records EXCEPT ![job.store] = job.records] /\ proc' = proc
      /\ job' = None /\ anchor' = anchor /\ lived' = lived /\ made' = made
      /\ archive' = archive /\ practice' = practice
  BY Zenon DEF Install
<1>2. job.store \in Stores /\ job.records \in Recs /\ records \in [Stores -> Recs]
  <2>1. job \in Jobs /\ records \in [Stores -> Recs]
    BY <1>1, Zenon DEF RInv, Typed
  <2> QED BY <2>1 DEF Jobs
<1>3. Restoring(job.store) /\ \A t : ~Restoring(t)'
  BY <1>1, Zenon DEF Restoring
<1>4. Verify(job.records) /\ ~Opened(job.store)
  BY <1>3, Zenon DEF RInv, ChainsHold, HandlesHold, Opened
<1>5. /\ records' \in [Stores -> Recs] /\ records'[job.store] = job.records
      /\ \A t \in Stores : t # job.store => records'[t] = records[t]
  BY <1>1, <1>2, Zenon
<1>6. Typed'
  BY <1>1, <1>5, Zenon DEF RInv, Typed
<1>7. \A t \in Stores : \/ records'[t] = records[t]
                        \/ ~Opened(t) /\ (Unspoilt(records'[t]) => Verify(records'[t]))
  BY <1>4, <1>5, Zenon
<1> QED BY <1>1, <1>3, <1>6, <1>7, ClosedPreserves, Zenon

LEMMA RottenForms ==
    ASSUME NEW recs \in Recs, NEW i \in DOMAIN recs
    PROVE  Rotten(recs, i) \in Recs /\ ~Unspoilt(Rotten(recs, i))
<1>1. 0 \in Events
  BY ReplicationAssumption DEF Events
<1> DEFINE r == [recs[i] EXCEPT !.event = 0]
<1>2. recs[i] \in Rec
  BY DEF Recs
<1>3. r \in Rec /\ r.event = 0
  BY <1>1, <1>2 DEF Rec
<1>4. Rotten(recs, i) = [recs EXCEPT ![i] = r]
  BY Zenon DEF Rotten
<1> HIDE DEF r
<1>5. /\ Rotten(recs, i) \in Recs /\ DOMAIN Rotten(recs, i) = DOMAIN recs
      /\ Rotten(recs, i)[i] = r
  BY <1>3, <1>4 DEF Recs
<1> QED BY <1>3, <1>5, Zenon DEF Unspoilt

LEMMA RotPreserves ==
    ASSUME RInv, Rot
    PROVE  RInv'
<1>1. /\ proc' = proc /\ anchor' = anchor /\ lived' = lived /\ made' = made
      /\ job' = job /\ practice' = practice
  BY Zenon DEF Rot
<1>2. /\ records \in [Stores -> Recs] /\ (archive # None => archive \in Recs)
      /\ \A t : Restoring(t)' => ~Opened(t)
      /\ Restoring(job.store)' => Verify(job'.records)
  <2>1. \A t : Restoring(t)' <=> Restoring(t)
    BY <1>1, Zenon DEF Restoring
  <2>2. \A t : Restoring(t) => ~Opened(t)
    BY Zenon DEF RInv, HandlesHold, Opened
  <2>3. Restoring(job.store)' => Verify(job'.records)
    BY <1>1, Zenon DEF RInv, ChainsHold, Restoring
  <2> QED BY <2>1, <2>2, <2>3, Zenon DEF RInv, Typed
<1>3. ASSUME NEW s \in Stores, NEW i \in DOMAIN records[s], Idle(s),
             records' = [records EXCEPT ![s] = Rotten(@, i)], UNCHANGED archive
      PROVE  RInv'
  <2>1. Rotten(records[s], i) \in Recs /\ ~Unspoilt(Rotten(records[s], i))
    BY <1>2, RottenForms, Zenon
  <2>2. /\ records' \in [Stores -> Recs] /\ records'[s] = Rotten(records[s], i)
        /\ \A t \in Stores : t # s => records'[t] = records[t]
    BY <1>2, <1>3, <2>1, Zenon
  <2>3. Typed'
    BY <1>1, <1>3, <2>2, Zenon DEF RInv, Typed
  <2>4. ~Opened(s)
    BY <1>3, Zenon DEF Idle, Opened
  <2>5. \A t \in Stores : \/ records'[t] = records[t]
                          \/ ~Opened(t) /\ (Unspoilt(records'[t]) => Verify(records'[t]))
    BY <2>1, <2>2, <2>4, Zenon
  <2> QED BY <1>1, <1>2, <2>3, <2>5, ClosedPreserves, Zenon
<1>4. ASSUME archive # None, NEW i \in DOMAIN archive, archive' = Rotten(archive, i),
             UNCHANGED records
      PROVE  RInv'
  <2>1. archive' \in Recs
    BY <1>2, <1>4, RottenForms, Zenon
  <2>2. Typed'
    BY <1>1, <1>4, <2>1, Zenon DEF RInv, Typed
  <2> QED BY <1>1, <1>2, <1>4, <2>2, ClosedPreserves, Zenon
<1> QED BY <1>3, <1>4, Zenon DEF Rot

LEMMA RInvNext == LeastMembers /\ RInv /\ [Next]_vars => RInv'
<1> SUFFICES ASSUME LeastMembers, RInv, [Next]_vars PROVE RInv'
  OBVIOUS
<1>1. CASE UNCHANGED vars
  BY <1>1, ZenonT(30) DEF vars, RInv, Typed, ChainsHold, HandlesHold, Opened, Unspoilt, Verify,
                     Restoring, Tip
<1>2. ASSUME NEW p \in Procs, NEW s \in Stores, Start(p, s) \/ OpenStandby(p, s) PROVE RInv'
  BY <1>2, StartPreserves, OpenStandbyPreserves, Zenon
<1>3. ASSUME NEW p \in Procs, Record(p) \/ Decide(p) \/ EndRun(p) \/ Stop(p) \/ Promote(p)
      PROVE  RInv'
  BY <1>3, RecordPreserves, DecidePreserves, EndRunPreserves, StopPreserves,
     PromotePreserves, Zenon
<1>4. ASSUME NEW p \in Procs, NEW q \in Procs, Sync(p, q) PROVE RInv'
  BY <1>4, SyncPreserves, Zenon
<1>5. ASSUME NEW s \in Stores, ReadForBackup(s) \/ MoveAside(s) PROVE RInv'
  BY <1>5, BackupPreserves, MoveAsidePreserves, Zenon
<1>6. CASE ClearPrevious \/ VacuumInto \/ WriteManifest \/ Install \/ CrashJob \/ Rot
  BY <1>6, BackupPreserves, InstallPreserves, RotPreserves, Zenon
<1> QED BY <1>1, <1>2, <1>3, <1>4, <1>5, <1>6, Zenon DEF Next

-----------------------------------------------------------------------------
(* The anchor and the history that is lived.                                *)

\* What anchor.go's OpenAnchor returns for a file that holds the heads A.
Tops(A) == {h \in A : \A g \in A : Len(g) <= Len(h)} \cup (IF A = {} THEN {<<>>} ELSE {})

\* The heads in the file are beginnings of one history, n the longest.
Highest(A, n, l) ==
    /\ Tops(A) = {n} /\ n \in Hashes /\ Begins(n, l)
    /\ \A h \in A : Len(h) <= Len(n) /\ Begins(h, n)

LEMMA TopExists ==
    ASSUME LeastMembers, NEW l \in Hashes, NEW A \in SUBSET Hashes, A # {},
           \A h \in A : Begins(h, l)
    PROVE  \E t \in A : \A g \in A : Len(g) <= Len(t)
<1> DEFINE rest == {k \in Nat : \E h \in A : k + Len(h) = Len(l)}
<1>1. Len(l) \in Nat /\ \A h \in A : h \in Hashes /\ Len(h) \in Nat /\ Len(h) <= Len(l)
  BY PrefixForms DEF Hashes
<1>2. \A h \in A : Len(l) - Len(h) \in rest
  <2> SUFFICES ASSUME NEW h \in A PROVE Len(l) - Len(h) \in rest
    BY Zenon
  <2>1. Len(l) - Len(h) \in Nat /\ Len(l) - Len(h) + Len(h) = Len(l)
    BY <1>1
  <2> QED BY <2>1, Zenon
<1>3. PICK k \in rest : \A m \in rest : k <= m
  <2>1. rest \in SUBSET Nat /\ rest # {}
    BY <1>2, Zenon
  <2> HIDE DEF rest
  <2> QED BY <2>1, Zenon DEF LeastMembers
<1>4. PICK t \in A : k \in Nat /\ k + Len(t) = Len(l)
  BY Zenon
<1>5. ASSUME NEW g \in A PROVE Len(g) <= Len(t)
  <2>1. k <= Len(l) - Len(g)
    BY <1>2, <1>3, Zenon
  <2> QED BY <1>1, <1>4, <2>1
<1> QED BY <1>5, Zenon

LEMMA TopForms ==
    ASSUME LeastMembers, NEW l \in Hashes, NEW A \in SUBSET Hashes,
           \A h \in A : Begins(h, l), NEW n \in Tops(A)
    PROVE  Highest(A, n, l)
<1>1. CASE A = {}
  <2>1. Tops(A) = {<<>>}
    BY <1>1, Zenon DEF Tops
  <2>2. n = <<>>
    BY <2>1, Zenon
  <2> QED BY <1>1, <2>1, <2>2, PrefixEmpty, Zenon DEF Highest
<1>2. CASE A # {}
  <2>1. n \in A /\ n \in Hashes /\ Begins(n, l) /\ \A g \in A : Len(g) <= Len(n)
    BY <1>2, Zenon DEF Tops
  <2>2. ASSUME NEW h \in A PROVE Begins(h, n)
    BY <2>1, PrefixesOrdered, Zenon
  <2>3. ASSUME NEW m \in Tops(A) PROVE m = n
    <3>1. m \in A /\ m \in Hashes /\ Len(n) <= Len(m)
      BY <1>2, <2>1, Zenon DEF Tops
    <3> QED BY <2>1, <2>2, <3>1, PrefixWhole, Zenon
  <2> QED BY <2>1, <2>2, <2>3, Zenon DEF Highest
<1> QED BY <1>1, <1>2, Zenon

\* The head that Check accepts begins with the witnessed one.
LEMMA CheckBegins ==
    ASSUME LeastMembers, NEW recs \in Recs, Verify(recs), NEW last \in Hashes,
           Check(last, Tip(recs), recs)
    PROVE  Begins(last, Tip(recs))
<1>1. Tip(recs) \in Hashes /\ Len(Tip(recs)) = Len(recs) /\ Len(recs) \in Nat
  BY TipForms, TipLength, RecordForms, Zenon
<1>2. CASE last = <<>>
  BY <1>1, <1>2, PrefixEmpty, Zenon
<1>3. CASE last # <<>>
  <2>1. /\ Len(Tip(recs)) >= Len(last)
        /\ last = IF Len(Tip(recs)) = Len(last) THEN Tip(recs) ELSE recs[Len(last)].hash
    BY <1>3, Zenon DEF Check
  <2>2. Len(last) \in 1 .. Len(recs)
    BY <1>1, <1>3, <2>1 DEF Hashes
  <2>3. CASE Len(Tip(recs)) = Len(last)
    BY <1>1, <2>1, <2>3, PrefixSelf, Zenon
  <2>4. CASE Len(Tip(recs)) # Len(last)
    BY <2>1, <2>2, <2>4, ChainBegins, Zenon
  <2> QED BY <2>3, <2>4, Zenon
<1> QED BY <1>2, <1>3, Zenon

\* Servers share a store, its tip is the history that is lived, and all that was
\* witnessed is a beginning of it.
OneStore ==
    \A p, q \in Procs : proc[p].role = "server" /\ proc[q].role = "server"
                            => proc[p].store = proc[q].store
Homed ==
    ~practice.fenced => \A p \in Procs : proc[p].role = "server"
                                            => proc[p].store \in practice.homes
Acted == \A p \in Procs : proc[p].role = "server" => lived = Tip(records[proc[p].store])
Kept == \A h \in anchor : Begins(h, lived)

Line == OneStore /\ Homed /\ Acted /\ Kept

\* Nothing the servers act on changes.
Settled ==
    /\ lived' = lived /\ anchor' = anchor /\ practice' = practice
    /\ \A p \in Procs : proc'[p].role = "server" =>
        /\ proc[p].role = "server" /\ proc'[p].store = proc[p].store
        /\ records'[proc[p].store] = records[proc[p].store]

TakesOver(p, s, last) ==
    /\ last \in OpenAnchor /\ Verify(records[s]) /\ Check(last, Tip(records[s]), records[s])
    /\ practice.fenced => Serving = {}
    /\ ~practice.fenced => s \in practice.homes
    /\ Serve(p, s, last)
    /\ records' = records /\ practice' = practice

LEMMA LineInit == Init => Line
<1> SUFFICES ASSUME Init PROVE Line
  OBVIOUS
<1>1. Down.role # "server"
  BY DEF Down
<1>2. \A p \in Procs : proc[p].role # "server"
  BY <1>1, Zenon DEF Init
<1> QED BY <1>2, Zenon DEF Init, Line, OneStore, Homed, Acted, Kept

LEMMA SettledKeeps ==
    ASSUME Line, Settled
    PROVE  Line'
<1>1. OneStore' /\ Homed'
  <2>1. OneStore /\ Homed
    BY Zenon DEF Line
  <2>2. \A p \in Procs : proc'[p].role = "server" =>
          proc[p].role = "server" /\ proc'[p].store = proc[p].store
    BY Zenon DEF Settled
  <2>3. practice' = practice
    BY Zenon DEF Settled
  <2>4. ASSUME NEW p \in Procs, NEW q \in Procs,
               proc'[p].role = "server", proc'[q].role = "server"
        PROVE  proc'[p].store = proc'[q].store
    <3>1. /\ proc[p].role = "server" /\ proc'[p].store = proc[p].store
          /\ proc[q].role = "server" /\ proc'[q].store = proc[q].store
      BY <2>2, <2>4, Zenon
    <3>2. proc[p].store = proc[q].store
      BY <2>1, <3>1, Zenon DEF OneStore
    <3> QED BY <3>1, <3>2, Zenon
  <2>5. OneStore'
    BY <2>4, Zenon DEF OneStore
  <2>6. Homed'
    BY <2>1, <2>2, <2>3, Zenon DEF Homed
  <2> QED BY <2>5, <2>6, Zenon
<1>2. ASSUME NEW p \in Procs, proc'[p].role = "server"
      PROVE  lived' = Tip(records'[proc'[p].store])
  BY <1>2, Zenon DEF Line, Settled, Acted
<1>3. Acted'
  BY <1>2, Zenon DEF Acted, Tip
<1>4. Kept'
  BY Zenon DEF Line, Settled, Kept
<1> QED BY <1>1, <1>3, <1>4, Zenon DEF Line

\* Every step leaves what the servers act on alone, is a server's, or starts one.
Acts == \E p \in Procs : \/ Record(p) \/ Decide(p) \/ EndRun(p)
                         \/ \E s \in Stores, last \in OpenAnchor : TakesOver(p, s, last)

LEMMA OpeningSettles ==
    ASSUME RInv, NEW p \in Procs, NEW handle, handle.role # "server",
           proc' = [proc EXCEPT ![p] = handle], records' = records,
           lived' = lived, anchor' = anchor, practice' = practice
    PROVE  Settled
<1>1. proc'[p] = handle /\ \A q \in Procs : q # p => proc'[q] = proc[q]
  BY Zenon DEF RInv, Typed
<1> QED BY <1>1, Zenon DEF Settled

LEMMA StartKind ==
    ASSUME RInv, NEW p \in Procs, NEW s \in Stores, Start(p, s) \/ OpenStandby(p, s)
    PROVE  Settled \/ Acts
<1>1. CASE Start(p, s)
  <2>1. PICK last \in OpenAnchor : Check(last, Tip(records[s]), records[s]) /\ Serve(p, s, last)
    BY <1>1, Zenon DEF Start
  <2>2. TakesOver(p, s, last)
    BY <1>1, <2>1, Zenon DEF Start, TakesOver, saved
  <2> QED BY <2>2, Zenon DEF Acts
<1>2. CASE OpenStandby(p, s)
  <2>1. PICK last \in OpenAnchor :
          proc' = [proc EXCEPT ![p] = [role |-> "standby", store |-> s,
                                       head |-> Tip(records[s]), last |-> last]]
    BY <1>2, Zenon DEF OpenStandby
  <2> DEFINE handle == [role |-> "standby", store |-> s, head |-> Tip(records[s]), last |-> last]
  <2>2. handle.role # "server" /\ proc' = [proc EXCEPT ![p] = handle]
    BY <2>1
  <2>3. records' = records /\ lived' = lived /\ anchor' = anchor /\ practice' = practice
    BY <1>2, Zenon DEF OpenStandby, saved
  <2> HIDE DEF handle
  <2> QED BY <2>2, <2>3, OpeningSettles, Zenon
<1> QED BY <1>1, <1>2, Zenon

LEMMA StopKind ==
    ASSUME RInv, NEW p \in Procs, Stop(p)
    PROVE  Settled
<1>1. Down.role # "server" /\ proc' = [proc EXCEPT ![p] = Down]
  BY DEF Down, Stop
<1>2. records' = records /\ lived' = lived /\ anchor' = anchor /\ practice' = practice
  BY Zenon DEF Stop, saved
<1> QED BY <1>1, <1>2, OpeningSettles, Zenon

LEMMA SyncKind ==
    ASSUME LeastMembers, RInv, Line, NEW p \in Procs, NEW q \in Procs, Sync(p, q)
    PROVE  Settled
<1> DEFINE s == proc[p].store
<1>1. PICK f : /\ records' = [records EXCEPT ![s] = f.recs]
               /\ proc' = [proc EXCEPT ![p].head = f.head]
  BY SyncForms, Zenon
<1>2. /\ proc[p].role = "standby" /\ proc[q].role = "server" /\ s # proc[q].store
      /\ lived' = lived /\ anchor' = anchor /\ practice' = practice
  BY Zenon DEF Sync, saved
<1>3. records \in [Stores -> Recs] /\ proc \in [Procs -> Handles]
  BY Zenon DEF RInv, Typed
<1>4. proc'[p].role = "standby" /\ \A r \in Procs : r # p => proc'[r] = proc[r]
  <2>1. proc'[p] = [proc[p] EXCEPT !.head = f.head] /\ \A r \in Procs : r # p => proc'[r] = proc[r]
    BY <1>1, <1>3, Zenon
  <2>2. proc[p] \in Handles
    BY <1>3, Zenon
  <2>3. [proc[p] EXCEPT !.head = f.head].role = proc[p].role
    BY <2>2 DEF Handles
  <2> QED BY <1>2, <2>1, <2>3, Zenon
<1>5. ASSUME NEW r \in Procs, proc'[r].role = "server"
      PROVE  /\ proc[r].role = "server" /\ proc'[r].store = proc[r].store
             /\ records'[proc[r].store] = records[proc[r].store]
  <2>1. r # p
    BY <1>4, <1>5
  <2>2. proc'[r] = proc[r] /\ proc[r].role = "server"
    BY <1>4, <1>5, <2>1, Zenon
  <2>3. proc[r].store = proc[q].store /\ proc[r].store \in Stores
    <3>1. proc[r].role # "down"
      BY <2>2
    <3> QED BY <1>2, <2>2, <3>1, HeldChain, Zenon DEF Line, OneStore
  <2>4. records'[proc[r].store] = records[proc[r].store]
    BY <1>1, <1>2, <1>3, <2>3, Zenon
  <2> QED BY <2>2, <2>4, Zenon
<1> QED BY <1>2, <1>5, Zenon DEF Settled

LEMMA PromoteKind ==
    ASSUME RInv, Exclusive, NEW p \in Procs, Promote(p)
    PROVE  Settled \/ Acts
<1> DEFINE s == proc[p].store
<1>1. PICK last \in OpenAnchor :
        IF Check(last, Tip(records[s]), records[s])
          THEN Serve(p, s, last)
          ELSE proc' = [proc EXCEPT ![p].role = "closed"] /\ UNCHANGED <<anchor, lived>>
  BY Zenon DEF Promote
<1>2. /\ proc[p].role = "standby" /\ Verify(records[s]) /\ records' = records
      /\ practice' = practice /\ (practice.fenced => Serving = {})
      /\ "promote" \in practice.uses
  BY Zenon DEF Promote, saved
<1>3. s \in Stores /\ practice.fenced
  <2>1. proc[p].role # "down"
    BY <1>2
  <2>2. Alone(practice)
    BY Zenon DEF Exclusive, RInv, Typed
  <2> QED BY <1>2, <2>1, <2>2, HeldChain, Zenon DEF Alone
<1>4. CASE Check(last, Tip(records[s]), records[s])
  <2>1. TakesOver(p, s, last)
    BY <1>1, <1>2, <1>3, <1>4, Zenon DEF TakesOver
  <2> QED BY <1>3, <2>1, Zenon DEF Acts
<1>5. CASE ~Check(last, Tip(records[s]), records[s])
  <2> DEFINE handle == [proc[p] EXCEPT !.role = "closed"]
  <2>1. proc' = [proc EXCEPT ![p] = handle] /\ lived' = lived /\ anchor' = anchor
    BY <1>1, <1>5, Zenon
  <2>2. proc[p] \in Handles
    BY Zenon DEF RInv, Typed
  <2>3. handle.role # "server"
    BY <2>2 DEF Handles
  <2> HIDE DEF handle
  <2> QED BY <1>2, <2>1, <2>3, OpeningSettles, Zenon
<1> QED BY <1>4, <1>5, Zenon

\* A step no process takes does not touch an open store.
LEMMA ClosedSettles ==
    ASSUME RInv, \A t \in Stores : Opened(t) => records'[t] = records[t],
           proc' = proc, lived' = lived, anchor' = anchor, practice' = practice
    PROVE  Settled
<1> SUFFICES ASSUME NEW p \in Procs, proc[p].role = "server"
             PROVE  records'[proc[p].store] = records[proc[p].store]
  BY Zenon DEF Settled
<1>1. proc[p].role # "down"
  BY Zenon
<1> QED BY <1>1, HeldChain, Zenon DEF Opened

LEMMA BackupKind ==
    ASSUME RInv, \/ \E s \in Stores : ReadForBackup(s)
                 \/ ClearPrevious \/ VacuumInto \/ WriteManifest \/ CrashJob
    PROVE  Settled
<1>1. /\ records' = records /\ proc' = proc /\ lived' = lived /\ anchor' = anchor
      /\ practice' = practice
  BY Zenon DEF ReadForBackup, ClearPrevious, VacuumInto, WriteManifest, CrashJob
<1> QED BY <1>1, ClosedSettles, Zenon

LEMMA RestoreKind ==
    ASSUME RInv, Rot \/ Install \/ \E s \in Stores : MoveAside(s)
    PROVE  Settled
<1>1. proc' = proc /\ lived' = lived /\ anchor' = anchor /\ practice' = practice
  BY Zenon DEF Rot, Install, MoveAside
<1>2. records \in [Stores -> Recs]
  BY Zenon DEF RInv, Typed
<1>3. \A s : Idle(s) => ~Opened(s)
  BY Zenon DEF Idle, Opened
<1>4. ASSUME NEW s \in Stores, MoveAside(s) PROVE Settled
  BY <1>1, <1>2, <1>3, <1>4, ClosedSettles, Zenon DEF MoveAside
<1>5. CASE Install
  <2>1. ~Opened(job.store)
    BY <1>5, Zenon DEF Install, RInv, HandlesHold, Opened, Restoring
  <2> QED BY <1>1, <1>2, <1>5, <2>1, ClosedSettles, Zenon DEF Install
<1>6. CASE Rot
  <2>1. UNCHANGED records \/ \E s \in Stores : Idle(s) /\ \E r : records' = [records EXCEPT ![s] = r]
    BY <1>6, Zenon DEF Rot
  <2> QED BY <1>1, <1>2, <1>3, <2>1, ClosedSettles, Zenon
<1> QED BY <1>4, <1>5, <1>6, Zenon

LEMMA StepKinds ==
    ASSUME LeastMembers, Exclusive, RInv, Line, [Next]_vars
    PROVE  Settled \/ Acts
<1>1. CASE UNCHANGED vars
  BY <1>1, Zenon DEF vars, Settled
<1>2. ASSUME NEW p \in Procs, NEW s \in Stores, Start(p, s) \/ OpenStandby(p, s)
      PROVE  Settled \/ Acts
  BY <1>2, StartKind, Zenon
<1>3. ASSUME NEW p \in Procs, Record(p) \/ Decide(p) \/ EndRun(p) \/ Stop(p) \/ Promote(p)
      PROVE  Settled \/ Acts
  BY <1>3, StopKind, PromoteKind, Zenon DEF Acts
<1>4. ASSUME NEW p \in Procs, NEW q \in Procs, Sync(p, q) PROVE Settled
  BY <1>4, SyncKind, Zenon
<1>5. ASSUME NEW s \in Stores, ReadForBackup(s) \/ MoveAside(s) PROVE Settled
  BY <1>5, BackupKind, RestoreKind, Zenon
<1>6. CASE ClearPrevious \/ VacuumInto \/ WriteManifest \/ Install \/ CrashJob \/ Rot
  BY <1>6, BackupKind, RestoreKind, Zenon
<1> QED BY <1>1, <1>2, <1>3, <1>4, <1>5, <1>6, Zenon DEF Next

\* A server that takes over continues a history that begins with all that was witnessed.
LEMMA TakeOverForms ==
    ASSUME LeastMembers, RInv, Line, NEW p \in Procs, NEW s \in Stores,
           NEW last \in OpenAnchor, TakesOver(p, s, last)
    PROVE  /\ lived' = Tip(records[s]) /\ lived' \in Hashes
           /\ Highest(anchor, last, lived) /\ Begins(last, lived')
           /\ \A h \in anchor : Begins(h, lived')
           /\ \/ anchor' = anchor
              \/ anchor' = anchor \cup {lived'} /\ Len(last) <= Len(lived')
<1> DEFINE head == Tip(records[s])
<1>1. /\ lived' = head /\ Witness(last, head) /\ Verify(records[s])
      /\ Check(last, Tip(records[s]), records[s])
  BY Zenon DEF TakesOver, Serve
<1>2. /\ records[s] \in Recs /\ head \in Hashes /\ anchor \in SUBSET Hashes
      /\ lived \in Hashes
  BY SameRecords, Zenon DEF RInv, Typed
<1>3. OpenAnchor = Tops(anchor)
  BY Zenon DEF OpenAnchor, Tops
<1>4. Highest(anchor, last, lived)
  BY <1>2, <1>3, TopForms, Zenon DEF Line, Kept
<1>5. last \in Hashes
  BY <1>4, Zenon DEF Highest
<1>6. Begins(last, head)
  BY <1>1, <1>2, <1>5, CheckBegins, Zenon
<1>7. ASSUME NEW h \in anchor PROVE Begins(h, head)
  <2>1. h \in Hashes /\ Begins(h, last)
    BY <1>2, <1>4, Zenon DEF Highest
  <2> QED BY <1>2, <1>5, <1>6, <2>1, PrefixTransitive, Zenon
<1>8. Len(last) <= Len(head)
  BY <1>6, Zenon DEF Begins
<1> QED BY <1>1, <1>2, <1>4, <1>6, <1>7, <1>8, Zenon DEF Witness

LEMMA TakeOverKeeps ==
    ASSUME LeastMembers, Exclusive, RInv, Line, NEW p \in Procs, NEW s \in Stores,
           NEW last \in OpenAnchor, TakesOver(p, s, last)
    PROVE  Line'
<1> DEFINE head == Tip(records[s])
           handle == [role |-> "server", store |-> s, head |-> head,
                      last |-> Witnessed(last, head)]
<1>1. /\ proc' = [proc EXCEPT ![p] = handle] /\ records' = records /\ practice' = practice
      /\ (practice.fenced => Serving = {}) /\ (~practice.fenced => s \in practice.homes)
  BY Zenon DEF TakesOver, Serve
<1>2. handle.role = "server" /\ handle.store = s
  BY Zenon
<1> HIDE DEF handle
<1>3. proc'[p] = handle /\ \A q \in Procs : q # p => proc'[q] = proc[q]
  BY <1>1, Zenon DEF RInv, Typed
<1>4. Homed'
  BY <1>1, <1>2, <1>3, Zenon DEF Homed, Line
<1>5. ASSUME NEW q \in Procs, proc'[q].role = "server" PROVE proc'[q].store = s
  <2>1. CASE practice.fenced
    BY <1>1, <1>2, <1>3, <1>5, <2>1, Zenon DEF Serving
  <2>2. CASE ~practice.fenced
    <3>1. PICK t \in Stores : practice.homes \subseteq {t}
      BY <2>2, Zenon DEF Exclusive, Alone, RInv, Typed
    <3>2. proc'[q].store \in practice.homes /\ s \in practice.homes
      BY <1>1, <1>4, <1>5, <2>2, Zenon DEF Homed
    <3> QED BY <3>1, <3>2, Zenon
  <2> QED BY <2>1, <2>2, Zenon
<1>6. OneStore'
  BY <1>5, Zenon DEF OneStore
<1>7. /\ lived' = Tip(records[s]) /\ lived' \in Hashes
      /\ \A h \in anchor' : Begins(h, lived')
  BY TakeOverForms, PrefixSelf, Zenon
<1>8. Acted'
  BY <1>1, <1>5, <1>7, Zenon DEF Acted, Tip
<1> QED BY <1>4, <1>6, <1>7, <1>8, Zenon DEF Line, Kept

\* What a server does to the history it acts on.
LEMMA ServerKeeps ==
    ASSUME Line, NEW p \in Procs, proc[p].role = "server",
           \A q \in Procs : proc'[q].role = proc[q].role /\ proc'[q].store = proc[q].store,
           practice' = practice, lived' = Tip(records'[proc[p].store]),
           \A h \in anchor' : Begins(h, lived')
    PROVE  Line'
<1>1. OneStore' /\ Homed' /\ Kept'
  BY ZenonT(30) DEF Line, OneStore, Homed, Kept
<1>2. ASSUME NEW q \in Procs, proc'[q].role = "server"
      PROVE  lived' = Tip(records'[proc'[q].store])
  BY <1>2, Zenon DEF Line, OneStore
<1>3. Acted'
  BY <1>2, Zenon DEF Acted, Tip
<1> QED BY <1>1, <1>3, Zenon DEF Line

\* A server that records or witnesses stays one on its store.
LEMMA ServerHandles ==
    ASSUME RInv, NEW p \in Procs, Record(p) \/ Decide(p) \/ EndRun(p)
    PROVE  /\ proc[p].role = "server"
           /\ \E x, y : proc' = [proc EXCEPT ![p] = Handle("server", proc[p].store, x, y)]
<1>1. proc[p].role = "server" /\ proc[p] \in Handles
  BY Zenon DEF RInv, Typed, Record, Decide, EndRun
<1>2. CASE Record(p)
  <2>1. PICK x : proc' = [proc EXCEPT ![p].head = x]
    BY <1>2, Zenon DEF Record
  <2>2. [proc[p] EXCEPT !.head = x] = Handle(proc[p].role, proc[p].store, x, proc[p].last)
    BY <1>1, HandleForms, Zenon
  <2> QED BY <1>1, <2>1, <2>2, Zenon
<1>3. CASE Decide(p)
  <2>1. PICK x : proc' = [proc EXCEPT ![p].head = x, ![p].last = Witnessed(@, x)]
    BY <1>3, Zenon DEF Decide
  <2> DEFINE y == Witnessed(proc[p].last, x)
  <2>2. proc' = [proc EXCEPT ![p] = [proc[p] EXCEPT !.head = x, !.last = y]]
    BY <1>1, <2>1, Zenon DEF Handles
  <2> HIDE DEF y
  <2>3. [proc[p] EXCEPT !.head = x, !.last = y] = Handle(proc[p].role, proc[p].store, x, y)
    BY <1>1, HandleFields, Zenon
  <2> QED BY <1>1, <2>2, <2>3, Zenon
<1>4. CASE EndRun(p)
  <2>1. PICK x : proc' = [proc EXCEPT ![p].last = x]
    BY <1>4, Zenon DEF EndRun
  <2>2. [proc[p] EXCEPT !.last = x] = Handle(proc[p].role, proc[p].store, proc[p].head, x)
    BY <1>1, HandleForms, Zenon
  <2> QED BY <1>1, <2>1, <2>2, Zenon
<1> QED BY <1>1, <1>2, <1>3, <1>4, Zenon

LEMMA RecordingForms ==
    ASSUME LeastMembers, RInv, Line, NEW p \in Procs, Record(p) \/ Decide(p)
    PROVE  /\ lived' = Append(lived, made + 1) /\ made + 1 \in Events /\ lived' \in Hashes
           /\ anchor' = anchor \/ anchor' = anchor \cup {lived'}
           /\ lived' = Tip(records'[proc[p].store]) /\ practice' = practice
           /\ proc[p].role = "server"
<1> DEFINE s == proc[p].store
           recs == AppendRecord(records[s], proc[p].head, made + 1)
           tip == Tip(recs)
<1>1. /\ proc[p].role = "server" /\ MayRecord /\ recs # None
      /\ records' = [records EXCEPT ![s] = recs] /\ lived' = tip /\ practice' = practice
      /\ anchor' = anchor \/ Witness(proc[p].last, tip)
  BY DEF Record, Decide, saved
<1>2. anchor' = anchor \/ anchor' = anchor \cup {lived'}
  BY <1>1, Zenon DEF Witness
<1>3. /\ Tip(recs) = Append(Tip(records[s]), made + 1) /\ made + 1 \in Events
      /\ Tip(recs) \in Hashes
  <2> HIDE DEF recs
  <2>1. recs = AppendRecord(records[proc[p].store], proc[p].head, made + 1)
    BY Zenon DEF recs
  <2> QED BY <1>1, <2>1, AppendForms
<1>4. lived = Tip(records[s])
  BY <1>1, Zenon DEF Line, Acted
<1>5. records'[s] = recs
  <2>1. s \in Stores /\ records \in [Stores -> Recs]
    <3>1. proc[p].role # "down"
      BY <1>1, Zenon
    <3> QED BY <3>1, HeldChain, Zenon DEF RInv, Typed
  <2> QED BY <1>1, <2>1, Zenon
<1> QED BY <1>1, <1>2, <1>3, <1>4, <1>5, Zenon

LEMMA HandleSame ==
    ASSUME RInv, NEW p \in Procs, NEW x, NEW y,
           proc' = [proc EXCEPT ![p] = Handle(proc[p].role, proc[p].store, x, y)]
    PROVE  \A q \in Procs : proc'[q].role = proc[q].role /\ proc'[q].store = proc[q].store
<1> DEFINE h == Handle(proc[p].role, proc[p].store, x, y)
<1>1. h.role = proc[p].role /\ h.store = proc[p].store
  BY DEF Handle
<1>2. proc' = [proc EXCEPT ![p] = h]
  OBVIOUS
<1> HIDE DEF h
<1>3. proc'[p] = h /\ \A q \in Procs : q # p => proc'[q] = proc[q]
  BY <1>2, Zenon DEF RInv, Typed
<1> QED BY <1>1, <1>3, Zenon

LEMMA RecordingKeeps ==
    ASSUME LeastMembers, RInv, Line, NEW p \in Procs, Record(p) \/ Decide(p)
    PROVE  Line'
<1>1. /\ lived' = Append(lived, made + 1) /\ made + 1 \in Events /\ lived' \in Hashes
      /\ anchor' = anchor \/ anchor' = anchor \cup {lived'}
      /\ lived' = Tip(records'[proc[p].store]) /\ practice' = practice
      /\ proc[p].role = "server"
  BY RecordingForms, Zenon
<1>2. PICK x, y : proc' = [proc EXCEPT ![p] = Handle("server", proc[p].store, x, y)]
  BY ServerHandles, Zenon
<1>3. \A q \in Procs : proc'[q].role = proc[q].role /\ proc'[q].store = proc[q].store
  BY <1>1, <1>2, HandleSame, Zenon
<1>4. ASSUME NEW h \in anchor' PROVE Begins(h, lived')
  <2>1. CASE h \in anchor
    <3>1. h \in Hashes /\ lived \in Hashes /\ Begins(h, lived)
      BY <2>1, Zenon DEF RInv, Typed, Line, Kept
    <3> QED BY <1>1, <3>1, PrefixGrows, Zenon
  <2>2. CASE h = lived'
    BY <1>1, <2>2, PrefixSelf, Zenon
  <2> QED BY <1>1, <2>1, <2>2, Zenon
<1> QED BY <1>1, <1>3, <1>4, ServerKeeps, Zenon

LEMMA EndRunForms ==
    ASSUME RInv, Line, NEW p \in Procs, EndRun(p)
    PROVE  /\ lived' = lived /\ anchor' = anchor \cup {proc[p].head}
           /\ proc[p].head \in Hashes /\ Begins(proc[p].head, lived)
<1>1. /\ proc[p].role = "server" /\ lived' = lived /\ anchor' = anchor \cup {proc[p].head}
  BY Zenon DEF EndRun, Witness
<1>2. proc[p].role # "down"
  BY <1>1
<1> QED BY <1>1, <1>2, HeldChain, Zenon DEF Line, Acted

LEMMA EndRunKeeps ==
    ASSUME RInv, Line, NEW p \in Procs, EndRun(p)
    PROVE  Line'
<1>1. proc[p].role = "server" /\ records' = records /\ practice' = practice
  BY Zenon DEF EndRun, saved
<1>2. PICK x, y : proc' = [proc EXCEPT ![p] = Handle("server", proc[p].store, x, y)]
  BY ServerHandles, Zenon
<1>3. \A q \in Procs : proc'[q].role = proc[q].role /\ proc'[q].store = proc[q].store
  BY <1>1, <1>2, HandleSame, Zenon
<1>4. \A h \in anchor' : Begins(h, lived')
  BY EndRunForms, Zenon DEF Line, Kept
<1>5. lived' = Tip(records'[proc[p].store])
  BY <1>1, EndRunForms, Zenon DEF Line, Acted
<1> QED BY <1>1, <1>3, <1>4, <1>5, ServerKeeps, Zenon

LEMMA LineNext ==
    ASSUME LeastMembers, Exclusive, RInv, Line, [Next]_vars
    PROVE  Line'
<1>1. CASE Settled
  BY <1>1, SettledKeeps, Zenon
<1>2. CASE Acts
  BY <1>2, RecordingKeeps, EndRunKeeps, TakeOverKeeps, Zenon DEF Acts
<1> QED BY <1>1, <1>2, StepKinds, Zenon

\* The head OpenAnchor finds.
Top(A) == CHOOSE h \in Tops(A) : TRUE

LEMMA TopHighest ==
    ASSUME LeastMembers, NEW l \in Hashes, NEW A \in SUBSET Hashes,
           \A h \in A : Begins(h, l)
    PROVE  Highest(A, Top(A), l)
<1>1. Tops(A) # {}
  <2>1. CASE A = {}
    BY <2>1, Zenon DEF Tops
  <2>2. CASE A # {}
    BY <2>2, TopExists, Zenon DEF Tops
  <2> QED BY <2>1, <2>2, Zenon
<1>2. Top(A) \in Tops(A)
  BY <1>1, Zenon DEF Top
<1> QED BY <1>2, TopForms, Zenon

\* A head that all heads in the file begin is the highest once it is there.
LEMMA TopGrows ==
    ASSUME LeastMembers, NEW l \in Hashes, NEW A \in SUBSET Hashes,
           \A h \in A : Begins(h, l)
    PROVE  Top(A \cup {l}) = l
<1> DEFINE B == A \cup {l}
<1>1. B \in SUBSET Hashes /\ B # {} /\ l \in B /\ \A h \in B : Begins(h, l)
  BY PrefixSelf, Zenon
<1> HIDE DEF B
<1>2. Highest(B, Top(B), l)
  BY <1>1, TopHighest, Zenon
<1>3. \A g \in B : Len(g) <= Len(l)
  BY <1>1, Zenon DEF Begins
<1>4. l \in Tops(B)
  BY <1>1, <1>3, Zenon DEF Tops
<1>5. Top(B) = l
  BY <1>2, <1>4, Zenon DEF Highest
<1> QED BY <1>5, Zenon DEF B

LEMMA NewestForms == Newest = Top(anchor) /\ Newest' = Top(anchor')
  BY Zenon DEF Newest, OpenAnchor, Top, Tops

LEMMA NewestHighest ==
    ASSUME LeastMembers, RInv, Line
    PROVE  Highest(anchor, Newest, lived)
  BY TopHighest, NewestForms, Zenon DEF RInv, Typed, Line, Kept

LEMMA TakeOverRefines ==
    ASSUME LeastMembers, RInv, Line, NEW p \in Procs, NEW s \in Stores,
           NEW last \in OpenAnchor, TakesOver(p, s, last)
    PROVE  Cluster!TakeOver
<1>1. /\ lived' \in Hashes /\ Highest(anchor, last, lived) /\ Begins(last, lived')
      /\ \A h \in anchor : Begins(h, lived')
      /\ anchor' = anchor \/ anchor' = anchor \cup {lived'}
  BY TakeOverForms, Zenon
<1>2. last = Newest
  BY <1>1, NewestHighest, Zenon DEF Highest
<1>3. anchor \in SUBSET Hashes
  BY Zenon DEF RInv, Typed
<1>4. Newest' \in {Newest, lived'}
  <2>1. CASE anchor' = anchor
    BY <2>1, NewestForms, Zenon
  <2>2. CASE anchor' = anchor \cup {lived'}
    BY <1>1, <1>3, <2>2, NewestForms, TopGrows, Zenon
  <2> QED BY <1>1, <2>1, <2>2, Zenon
<1> HIDE DEF Newest
<1> QED BY <1>1, <1>2, <1>4, Zenon DEF Cluster!TakeOver, Cluster!Kept, Begins, Hashes

LEMMA RecordRefines ==
    ASSUME LeastMembers, RInv, Line, NEW p \in Procs, Record(p) \/ Decide(p)
    PROVE  Cluster!Record
<1>1. /\ lived' = Append(lived, made + 1) /\ made + 1 \in Events /\ lived' \in Hashes
      /\ anchor' = anchor \/ anchor' = anchor \cup {lived'}
  BY RecordingForms, Zenon
<1>2. anchor \in SUBSET Hashes /\ lived \in Hashes
  BY Zenon DEF RInv, Typed
<1>3. \A h \in anchor : Begins(h, lived')
  <2> SUFFICES ASSUME NEW h \in anchor PROVE Begins(h, lived')
    BY Zenon
  <2>1. h \in Hashes /\ Begins(h, lived)
    BY <1>2, Zenon DEF Line, Kept
  <2> QED BY <1>1, <1>2, <2>1, PrefixGrows, Zenon
<1>4. Newest' \in {Newest, lived'}
  <2>1. CASE anchor' = anchor
    BY <2>1, NewestForms, Zenon
  <2>2. CASE anchor' = anchor \cup {lived'}
    BY <1>1, <1>2, <1>3, <2>2, NewestForms, TopGrows, Zenon
  <2> QED BY <1>1, <2>1, <2>2, Zenon
<1> QED BY <1>1, <1>4, Zenon DEF Cluster!Record

LEMMA EndRunRefines ==
    ASSUME LeastMembers, RInv, Line, NEW p \in Procs, EndRun(p)
    PROVE  Cluster!Witness
<1>1. /\ lived' = lived /\ anchor' = anchor \cup {proc[p].head} /\ lived \in Hashes
      /\ anchor' \in SUBSET Hashes /\ \A h \in anchor' : Begins(h, lived)
  BY EndRunForms, Zenon DEF RInv, Typed, Line, Kept
<1>2. Highest(anchor, Newest, lived) /\ Highest(anchor', Newest', lived)
  BY <1>1, NewestHighest, NewestForms, TopHighest, Zenon
<1> HIDE DEF Newest
<1>3. Newest' \in Hashes /\ Newest \in Tops(anchor) /\ Begins(Newest', lived)
  BY <1>2, Zenon DEF Highest
<1>4. Begins(Newest, Newest')
  <2>1. CASE anchor = {}
    <3>1. Newest = <<>>
      BY <1>3, <2>1, Zenon DEF Tops
    <3> QED BY <1>3, <3>1, PrefixEmpty, Zenon
  <2>2. CASE anchor # {}
    <3>1. Newest \in anchor'
      BY <1>1, <1>3, <2>2, Zenon DEF Tops
    <3> QED BY <1>2, <3>1, Zenon DEF Highest
  <2> QED BY <2>1, <2>2, Zenon
<1>5. Newest' = SubSeq(lived, 1, Len(Newest')) /\ Len(Newest') \in 0 .. Len(lived)
  <2>1. Len(Newest') <= Len(lived) /\ Newest' = SubSeq(lived, 1, Len(Newest'))
    BY <1>3, Zenon DEF Begins
  <2>2. Len(Newest') \in Nat /\ Len(lived) \in Nat
    BY <1>1, <1>3 DEF Hashes
  <2> QED BY <2>1, <2>2
<1> QED BY <1>1, <1>4, <1>5, Zenon DEF Cluster!Witness, Cluster!Kept, Begins

LEMMA HistoryStep ==
    ASSUME LeastMembers, Exclusive, RInv, Line, [Next]_vars
    PROVE  [Cluster!Next]_<<lived, Newest>>
<1>1. CASE Settled
  <2>1. lived' = lived /\ Newest' = Newest
    BY <1>1, NewestForms, Zenon DEF Settled
  <2> QED BY <2>1, Zenon
<1>2. CASE Acts
  BY <1>2, TakeOverRefines, RecordRefines, EndRunRefines, Zenon DEF Acts, Cluster!Next
<1> QED BY <1>1, <1>2, StepKinds, Zenon

LEMMA HistoryInit == Init => Cluster!Init
<1> SUFFICES ASSUME Init PROVE lived = <<>> /\ Newest = <<>>
  BY Zenon DEF Cluster!Init
<1>1. OpenAnchor = {<<>>}
  BY Zenon DEF Init, OpenAnchor
<1> QED BY <1>1, Zenon DEF Init, Newest

-----------------------------------------------------------------------------
(* A standby that is sent the log from its beginning.                       *)

LEMMA SentWhole ==
    ASSUME NEW from \in Recs, NEW n \in Nat
    PROVE  LET batch == Sent(from, 0, n) IN
           /\ batch \in Recs
           /\ \A k \in 1 .. Len(batch) : k \in 1 .. Len(from) /\ batch[k] = from[k]
<1> DEFINE batch == Sent(from, 0, n)
<1>1. Len(from) \in Nat
  BY RecordForms, Zenon
<1>2. CASE Len(from) <= 0
  BY <1>2 DEF Sent, Recs
<1>3. CASE ~(Len(from) <= 0)
  <2> DEFINE m == IF Len(from) < 0 + n THEN Len(from) ELSE 0 + n
  <2>1. m \in Nat /\ m <= Len(from)
    BY <1>1
  <2>2. batch = SubSeq(from, 0 + 1, m)
    BY <1>3, Zenon DEF Sent
  <2> HIDE DEF m, batch
  <2>3. /\ batch \in Seq(Rec) /\ Len(batch) = m
        /\ \A k \in 1 .. m : batch[k] = from[k]
    BY <2>1, <2>2 DEF Recs
  <2>4. /\ batch \in Recs
        /\ \A k \in 1 .. Len(batch) : k \in 1 .. Len(from) /\ batch[k] = from[k]
    BY <1>1, <2>1, <2>3 DEF Recs
  <2> QED BY <2>4, Zenon DEF batch
<1> QED BY <1>2, <1>3, Zenon

\* The records so far were held already and equal to the primary's, or one of them was not.
Waiting(f, recs, head, from, k) ==
    /\ f = [recs |-> recs, head |-> head, ok |-> f.ok]
    /\ f.ok => k <= Len(head) /\ (k # 0 => recs[k].hash = from[k].hash)

LEMMA WaitingOne ==
    ASSUME LeastMembers, NEW recs \in Recs, Verify(recs), NEW head \in Hashes,
           Begins(head, Tip(recs)), NEW from \in Recs, Verify(from),
           NEW k \in 1 .. Len(from), NEW f, Waiting(f, recs, head, from, k - 1)
    PROVE  \/ Begins(Tip(recs), Tip(from))
           \/ Waiting(IngestOne(f, from[k]), recs, head, from, k)
<1> DEFINE g == IngestOne(f, from[k])
           new == AppendRecord(f.recs, f.head, from[k].event)
<1>1. f.recs = recs /\ f.head = head /\ f = [recs |-> recs, head |-> head, ok |-> f.ok]
  BY DEF Waiting
<1>2. /\ Len(from[k].hash) = k /\ Len(from) \in Nat /\ Len(recs) \in Nat /\ Len(head) \in Nat
      /\ k \in Nat /\ k # 0
  <2>1. Len(from) \in Nat /\ Len(recs) \in Nat /\ Len(from[k].hash) = k
    BY RecordForms, ChainLengths, Zenon
  <2>2. Len(head) \in Nat
    BY DEF Hashes
  <2> QED BY <2>1, <2>2
<1>3. \A b : LET h == [f EXCEPT !.ok = b] IN
             h = [recs |-> recs, head |-> head, ok |-> b] /\ h.ok = b
  <2> SUFFICES ASSUME NEW b
               PROVE  LET h == [f EXCEPT !.ok = b] IN
                      h = [recs |-> recs, head |-> head, ok |-> b] /\ h.ok = b
    BY Zenon
  <2> QED BY <1>1
<1>4. CASE ~f.ok
  <2>1. g = f
    BY <1>4, Zenon DEF IngestOne
  <2> QED BY <1>1, <1>4, <2>1, Zenon DEF Waiting
<1>5. CASE f.ok /\ Len(from[k].hash) <= Len(f.head)
  <2> DEFINE c == ConfirmRecord(f.recs, from[k])
  <2>1. g = [f EXCEPT !.ok = c]
    BY <1>5, Zenon DEF IngestOne
  <2>2. c => recs[k].hash = from[k].hash
    BY <1>1, <1>2, Zenon DEF ConfirmRecord
  <2>3. k <= Len(head)
    BY <1>1, <1>2, <1>5, Zenon
  <2> HIDE DEF c, g
  <2>4. g = [recs |-> recs, head |-> head, ok |-> c] /\ g.ok = c
    BY <1>3, <2>1, Zenon
  <2>5. Waiting(g, recs, head, from, k)
    BY <2>2, <2>3, <2>4, Zenon DEF Waiting
  <2> QED BY <2>5, Zenon DEF g
<1>6. CASE /\ f.ok /\ ~(Len(from[k].hash) <= Len(f.head))
           /\ new = None \/ Len(from[k].hash) # Len(f.head) + 1
  <2>1. g = [f EXCEPT !.ok = FALSE]
    BY <1>6, Zenon DEF IngestOne
  <2> HIDE DEF g
  <2>2. g = [recs |-> recs, head |-> head, ok |-> FALSE] /\ g.ok = FALSE
    BY <1>3, <2>1, Zenon
  <2>3. Waiting(g, recs, head, from, k)
    BY <2>2, Zenon DEF Waiting
  <2> QED BY <2>3, Zenon DEF g
<1>7. CASE /\ f.ok /\ ~(Len(from[k].hash) <= Len(f.head))
           /\ ~(new = None \/ Len(from[k].hash) # Len(f.head) + 1)
  <2>1. Len(recs) = Len(head)
    BY <1>1, <1>7, Zenon DEF AppendRecord
  <2>2. k - 1 <= Len(head) /\ (k - 1 # 0 => recs[k - 1].hash = from[k - 1].hash)
    BY <1>7, Zenon DEF Waiting
  <2>3. k - 1 = Len(recs)
    BY <1>1, <1>2, <1>7, <2>1, <2>2
  <2>4. Tip(from) \in Hashes
    BY TipForms, Zenon
  <2>5. CASE Len(recs) = 0
    BY <2>4, <2>5, TipForms, PrefixEmpty, Zenon
  <2>6. CASE Len(recs) # 0
    <3>1. Tip(recs) = from[k - 1].hash
      BY <2>2, <2>3, <2>6, TipForms, Zenon
    <3>2. k - 1 \in 1 .. Len(from)
      BY <1>2, <2>3, <2>6
    <3> QED BY <3>1, <3>2, ChainBegins, Zenon
  <2> QED BY <2>5, <2>6, Zenon
<1> QED BY <1>4, <1>5, <1>6, <1>7, Zenon

\* A record is taken only onto a beginning of the primary's history (File.Ingest).
LEMMA IngestWhole ==
    ASSUME LeastMembers, NEW recs \in Recs, Verify(recs), NEW head \in Hashes,
           Begins(head, Tip(recs)), NEW from \in Recs, Verify(from), NEW n \in Nat,
           ~Begins(Tip(recs), Tip(from))
    PROVE  Ingest(recs, head, Sent(from, 0, n)).head = head
<1> DEFINE batch == Sent(from, 0, n)
           all == Len(batch)
           f0 == [recs |-> recs, head |-> head, ok |-> TRUE]
           G == [k \in 0 .. all |-> {f \in Files : Waiting(f, recs, head, from, k)}]
<1>1. /\ batch \in Recs
      /\ \A k \in 1 .. all : k \in 1 .. Len(from) /\ batch[k] = from[k]
  BY SentWhole, Zenon
<1> HIDE DEF batch
<1>2. all \in Nat /\ Len(head) \in Nat
  <2>1. all \in Nat
    BY <1>1, RecordForms, Zenon
  <2> QED BY <2>1 DEF Hashes
<1>3. f0 \in G[0]
  <2>1. f0 \in Files /\ f0.ok = TRUE /\ 0 \in 0 .. all /\ 0 <= Len(head)
    BY <1>2 DEF Files
  <2>2. Waiting(f0, recs, head, from, 0)
    BY <2>1, Zenon DEF Waiting
  <2> QED BY <2>1, <2>2, Zenon
<1>4. ASSUME NEW k \in 1 .. all, NEW f \in G[k - 1]
      PROVE  IngestOne(f, batch[k]) \in G[k]
  <2> DEFINE g == IngestOne(f, from[k])
  <2>1. k - 1 \in 0 .. all /\ k \in 0 .. all
    BY <1>2
  <2>2. f \in Files /\ Waiting(f, recs, head, from, k - 1)
    BY <2>1, Zenon
  <2>3. f.recs = recs /\ f.head = head
    BY <2>2 DEF Waiting
  <2>4. k \in 1 .. Len(from) /\ batch[k] = from[k] /\ from[k].event \in Events
    BY <1>1, RecordForms, Zenon
  <2>5. Sound(f)
    BY <2>3, Zenon DEF Sound
  <2>6. g \in Files
    <3>1. Continues(f, g)
      BY <2>2, <2>4, <2>5, IngestOneSound, Zenon
    <3> HIDE DEF g
    <3> QED BY <3>1, Zenon DEF Continues
  <2>7. Waiting(g, recs, head, from, k)
    BY <2>2, <2>4, WaitingOne, Zenon
  <2> HIDE DEF g
  <2>8. g \in G[k]
    BY <2>1, <2>6, <2>7, Zenon
  <2> QED BY <2>4, <2>8, Zenon DEF g
<1>5. all \in 0 .. all
  BY <1>2
<1> DEFINE end == Ingest(recs, head, batch)
<1>6. end \in G[all]
  <2> HIDE DEF G
  <2> QED BY <1>1, <1>3, <1>4, IngestInduction, Zenon
<1> HIDE DEF end
<1>7. Waiting(end, recs, head, from, all)
  BY <1>5, <1>6, Zenon
<1>8. end.head = head
  BY <1>7 DEF Waiting
<1> QED BY <1>8, Zenon DEF end, batch

\* Only a record that was taken changes the head of a standby that stays one.
LEMMA HeadMoves ==
    ASSUME RInv, [Next]_vars, NEW p \in Procs, proc[p].role = "standby",
           proc'[p].role = "standby", proc'[p].head # proc[p].head
    PROVE  \E q \in Procs : Sync(p, q)
<1>1. proc \in [Procs -> Handles] /\ proc[p] \in Handles
  BY Zenon DEF RInv, Typed
<1>2. proc' # proc
  BY Zenon
<1>3. /\ \A s \in Stores : ~ReadForBackup(s) /\ ~MoveAside(s)
      /\ ~ClearPrevious /\ ~VacuumInto /\ ~WriteManifest /\ ~Install /\ ~CrashJob /\ ~Rot
      /\ ~UNCHANGED vars
  BY <1>2, Zenon DEF ReadForBackup, MoveAside, ClearPrevious, VacuumInto, WriteManifest,
     Install, CrashJob, Rot, vars
<1>4. proc[p].role # "down" /\ proc[p].role # "server" /\ Down.role # "standby"
  BY DEF Down
<1>5. \A r \in Procs : \A handle : proc' = [proc EXCEPT ![r] = handle] 
                                             => r = p /\ proc'[p] = handle
  BY <1>1, Zenon
<1>6. ASSUME NEW r \in Procs, NEW s, NEW last, Serve(r, s, last) PROVE FALSE
  <2> DEFINE handle == [role |-> "server", store |-> s, head |-> Tip(records[s]),
                        last |-> Witnessed(last, Tip(records[s]))]
  <2>1. proc' = [proc EXCEPT ![r] = handle]
    BY <1>6, Zenon DEF Serve
  <2>2. handle.role = "server"
    BY Zenon
  <2> HIDE DEF handle
  <2>3. proc'[p].role = "server"
    BY <1>5, <2>1, <2>2, Zenon
  <2> QED BY <2>3
<1>7. ASSUME NEW r \in Procs, NEW s \in Stores, Start(r, s) \/ OpenStandby(r, s) PROVE FALSE
  <2>1. CASE Start(r, s)
    BY <1>6, <2>1, Zenon DEF Start
  <2>2. CASE OpenStandby(r, s)
    <3>1. proc[r].role = "down" /\ \E handle : proc' = [proc EXCEPT ![r] = handle]
      BY <2>2, Zenon DEF OpenStandby
    <3> QED BY <1>4, <1>5, <3>1, Zenon
  <2> QED BY <1>7, <2>1, <2>2, Zenon
<1>8. ASSUME NEW r \in Procs, Record(r) \/ Decide(r) \/ EndRun(r) PROVE FALSE
  <2>1. proc[r].role = "server" /\ r # p
    BY <1>4, <1>8, Zenon DEF Record, Decide, EndRun
  <2>2. \E handle : proc' = [proc EXCEPT ![r] = handle]
    BY <1>8, ServerHandles, Zenon
  <2> QED BY <1>5, <2>1, <2>2, Zenon
<1>9. ASSUME NEW r \in Procs, Stop(r) PROVE FALSE
  <2>1. proc' = [proc EXCEPT ![r] = Down]
    BY <1>9, Zenon DEF Stop
  <2> QED BY <1>4, <1>5, <2>1, Zenon
<1>10. ASSUME NEW r \in Procs, Promote(r) PROVE FALSE
  <2>1. (\E last : Serve(r, proc[r].store, last)) \/ proc' = [proc EXCEPT ![r].role = "closed"]
    BY <1>10, Zenon DEF Promote
  <2>2. ASSUME proc' = [proc EXCEPT ![r].role = "closed"] PROVE FALSE
    <3> DEFINE handle == [proc[r] EXCEPT !.role = "closed"]
    <3>1. proc' = [proc EXCEPT ![r] = handle]
      BY <2>2, Zenon
    <3>2. proc[r] \in Handles
      BY <1>1, Zenon
    <3>3. handle.role = "closed"
      BY <3>2 DEF Handles
    <3> HIDE DEF handle
    <3>4. proc'[p].role = "closed"
      BY <1>5, <3>1, <3>3, Zenon
    <3> QED BY <3>4
  <2> QED BY <1>6, <2>1, <2>2, Zenon
<1>11. ASSUME NEW r \in Procs, NEW q \in Procs, Sync(r, q) PROVE r = p
  <2>1. \E handle : proc' = [proc EXCEPT ![r] = handle]
    BY <1>11, Zenon DEF Sync
  <2> QED BY <1>5, <2>1, Zenon
<1> QED BY <1>3, <1>7, <1>8, <1>9, <1>10, <1>11, Zenon DEF Next

Refuses ==
    \A p, q \in Procs :
        practice.whole /\ proc[p].role = "standby" /\ proc'[p].head # proc[p].head
          /\ proc'[p].role = "standby"
          /\ proc[q].role = "server" /\ proc[q].store # proc[p].store
            => Begins(Tip(records[proc[p].store]), Tip(records[proc[q].store]))

LEMMA RefusesStep ==
    ASSUME LeastMembers, RInv, Line, [Next]_vars
    PROVE  Refuses
<1> SUFFICES ASSUME NEW p \in Procs, NEW q \in Procs, practice.whole,
                    proc[p].role = "standby", proc'[p].head # proc[p].head,
                    proc'[p].role = "standby", proc[q].role = "server",
                    ~Begins(Tip(records[proc[p].store]), Tip(records[proc[q].store]))
             PROVE  FALSE
  BY Zenon DEF Refuses
<1>1. PICK r \in Procs : Sync(p, r)
  BY HeadMoves, Zenon
<1> DEFINE s == proc[p].store
           from == records[proc[q].store]
<1>2. proc[r].store = proc[q].store
  BY <1>1, Zenon DEF Sync, Line, OneStore
<1>3. Len(from) \in Nat /\ from \in Recs /\ Verify(from)
  <2>1. proc[q].role # "down"
    BY Zenon
  <2>2. from \in Recs /\ Verify(from)
    BY <2>1, HeldChain, Zenon
  <2> QED BY <2>2, RecordForms, Zenon
<1>4. PICK n \in 1 .. Len(from) :
        proc' = [proc EXCEPT ![p].head = Ingest(records[s], proc[p].head, Sent(from, 0, n)).head]
  <2> DEFINE after == IF practice.whole THEN 0 ELSE Len(proc[p].head)
             limit == IF practice.whole THEN Len(records[proc[r].store]) ELSE Batch
  <2>1. PICK n \in 1 .. limit :
          proc' = [proc EXCEPT ![p].head = Ingest(records[s], proc[p].head,
                                               Sent(records[proc[r].store], after, n)).head]
    BY <1>1, Zenon DEF Sync
  <2>2. after = 0 /\ limit = Len(from)
    BY <1>2, Zenon
  <2> HIDE DEF after, limit
  <2> QED BY <1>2, <2>1, <2>2, Zenon
<1>5. n \in Nat
  BY <1>3
<1>6. /\ records[s] \in Recs /\ Verify(records[s]) /\ proc[p].head \in Hashes
      /\ Begins(proc[p].head, Tip(records[s]))
  <2>1. proc[p].role # "down"
    BY Zenon
  <2> QED BY <2>1, HeldChain, Zenon
<1>7. Ingest(records[s], proc[p].head, Sent(from, 0, n)).head = proc[p].head
  BY <1>3, <1>5, <1>6, IngestWhole, ZenonT(30)
<1> DEFINE h == Ingest(records[s], proc[p].head, Sent(from, 0, n)).head
<1>8. h = proc[p].head
  BY <1>7, Zenon
<1>9. proc' = [proc EXCEPT ![p] = [proc[p] EXCEPT !.head = h]]
  BY <1>4, Zenon
<1> HIDE DEF h
<1>10. proc'[p] = [proc[p] EXCEPT !.head = h] /\ proc[p] \in Handles
  BY <1>9, Zenon DEF RInv, Typed
<1>11. [proc[p] EXCEPT !.head = h].head = h
  BY <1>10 DEF Handles
<1> QED BY <1>8, <1>10, <1>11, Zenon

-----------------------------------------------------------------------------
(* Backups.                                                                 *)

\* Nothing is recorded while a backup is under way: what was read is what is there.
Still ==
    "quiet" \in practice.uses =>
        /\ \A p \in Procs : proc[p].role # "standby"
        /\ job # None /\ job.kind # "restore" =>
            /\ job.records = records[job.store] /\ Verify(job.records)
            /\ job.kind = "written" => archive = job.records

LEMMA StillInit == Init => Still
<1>1. Down.role # "standby"
  BY DEF Down
<1> QED BY <1>1, Zenon DEF Init, Still

LEMMA NoStandby ==
    ASSUME RInv, [Next]_vars, "standby" \notin practice.uses,
           \A p \in Procs : proc[p].role # "standby"
    PROVE  \A p \in Procs : proc'[p].role # "standby"
<1>1. ASSUME NEW r \in Procs, NEW handle, proc' = [proc EXCEPT ![r] = handle],
             handle.role # "standby"
      PROVE  \A p \in Procs : proc'[p].role # "standby"
  <2>1. proc'[r] = handle /\ \A p \in Procs : p # r => proc'[p] = proc[p]
    BY <1>1, Zenon DEF RInv, Typed
  <2> QED BY <1>1, <2>1, Zenon
<1>2. CASE proc' = proc
  BY <1>2, Zenon
<1>3. ASSUME NEW r \in Procs, NEW s \in Stores, Start(r, s)
      PROVE  \A p \in Procs : proc'[p].role # "standby"
  <2>1. PICK last : Serve(r, s, last)
    BY <1>3, Zenon DEF Start
  <2> DEFINE handle == [role |-> "server", store |-> s, head |-> Tip(records[s]),
                        last |-> Witnessed(last, Tip(records[s]))]
  <2>2. handle.role # "standby" /\ proc' = [proc EXCEPT ![r] = handle]
    BY <2>1 DEF Serve
  <2> HIDE DEF handle
  <2> QED BY <1>1, <2>2, Zenon
<1>4. ASSUME NEW r \in Procs, Record(r) \/ Decide(r) \/ EndRun(r)
      PROVE  \A p \in Procs : proc'[p].role # "standby"
  <2>1. PICK x, y : proc' = [proc EXCEPT ![r] = Handle("server", proc[r].store, x, y)]
    BY <1>4, ServerHandles, Zenon
  <2>2. Handle("server", proc[r].store, x, y).role # "standby"
    BY DEF Handle
  <2> QED BY <1>1, <2>1, <2>2, Zenon
<1>5. ASSUME NEW r \in Procs, Stop(r) PROVE \A p \in Procs : proc'[p].role # "standby"
  <2>1. proc' = [proc EXCEPT ![r] = Down] /\ Down.role # "standby"
    BY <1>5 DEF Stop, Down
  <2> QED BY <1>1, <2>1, Zenon
<1>6. /\ \A r \in Procs : ~Promote(r) /\ (\A q \in Procs : ~Sync(r, q))
      /\ \A r \in Procs : \A s \in Stores : ~OpenStandby(r, s)
  BY Zenon DEF Promote, Sync, OpenStandby
<1>7. CASE \/ \E s \in Stores : ReadForBackup(s) \/ MoveAside(s)
           \/ ClearPrevious \/ VacuumInto \/ WriteManifest \/ Install \/ CrashJob \/ Rot
           \/ UNCHANGED vars
  BY <1>2, <1>7, Zenon DEF ReadForBackup, MoveAside, ClearPrevious, VacuumInto,
     WriteManifest, Install, CrashJob, Rot, vars
<1> QED BY <1>3, <1>4, <1>5, <1>6, <1>7, Zenon DEF Next

LEMMA BackupStill ==
    ASSUME RInv, Still, "quiet" \in practice.uses,
           \/ \E s \in Stores : ReadForBackup(s) \/ MoveAside(s)
           \/ ClearPrevious \/ VacuumInto \/ WriteManifest \/ Install \/ CrashJob
    PROVE  job' # None /\ job'.kind # "restore" =>
             /\ job'.records = records'[job'.store] /\ Verify(job'.records)
             /\ job'.kind = "written" => archive' = job'.records
<1> DEFINE goal == job' # None /\ job'.kind # "restore" =>
                      /\ job'.records = records'[job'.store] /\ Verify(job'.records)
                      /\ job'.kind = "written" => archive' = job'.records
<1>1. CASE \E s \in Stores : ReadForBackup(s)
  <2>1. PICK s \in Stores : /\ records' = records /\ Verify(records[s])
                            /\ job' = [kind |-> "read", store |-> s, records |-> records[s]]
    BY <1>1, Zenon DEF ReadForBackup
  <2>2. job'.kind = "read" /\ job'.store = s /\ job'.records = records[s]
    BY <2>1
  <2>3. job'.kind # "written"
    BY <2>2
  <2> QED BY <2>1, <2>2, <2>3, Zenon
<1>2. CASE \E s \in Stores : MoveAside(s)
  <2>1. PICK s : job' = [kind |-> "restore", store |-> s, records |-> archive]
    BY <1>2, Zenon DEF MoveAside
  <2>2. job'.kind = "restore"
    BY <2>1
  <2> QED BY <2>2, Zenon
<1>3. CASE ClearPrevious \/ VacuumInto
  <2>1. job # None /\ job \in Jobs /\ job.kind \in {"read", "cleared"} /\ records' = records
    BY <1>3, Zenon DEF RInv, Typed, ClearPrevious, VacuumInto
  <2>2. job.kind # "restore"
    BY <2>1
  <2>3. job.records = records[job.store] /\ Verify(job.records)
    BY <2>1, <2>2, Zenon DEF Still
  <2>4. PICK k \in {"cleared", "written"} : /\ job' = [job EXCEPT !.kind = k]
                                            /\ k = "written" => archive' = records[job.store]
    <3>1. CASE ClearPrevious
      BY <3>1 DEF ClearPrevious
    <3>2. CASE VacuumInto
      BY <3>2, Zenon DEF VacuumInto
    <3> QED BY <1>3, <3>1, <3>2, Zenon
  <2>5. job'.kind = k /\ job'.store = job.store /\ job'.records = job.records
    BY <2>1, <2>4 DEF Jobs
  <2> QED BY <2>1, <2>3, <2>4, <2>5, Zenon
<1>4. CASE WriteManifest \/ Install \/ CrashJob
  BY <1>4, Zenon DEF WriteManifest, Install, CrashJob
<1> QED BY <1>1, <1>2, <1>3, <1>4, Zenon

LEMMA StillNext ==
    ASSUME Calm, RInv, Still, [Next]_vars
    PROVE  Still'
<1>1. practice' = practice /\ practice \in Practices
  <2>1. practice' = practice
    BY ZenonT(30) DEF Next, Start, OpenStandby, Record, Decide, EndRun, Stop, Sync, Promote,
       ReadForBackup, MoveAside, ClearPrevious, VacuumInto, WriteManifest, Install, CrashJob,
       Rot, saved, vars
  <2> QED BY <2>1, Zenon DEF RInv, Typed
<1>2. CASE "quiet" \notin practice.uses
  BY <1>1, <1>2, Zenon DEF Still
<1>3. CASE "quiet" \in practice.uses
  <2>1. "standby" \notin practice.uses /\ "rot" \notin practice.uses
    BY <1>1, <1>3, Zenon DEF Calm
  <2>2. \A p \in Procs : proc[p].role # "standby"
    BY <1>3, Zenon DEF Still
  <2>3. \A p \in Procs : proc'[p].role # "standby"
    BY <2>1, <2>2, NoStandby, Zenon
  <2>4. ASSUME job' = job, archive' = archive, job # None => records' = records
        PROVE  job' # None /\ job'.kind # "restore" =>
                 /\ job'.records = records'[job'.store] /\ Verify(job'.records)
                 /\ job'.kind = "written" => archive' = job'.records
    BY <1>3, <2>4, Zenon DEF Still
  <2>5. /\ ~Rot /\ \A p \in Procs : ~Promote(p) /\ (\A q \in Procs : ~Sync(p, q))
        /\ \A p \in Procs : \A s \in Stores : ~OpenStandby(p, s)
    BY <2>1, <2>2, Zenon DEF Rot, Promote, Sync, OpenStandby
  <2>6. ASSUME \/ \E p \in Procs : \/ Record(p) \/ Decide(p) \/ EndRun(p) \/ Stop(p)
                                   \/ \E s \in Stores : Start(p, s)
               \/ UNCHANGED vars
        PROVE  job' = job /\ archive' = archive /\ (job # None => records' = records)
    BY <1>3, <2>6, Zenon DEF Start, Record, Decide, EndRun, Stop, MayRecord, saved, vars
  <2>7. job' # None /\ job'.kind # "restore" =>
          /\ job'.records = records'[job'.store] /\ Verify(job'.records)
          /\ job'.kind = "written" => archive' = job'.records
    BY <1>3, <2>4, <2>5, <2>6, BackupStill, Zenon DEF Next
  <2> QED BY <2>3, <2>7, Zenon DEF Still, Verify
<1> QED BY <1>2, <1>3, Zenon

Verifies ==
    /\ WriteManifest /\ "quiet" \in practice.uses => VerifyBackup'
    /\ Install => Verify(records'[job.store])

LEMMA VerifiesStep ==
    ASSUME LeastMembers, RInv, Still
    PROVE  Verifies
<1>1. ASSUME WriteManifest, "quiet" \in practice.uses PROVE VerifyBackup'
  <2>1. /\ job # None /\ job.kind = "written" /\ archive' = archive
        /\ manifest' = [checksum |-> archive, head |-> Tip(job.records)]
    BY <1>1, Zenon DEF WriteManifest
  <2>2. job.kind # "restore"
    BY <2>1
  <2>3. job \in Jobs /\ archive = job.records /\ Verify(archive)
    BY <1>1, <2>1, <2>2, Zenon DEF RInv, Typed, Still
  <2>4. archive \in Recs
    BY <2>3 DEF Jobs
  <2>5. Tip(archive) \in Hashes /\ Len(Tip(archive)) = Len(archive)
    BY <2>3, <2>4, TipForms, TipLength, Zenon
  <2> DEFINE tip == Tip(archive)
  <2>6. manifest' = [checksum |-> archive, head |-> tip]
    BY <2>1, <2>3, Zenon
  <2> HIDE DEF tip
  <2>7. manifest'.checksum = archive /\ manifest'.head = tip /\ manifest' # None
    <3>1. [checksum |-> archive, head |-> tip] \in [checksum : Recs, head : Hashes]
      BY <2>4, <2>5 DEF tip
    <3>2. None \notin [checksum : Recs, head : Hashes]
      BY NoneAssumption, Zenon DEF Recs, Rec, Hashes
    <3> QED BY <2>6, <3>1, <3>2
  <2>8. archive # None
    BY <2>4, NoneAssumption, Zenon DEF Recs, Rec, Hashes
  <2> QED BY <2>1, <2>3, <2>5, <2>7, <2>8, Zenon DEF VerifyBackup, tip, Verify, Tip
<1>2. ASSUME Install PROVE Verify(records'[job.store])
  <2>1. /\ job # None /\ job.kind = "restore"
        /\ records' = [records EXCEPT ![job.store] = job.records]
    BY <1>2, Zenon DEF Install
  <2>2. job \in Jobs /\ records \in [Stores -> Recs]
    BY <2>1, Zenon DEF RInv, Typed
  <2>3. job.store \in Stores
    BY <2>2 DEF Jobs
  <2>4. Verify(job.records)
    BY <2>1, Zenon DEF RInv, ChainsHold, Restoring
  <2> QED BY <2>1, <2>2, <2>3, <2>4, Zenon
<1> QED BY <1>1, <1>2, Zenon DEF Verifies

-----------------------------------------------------------------------------
(* Least members, from the library, and the theorems.                        *)

LOCAL INSTANCE WellFoundedInduction

LEMMA LeastOf == LeastMembers
<1> SUFFICES ASSUME NEW S \in SUBSET Nat, S # {}
             PROVE  \E x \in S : \A y \in S : x <= y
  BY Zenon DEF LeastMembers
<1> DEFINE less == OpToRel(<, Nat)
<1>1. IsWellFoundedOn(less, Nat)
  BY NatLessThanWellFounded, Zenon
<1> HIDE DEF less
<1>2. PICK x \in S : \A y \in S : ~(<<y, x>> \in less)
  BY <1>1, WFMin, Zenon
<1>3. ASSUME NEW y \in S PROVE x <= y
  <2>1. x \in Nat /\ y \in Nat /\ <<y, x>> \in Nat \X Nat
    BY Zenon
  <2>2. y < x => <<y, x>> \in less
    BY <2>1, Zenon DEF OpToRel, less
  <2> QED BY <1>2, <2>1, <2>2
<1> QED BY <1>2, <1>3, Zenon

\* eventlog/store.go, File.Append and File.Ingest: whatever processes open a store,
\* record in it, follow another log into it or restore it, and in whatever order they
\* crash, its chain verifies and every head that is held on it is on the chain.
THEOREM StoresStayOneChain == Spec => []OneChain
<1>1. RInv /\ [Next]_vars => RInv'
  BY LeastOf, RInvNext, Zenon
<1> QED BY <1>1, RInvInit, RInvChain, PTL DEF Spec

\* server/server.go, Open, and eventlog/anchor.go, Check: the history the cluster acts
\* on keeps every head that was witnessed, across crashes, restarts, promotions,
\* restores and storage that loses events, when servers take turns or are all started
\* on one store.
THEOREM WitnessedHistoryKept ==
    ASSUME Exclusive
    PROVE  Spec => WitnessedHistory
<1> DEFINE Inv == RInv /\ Line
<1>1. Init => Inv
  BY RInvInit, LineInit, Zenon
<1>2. Inv /\ [Next]_vars => Inv'
  BY LeastOf, RInvNext, LineNext, Zenon
<1>3. Inv /\ [Next]_vars => [Cluster!Next]_<<lived, Newest>>
  BY LeastOf, HistoryStep, Zenon
<1> HIDE DEF Inv
<1> QED BY <1>1, <1>2, <1>3, HistoryInit, PTL DEF Spec, WitnessedHistory, Cluster!Spec

\* eventlog/store.go, File.Ingest and confirmRecord: a standby that is sent the whole
\* log takes a record only when its history is the beginning of the primary's.
THEOREM DivergenceNeverTaken ==
    ASSUME Exclusive
    PROVE  Spec => DivergenceRefused
<1> DEFINE Inv == RInv /\ Line
<1>1. Init => Inv
  BY RInvInit, LineInit, Zenon
<1>2. Inv /\ [Next]_vars => Inv'
  BY LeastOf, RInvNext, LineNext, Zenon
<1>3. Inv /\ [Next]_vars => Refuses
  BY LeastOf, RefusesStep, Zenon
<1> HIDE DEF Inv
<1> QED BY <1>1, <1>2, <1>3, PTL DEF Spec, DivergenceRefused, Refuses

\* eventlog/backup.go, File.Backup and Restore: a backup during which nothing is recorded
\* verifies once its manifest is written, and what a restore installs is a whole chain,
\* whatever crashed and whatever became of the archive.
THEOREM BackupsAlwaysVerify ==
    ASSUME Calm
    PROVE  Spec => BackupsVerify
<1> DEFINE Inv == RInv /\ Still
<1>1. Init => Inv
  BY RInvInit, StillInit, Zenon
<1>2. Inv /\ [Next]_vars => Inv'
  BY LeastOf, RInvNext, StillNext, Zenon
<1>3. Inv => Verifies
  BY LeastOf, VerifiesStep, Zenon
<1> HIDE DEF Inv
<1> QED BY <1>1, <1>2, <1>3, PTL DEF Spec, BackupsVerify, Verifies
=============================================================================
