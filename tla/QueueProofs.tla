---------------------------- MODULE QueueProofs ----------------------------
(***************************************************************************)
(* The work queue keeps its promises for any number of tasks, instances,   *)
(* requests and faults: attempts are bounded, the file is the durable list *)
(* of Delivery, budgets hold over restarts, and a deleted instance leaves  *)
(* nothing behind.                                                         *)
(***************************************************************************)
EXTENDS Queue, TLAPS

\* A set of natural numbers has a least one.  The library's theorem that establishes
\* it is brought in at the end of the module, where it is proved, and not before:
\* every step of a proof carries all that precedes it.
LeastMembers == \A S \in SUBSET Nat : S # {} => \E x \in S : \A y \in S : x <= y

-----------------------------------------------------------------------------
(* The operators on the list of tasks.                                      *)

Live == BOOLEAN

Entry == [id : Tasks, attempts : Nat, by : Instances \cup {None}, live : Live]

\* The list m has the tasks of q in its places, changed at most in who holds them
\* and in a higher count of attempts.
Raised(q, m) ==
    /\ m \in Seq(Entry) /\ DOMAIN m = DOMAIN q
    /\ \A i \in DOMAIN q : m[i].id = q[i].id /\ q[i].attempts <= m[i].attempts

\* As Raised, with the attempts as they were.
Reclaimed(q, m) ==
    /\ Raised(q, m) /\ \A i \in DOMAIN q : m[i].attempts = q[i].attempts

\* The forms of an entry.
LEMMA EntryForms ==
    ASSUME NEW e \in Entry, NEW a \in Instances \cup {None}, NEW t \in Tasks
    PROVE  /\ NewTask(t) \in Entry /\ NewTask(t).id = t /\ NewTask(t).attempts = 0
           /\ Claimed(e, a) \in Entry /\ Claimed(e, a).id = e.id
           /\ Claimed(e, a).attempts = e.attempts + 1
           /\ Unclaimed(e) \in Entry /\ Unclaimed(e).id = e.id
           /\ Unclaimed(e).attempts = e.attempts
           /\ [e EXCEPT !.live = FALSE] \in Entry /\ [e EXCEPT !.live = FALSE].id = e.id
           /\ [e EXCEPT !.live = FALSE].attempts = e.attempts
<1>1. TRUE \in Live /\ FALSE \in Live
  BY DEF Live
<1>2. NewTask(t) \in Entry /\ NewTask(t).id = t /\ NewTask(t).attempts = 0
  BY <1>1, Zenon DEF NewTask, Entry
<1>3. /\ Claimed(e, a) \in Entry /\ Claimed(e, a).id = e.id
      /\ Claimed(e, a).attempts = e.attempts + 1
  <2> DEFINE n == e.attempts + 1
             on == TRUE
  <2>1. Claimed(e, a) = [e EXCEPT !.attempts = n, !.by = a, !.live = on]
    BY DEF Claimed
  <2>2. n \in Nat
    BY DEF Entry
  <2>3. on \in Live
    BY <1>1, Zenon
  <2> HIDE DEF n, on
  <2>4. /\ Claimed(e, a) \in Entry /\ Claimed(e, a).id = e.id
        /\ Claimed(e, a).attempts = n
    BY <2>1, <2>2, <2>3, Zenon DEF Entry
  <2> QED BY <2>4 DEF n
<1>4. /\ Unclaimed(e) \in Entry /\ Unclaimed(e).id = e.id
      /\ Unclaimed(e).attempts = e.attempts
  BY <1>1, Zenon DEF Unclaimed, Entry
<1>5. /\ [e EXCEPT !.live = FALSE] \in Entry /\ [e EXCEPT !.live = FALSE].id = e.id
      /\ [e EXCEPT !.live = FALSE].attempts = e.attempts
  BY <1>1, Zenon DEF Entry
<1> QED BY <1>2, <1>3, <1>4, <1>5

LEMMA Held ==
    ASSUME NEW q \in Seq(Entry), NEW t \in Ids(q)
    PROVE  TaskOf(q, t) \in Entry /\ TaskOf(q, t).id = t
           /\ \E i \in DOMAIN q : q[i] = TaskOf(q, t)
<1> DEFINE k == CHOOSE i \in DOMAIN q : q[i].id = t
<1>1. k \in DOMAIN q /\ q[k].id = t
  BY DEF Ids
<1>2. DOMAIN q = 1 .. Len(q) /\ q[k] \in Entry
  BY <1>1
<1> QED BY <1>1, <1>2, Zenon DEF TaskOf

\* An entry that replaces those with its id.
LEMMA WithRaises ==
    ASSUME NEW q \in Seq(Entry), NEW e \in Entry,
           \A i \in DOMAIN q : q[i].id = e.id => q[i].attempts <= e.attempts
    PROVE  Raised(q, With(q, e))
<1>1. Len(q) \in Nat /\ DOMAIN q = 1 .. Len(q) /\ \A i \in DOMAIN q : q[i] \in Entry
  OBVIOUS
<1>2. \A i \in DOMAIN q : With(q, e)[i] = IF q[i].id = e.id THEN e ELSE q[i]
  BY DEF With
<1>3. With(q, e) \in [1 .. Len(q) -> Entry]
  BY <1>1 DEF With
<1>4. With(q, e) \in Seq(Entry) /\ DOMAIN With(q, e) = DOMAIN q
  BY <1>1, <1>3 DEF With
<1>5. ASSUME NEW i \in DOMAIN q
      PROVE  /\ With(q, e)[i].id = q[i].id
             /\ q[i].attempts <= With(q, e)[i].attempts
  <2>1. q[i].attempts \in Nat
    BY <1>1 DEF Entry
  <2> QED BY <1>2, <2>1
<1> QED BY <1>4, <1>5 DEF Raised

\* Before the place of the task and after it.
LEMMA WithoutPlaces ==
    ASSUME NEW q \in Seq(Entry), NEW t \in Ids(q)
    PROVE  \E k \in DOMAIN q :
              /\ q[k].id = t /\ Without(q, t) \in Seq(Entry)
              /\ DOMAIN Without(q, t) = 1 .. (Len(q) - 1)
              /\ \A i \in 1 .. (Len(q) - 1) :
                    Without(q, t)[i] = IF i < k THEN q[i] ELSE q[i + 1]
<1> DEFINE k == CHOOSE i \in DOMAIN q : q[i].id = t
           before == SubSeq(q, 1, k - 1)
           after == SubSeq(q, k + 1, Len(q))
<1>1. k \in DOMAIN q /\ q[k].id = t
  BY DEF Ids
<1>2. Len(q) \in Nat /\ DOMAIN q = 1 .. Len(q) /\ \A i \in 1 .. Len(q) : q[i] \in Entry
  OBVIOUS
<1>3. Without(q, t) = before \o after
  BY DEF Without
<1> HIDE DEF k
<1>4. k \in 1 .. Len(q)
  BY <1>1, <1>2
<1>5. /\ before \in Seq(Entry) /\ Len(before) = k - 1
      /\ \A i \in 1 .. (k - 1) : before[i] = q[i]
  <2>1. \A i \in 1 .. (k - 1) : q[i] \in Entry
    BY <1>2, <1>4
  <2>2. /\ before \in Seq(Entry)
        /\ Len(before) = IF 1 <= k - 1 THEN (k - 1) - 1 + 1 ELSE 0
        /\ \A i \in 1 .. ((k - 1) - 1 + 1) : before[i] = q[1 + i - 1]
    BY <1>4, <2>1
  <2> QED BY <1>4, <2>2
<1>6. /\ after \in Seq(Entry) /\ Len(after) = Len(q) - k
      /\ \A i \in 1 .. (Len(q) - k) : after[i] = q[k + i]
  <2>1. \A i \in (k + 1) .. Len(q) : q[i] \in Entry
    BY <1>2, <1>4
  <2>2. /\ after \in Seq(Entry)
        /\ Len(after) = IF k + 1 <= Len(q) THEN Len(q) - (k + 1) + 1 ELSE 0
        /\ \A i \in 1 .. (Len(q) - (k + 1) + 1) : after[i] = q[(k + 1) + i - 1]
    BY <1>2, <1>4, <2>1
  <2>3. ASSUME NEW i \in 1 .. (Len(q) - k) PROVE after[i] = q[k + i]
    <3>1. i \in 1 .. (Len(q) - (k + 1) + 1) /\ (k + 1) + i - 1 = k + i
      BY <1>2, <1>4
    <3> QED BY <2>2, <3>1
  <2>4. Len(after) = Len(q) - k
    <3>1. k \in Nat /\ k <= Len(q) /\ Len(q) \in Nat
      BY <1>2, <1>4
    <3>2. CASE k + 1 <= Len(q)
      BY <2>2, <3>1, <3>2
    <3>3. CASE ~(k + 1 <= Len(q))
      <4>1. Len(after) = 0
        BY <2>2, <3>3
      <4> QED BY <3>1, <3>3, <4>1
    <3> QED BY <3>2, <3>3, Zenon
  <2> QED BY <2>2, <2>3, <2>4, SMTT(30)
<1> DEFINE rest == before \o after
<1> HIDE DEF before, after
<1>7. /\ rest \in Seq(Entry) /\ Len(rest) = Len(before) + Len(after)
      /\ \A i \in 1 .. Len(before) + Len(after) :
            rest[i] = IF i <= Len(before) THEN before[i] ELSE after[i - Len(before)]
  <2>1. before \in Seq(Entry) /\ after \in Seq(Entry)
    BY <1>5, <1>6
  <2> QED BY <2>1
<1> HIDE DEF rest
<1>8. DOMAIN rest = 1 .. (Len(q) - 1)
  BY <1>2, <1>4, <1>5, <1>6, <1>7
<1>9. ASSUME NEW i \in 1 .. (Len(q) - 1)
      PROVE  rest[i] = IF i < k THEN q[i] ELSE q[i + 1]
  <2>1. i \in 1 .. Len(before) + Len(after)
    BY <1>2, <1>4, <1>5, <1>6
  <2>2. CASE i < k
    BY <1>2, <1>4, <1>5, <1>7, <2>1, <2>2
  <2>3. CASE ~(i < k)
    <3>1. rest[i] = after[i - (k - 1)]
      BY <1>2, <1>4, <1>5, <1>7, <2>1, <2>3
    <3>2. i - (k - 1) \in 1 .. (Len(q) - k) /\ k + (i - (k - 1)) = i + 1
      BY <1>2, <1>4, <2>3
    <3>3. after[i - (k - 1)] = q[k + (i - (k - 1))]
      BY <1>6, <3>2
    <3> QED BY <2>3, <3>1, <3>2, <3>3
  <2> QED BY <2>2, <2>3
<1>10. Without(q, t) = rest
  BY <1>3 DEF rest
<1> QED BY <1>1, <1>7, <1>8, <1>9, <1>10

\* The list of attempts that g counts, no task twice and none tried too often.
Counted(q, g) ==
    /\ q \in Seq(Entry) /\ Durable!Unique(q)
    /\ \A i \in DOMAIN q : g[q[i].id] <= q[i].attempts /\ q[i].attempts <= MaxAttempts

LEMMA Listed ==
    ASSUME NEW q \in Seq(Entry)
    PROVE  /\ Len(q) \in Nat /\ DOMAIN q = 1 .. Len(q)
           /\ \A i \in DOMAIN q : q[i].id \in Tasks /\ q[i].attempts \in Nat
<1>1. Len(q) \in Nat /\ DOMAIN q = 1 .. Len(q) /\ \A i \in 1 .. Len(q) : q[i] \in Entry
  OBVIOUS
<1> QED BY <1>1 DEF Entry

\* A list reclaimed is counted as it was.
LEMMA ReclaimedCounted ==
    ASSUME NEW g, NEW q, NEW m, Counted(q, g), Reclaimed(q, m)
    PROVE  Counted(m, g)
<1>1. /\ m \in Seq(Entry) /\ DOMAIN m = DOMAIN q
      /\ \A i \in DOMAIN q : m[i].id = q[i].id /\ m[i].attempts = q[i].attempts
  BY DEF Reclaimed, Raised
<1> QED BY <1>1 DEF Counted, Durable!Unique

\* A count that is lower somewhere is still within the attempts.
LEMMA LowerCounted ==
    ASSUME NEW g \in [Tasks -> Nat], NEW q, Counted(q, g), NEW t \in Tasks
    PROVE  Counted(q, [g EXCEPT ![t] = 0])
<1>1. q \in Seq(Entry)
  BY DEF Counted
<1>2. ASSUME NEW i \in DOMAIN q
      PROVE  [g EXCEPT ![t] = 0][q[i].id] <= q[i].attempts
  <2>1. q[i].id \in Tasks /\ q[i].attempts \in Nat
    BY <1>1, Listed
  <2>2. g[q[i].id] <= q[i].attempts
    BY DEF Counted
  <2> QED BY <2>1, <2>2
<1> QED BY <1>2 DEF Counted

LEMMA WithoutCounted ==
    ASSUME NEW g, NEW q, Counted(q, g), NEW t \in Ids(q)
    PROVE  Counted(Without(q, t), g)
<1> DEFINE m == Without(q, t)
<1>0. q \in Seq(Entry)
  BY DEF Counted
<1>1. PICK k \in DOMAIN q :
          /\ q[k].id = t /\ m \in Seq(Entry) /\ DOMAIN m = 1 .. (Len(q) - 1)
          /\ \A i \in 1 .. (Len(q) - 1) : m[i] = IF i < k THEN q[i] ELSE q[i + 1]
  BY <1>0, WithoutPlaces, Zenon
<1>2. Len(q) \in Nat /\ DOMAIN q = 1 .. Len(q)
  BY <1>0, Listed
<1> HIDE DEF m
<1>3. ASSUME NEW i \in DOMAIN m
      PROVE  \E n \in DOMAIN q : m[i] = q[n] /\ n = IF i < k THEN i ELSE i + 1
  BY <1>1, <1>2
<1>4. Durable!Unique(m)
  <2> SUFFICES ASSUME NEW i \in DOMAIN m, NEW j \in DOMAIN m, m[i].id = m[j].id
               PROVE  i = j
    BY DEF Durable!Unique
  <2>1. PICK n \in DOMAIN q : m[i] = q[n] /\ n = IF i < k THEN i ELSE i + 1
    BY <1>3
  <2>2. PICK o \in DOMAIN q : m[j] = q[o] /\ o = IF j < k THEN j ELSE j + 1
    BY <1>3
  <2>3. n = o
    BY <2>1, <2>2 DEF Counted, Durable!Unique
  <2> QED BY <1>1, <1>2, <2>1, <2>2, <2>3
<1>5. ASSUME NEW i \in DOMAIN m
      PROVE  g[m[i].id] <= m[i].attempts /\ m[i].attempts <= MaxAttempts
  BY <1>3 DEF Counted
<1> QED BY <1>1, <1>4, <1>5 DEF Counted, m

LEMMA AppendCounted ==
    ASSUME NEW g, NEW q, Counted(q, g), NEW t \in Tasks, t \notin Ids(q), g[t] = 0,
           NEW m, m = Append(q, NewTask(t))
    PROVE  /\ Counted(m, g) /\ Len(q) \in Nat /\ DOMAIN m = 1 .. (Len(q) + 1)
           /\ m[Len(q) + 1].id = t /\ \A i \in DOMAIN q : m[i] = q[i]
<1>0. q \in Seq(Entry) /\ MaxAttempts \in Nat
  BY QueueAssumption DEF Counted
<1>1. NewTask(t) \in Entry /\ NewTask(t).id = t /\ NewTask(t).attempts = 0
  <2>1. TRUE \in Live /\ FALSE \in Live
    BY DEF Live
  <2> QED BY <2>1, Zenon DEF NewTask, Entry
<1>2. Len(q) \in Nat /\ DOMAIN q = 1 .. Len(q)
  BY <1>0, Listed
<1>3. /\ m \in Seq(Entry) /\ Len(m) = Len(q) + 1
      /\ \A i \in 1 .. Len(q) : m[i] = q[i]
      /\ m[Len(q) + 1] = NewTask(t)
  BY <1>0, <1>1
<1>4. DOMAIN m = 1 .. (Len(q) + 1)
  BY <1>3
<1>5. ASSUME NEW i \in DOMAIN m
      PROVE  g[m[i].id] <= m[i].attempts /\ m[i].attempts <= MaxAttempts
  <2>1. CASE i \in DOMAIN q
    BY <1>2, <1>3, <2>1 DEF Counted
  <2>2. CASE i = Len(q) + 1
    BY <1>0, <1>1, <1>3, <2>2
  <2> QED BY <1>2, <1>4, <2>1, <2>2
<1>6. Durable!Unique(m)
  <2> SUFFICES ASSUME NEW i \in DOMAIN m, NEW j \in DOMAIN m, m[i].id = m[j].id
               PROVE  i = j
    BY DEF Durable!Unique
  <2>1. \A n \in DOMAIN q : m[n].id # t /\ m[n].id = q[n].id
    BY <1>2, <1>3 DEF Ids
  <2>2. CASE i \in DOMAIN q /\ j \in DOMAIN q
    BY <2>1, <2>2 DEF Counted, Durable!Unique
  <2>3. CASE i = Len(q) + 1
    BY <1>1, <1>2, <1>3, <1>4, <2>1, <2>3
  <2>4. CASE j = Len(q) + 1
    BY <1>1, <1>2, <1>3, <1>4, <2>1, <2>4
  <2> QED BY <1>2, <1>4, <2>2, <2>3, <2>4
<1> QED BY <1>1, <1>2, <1>3, <1>4, <1>5, <1>6 DEF Counted

\* What a claim hands out is on the list and may be handed out.
LEMMA ChosenOne ==
    ASSUME LeastMembers, NEW q \in Seq(Entry), Deliverable(q) # {}
    PROVE  \E k \in DOMAIN q : Chosen(q) = q[k] /\ q[k].attempts < MaxAttempts
<1> DEFINE T == Deliverable(q)
<1>1. T \subseteq Nat /\ \A i \in T : i \in DOMAIN q /\ q[i].attempts < MaxAttempts
  BY Listed DEF Deliverable
<1> HIDE DEF T
<1>2. \E i \in T : \A j \in T : i <= j
  <2>1. T # {}
    BY DEF T
  <2> QED BY <1>1, <2>1, Zenon DEF LeastMembers
<1> DEFINE k == CHOOSE i \in T : \A j \in T : i <= j
<1>3. k \in T /\ Chosen(q) = q[k]
  BY <1>2 DEF Chosen, T
<1> QED BY <1>1, <1>3, Zenon

\* A claim raises the attempts of one task by one.
LEMMA ClaimRaises ==
    ASSUME LeastMembers, NEW g \in [Tasks -> Nat], NEW q, Counted(q, g), Deliverable(q) # {},
           NEW a \in Instances \cup {None}, NEW m, m = With(q, Claimed(Chosen(q), a))
    PROVE  /\ Raised(q, m) /\ Chosen(q).id \in Ids(q) /\ Chosen(q).id \in Tasks
           /\ Counted(m, g) /\ Counted(m, [g EXCEPT ![Chosen(q).id] = @ + 1])
           /\ g[Chosen(q).id] < MaxAttempts
<1> DEFINE e == Chosen(q)
           up == [g EXCEPT ![e.id] = @ + 1]
<1>0. q \in Seq(Entry) /\ Durable!Unique(q) /\ MaxAttempts \in Nat
  BY QueueAssumption DEF Counted
<1>1. PICK k \in DOMAIN q : e = q[k] /\ q[k].attempts < MaxAttempts
  BY <1>0, ChosenOne
<1>2. e \in Entry /\ e.id \in Tasks /\ e.attempts \in Nat /\ DOMAIN q = 1 .. Len(q)
  <2>1. DOMAIN q = 1 .. Len(q) /\ q[k] \in Entry
    BY <1>0, <1>1
  <2> QED BY <1>1, <2>1 DEF Entry
<1>3. /\ Claimed(e, a) \in Entry /\ Claimed(e, a).id = e.id
      /\ Claimed(e, a).attempts = e.attempts + 1
  BY <1>2, EntryForms, Zenon
<1>4. \A i \in DOMAIN q : q[i].id = e.id => i = k
  BY <1>0, <1>1 DEF Durable!Unique
<1>5. Raised(q, m)
  <2>1. \A i \in DOMAIN q : q[i].id = Claimed(e, a).id => q[i].attempts <= Claimed(e, a).attempts
    BY <1>1, <1>2, <1>3, <1>4
  <2> QED BY <1>0, <1>3, <2>1, WithRaises
<1>6. \A i \in DOMAIN q : m[i] = IF i = k THEN Claimed(e, a) ELSE q[i]
  BY <1>1, <1>3, <1>4 DEF With
<1>7. m \in Seq(Entry) /\ DOMAIN m = DOMAIN q /\ \A i \in DOMAIN q : m[i].id = q[i].id
  BY <1>5 DEF Raised
<1>8. Durable!Unique(m)
  BY <1>0, <1>7 DEF Durable!Unique
<1> HIDE DEF e
<1>9. g[e.id] <= e.attempts /\ e.attempts + 1 <= MaxAttempts
  BY <1>0, <1>1, <1>2 DEF Counted
<1>10. ASSUME NEW i \in DOMAIN m
       PROVE  /\ g[m[i].id] <= m[i].attempts /\ up[m[i].id] <= m[i].attempts
              /\ m[i].attempts <= MaxAttempts
  <2>1. CASE i = k
    BY <1>0, <1>2, <1>3, <1>6, <1>7, <1>9, <2>1, SMTT(30)
  <2>2. CASE i # k
    <3>1. m[i] = q[i] /\ q[i].id \in Tasks /\ q[i].id # e.id
      BY <1>0, <1>4, <1>6, <1>7, <2>2, Listed
    <3>2. up[q[i].id] = g[q[i].id]
      BY <1>2, <3>1
    <3> QED BY <1>7, <3>1, <3>2 DEF Counted
  <2> QED BY <2>1, <2>2
<1>11. g[e.id] < MaxAttempts
  BY <1>0, <1>2, <1>9
<1>12. e.id \in Ids(q)
  BY <1>1 DEF Ids
<1> QED BY <1>2, <1>5, <1>7, <1>8, <1>10, <1>11, <1>12 DEF Counted, e

\* A task given back, a lapsed lease and a released instance change no count.
LEMMA RequeueReclaims ==
    ASSUME NEW q \in Seq(Entry), Durable!Unique(q), NEW t \in Ids(q)
    PROVE  Reclaimed(q, With(q, Unclaimed(TaskOf(q, t)))) /\ Reclaimed(q, Lapsed(q, t))
<1>1. PICK k \in DOMAIN q : q[k] = TaskOf(q, t)
  BY Held
<1> DEFINE e == TaskOf(q, t)
           dead == [e EXCEPT !.live = FALSE]
<1>2. e \in Entry /\ e.id = t
  BY Held
<1>3. t \in Tasks /\ \A i \in DOMAIN q : q[i].attempts \in Nat
  BY <1>2, Listed, Zenon DEF Entry
<1> HIDE DEF e
<1>4. /\ Unclaimed(e) \in Entry /\ Unclaimed(e).id = e.id
      /\ Unclaimed(e).attempts = e.attempts
      /\ dead \in Entry /\ dead.id = e.id /\ dead.attempts = e.attempts
  BY <1>2, <1>3, EntryForms, Zenon
<1> HIDE DEF dead
<1>5. \A i \in DOMAIN q : q[i].id = e.id => q[i].attempts = e.attempts
  BY <1>1 DEF Durable!Unique, e
<1>6. ASSUME NEW c \in Entry, c.id = e.id, c.attempts = e.attempts
      PROVE  Reclaimed(q, With(q, c))
  <2>1. \A i \in DOMAIN q : q[i].id = c.id => q[i].attempts <= c.attempts
    BY <1>3, <1>5, <1>6
  <2>2. Raised(q, With(q, c))
    BY <2>1, WithRaises
  <2>3. \A i \in DOMAIN q : With(q, c)[i].attempts = q[i].attempts
    BY <1>5, <1>6 DEF With
  <2> QED BY <2>2, <2>3 DEF Reclaimed
<1>7. Lapsed(q, t) = With(q, dead)
  BY DEF Lapsed, dead, e
<1> QED BY <1>4, <1>6, <1>7 DEF e

LEMMA SameReclaims ==
    ASSUME NEW q \in Seq(Entry)
    PROVE  Reclaimed(q, q)
BY Listed DEF Reclaimed, Raised

LEMMA ReleasedReclaims ==
    ASSUME NEW q \in Seq(Entry), NEW a \in Instances
    PROVE  Reclaimed(q, Released(q, a))
<1> DEFINE m == Released(q, a)
<1>1. Len(q) \in Nat /\ DOMAIN q = 1 .. Len(q) /\ \A i \in DOMAIN q : q[i] \in Entry
  OBVIOUS
<1>2. DOMAIN m = DOMAIN q /\ \A i \in DOMAIN q : m[i] \in {q[i], Unclaimed(q[i])}
  BY DEF Released
<1>3. ASSUME NEW i \in DOMAIN q
      PROVE  /\ m[i] \in Entry /\ m[i].id = q[i].id /\ m[i].attempts = q[i].attempts
             /\ q[i].attempts \in Nat
  <2>1. q[i] \in Entry /\ q[i].id \in Tasks
    BY <1>1 DEF Entry
  <2>2. /\ Unclaimed(q[i]) \in Entry /\ Unclaimed(q[i]).id = q[i].id
        /\ Unclaimed(q[i]).attempts = q[i].attempts
    BY <2>1, EntryForms, Zenon
  <2> QED BY <1>2, <2>1, <2>2, Listed
<1>4. m \in [1 .. Len(q) -> Entry]
  BY <1>1, <1>2, <1>3 DEF Released
<1>5. m \in Seq(Entry)
  BY <1>1, <1>4
<1> HIDE DEF m
<1>6. Reclaimed(q, m)
  BY <1>2, <1>3, <1>5 DEF Reclaimed, Raised
<1> QED BY <1>6 DEF m

-----------------------------------------------------------------------------
(* Attempts.                                                                *)

\* The attempts on a list are no fewer than the times its task was given out,
\* in the memory and in the file, which may lag behind.
Counting ==
    /\ given \in [Tasks -> Nat] /\ AttemptsBound
    /\ Counted(queue, given) /\ Counted(file, given)

Ask == [op : {"none", "claim", "ack", "requeue"}, at : {"idle", "queue", "agents"},
        by : Instances \cup {None}, task : Tasks \cup {None}, heard : Live]

Asking == request \in [Requests -> Ask]

\* A write of the list m, or one that failed.
Wrote(m) == queue' = m /\ file' \in {file, m}

LEMMA PersistWrites ==
    ASSUME NEW m, NEW ok \in BOOLEAN, Persist(m, ok)
    PROVE  Wrote(m) /\ (ok => file' = m)
BY DEF Persist, Wrote

LEMMA Unwritten ==
    ASSUME Counting, UNCHANGED <<queue, file, given>>
    PROVE  Counting'
BY DEF Counting, AttemptsBound

LEMMA EnqueueCounts ==
    ASSUME Counting, NEW t \in Tasks, Enqueue(t)
    PROVE  Counting'
<1>1. CASE t \in Ids(queue)
  <2>1. UNCHANGED <<queue, file, given>>
    BY <1>1 DEF Enqueue, queueVars
  <2> QED BY <2>1, Unwritten
<1>2. CASE t \notin Ids(queue)
  <2> DEFINE m == Append(queue, NewTask(t))
             g == [given EXCEPT ![t] = 0]
  <2>1. PICK ok \in BOOLEAN : Persist(m, ok) /\ given' = g
    BY <1>2 DEF Enqueue
  <2>2. Wrote(m)
    BY <2>1, PersistWrites
  <2>3. given \in [Tasks -> Nat] /\ Counted(queue, given) /\ Counted(file, given)
    BY DEF Counting
  <2>4. Counted(queue, g) /\ Counted(file, g)
    BY <2>3, LowerCounted, Zenon
  <2>5. g \in [Tasks -> Nat] /\ g[t] = 0
    BY <2>3
  <2>6. \A u \in Tasks : g[u] <= MaxAttempts
    BY <2>3, QueueAssumption DEF Counting, AttemptsBound
  <2> HIDE DEF g
  <2>7. Counted(m, g)
    BY <1>2, <2>4, <2>5, AppendCounted, Zenon
  <2> HIDE DEF m
  <2> QED BY <2>1, <2>2, <2>4, <2>5, <2>6, <2>7 DEF Wrote, Counting, AttemptsBound
<1> QED BY <1>1, <1>2

\* A list whose lease lapses, if the task is on it.
LEMMA LapsedReclaims ==
    ASSUME NEW g, NEW q, Counted(q, g), NEW t
    PROVE  Reclaimed(q, Lapsed(q, t))
<1>1. q \in Seq(Entry) /\ Durable!Unique(q)
  BY DEF Counted
<1>2. CASE t \in Ids(q)
  BY <1>1, <1>2, RequeueReclaims
<1>3. CASE t \notin Ids(q)
  <2>1. Lapsed(q, t) = q
    BY <1>3 DEF Lapsed
  <2> QED BY <1>1, <2>1, SameReclaims
<1> QED BY <1>2, <1>3

LEMMA LapseReclaims ==
    ASSUME Counting, NEW t \in Tasks, Lapse(t)
    PROVE  Reclaimed(queue, queue') /\ Reclaimed(file, file') /\ given' = given
<1>1. Counted(queue, given) /\ Counted(file, given)
  BY DEF Counting
<1>2. queue' \in {queue, Lapsed(queue, t)} /\ file' = Lapsed(file, t) /\ given' = given
  BY DEF Lapse
<1>3. Reclaimed(queue, Lapsed(queue, t)) /\ Reclaimed(file, Lapsed(file, t))
  BY <1>1, LapsedReclaims
<1>4. Reclaimed(queue, queue)
  BY <1>1, SameReclaims DEF Counted
<1> QED BY <1>2, <1>3, <1>4

LEMMA LapseCounts ==
    ASSUME Counting, NEW t \in Tasks, Lapse(t)
    PROVE  Counting'
<1>1. Reclaimed(queue, queue') /\ Reclaimed(file, file') /\ given' = given
  BY LapseReclaims
<1>2. Counted(queue', given) /\ Counted(file', given)
  BY <1>1, ReclaimedCounted DEF Counting
<1> QED BY <1>1, <1>2 DEF Counting, AttemptsBound

LEMMA ClaimCounts ==
    ASSUME LeastMembers, Counting, Asking, NEW r \in Requests, Claim(r)
    PROVE  Counting'
<1>1. CASE Deliverable(queue) = {}
  <2>1. UNCHANGED <<queue, file, given>>
    BY <1>1 DEF Claim, queueVars
  <2> QED BY <2>1, Unwritten
<1>2. CASE Deliverable(queue) # {}
  <2> DEFINE e == Chosen(queue)
             m == With(queue, Claimed(e, request[r].by))
             up == [given EXCEPT ![e.id] = @ + 1]
  <2>1. PICK ok \in BOOLEAN : Persist(m, ok) /\ given' = IF ok THEN up ELSE given
    BY <1>2 DEF Claim
  <2>2. Wrote(m) /\ (ok => file' = m)
    BY <2>1, PersistWrites
  <2>3. given \in [Tasks -> Nat] /\ Counted(queue, given) /\ Counted(file, given)
    BY DEF Counting
  <2>4. request[r].by \in Instances \cup {None}
    BY DEF Asking, Ask
  <2>5. /\ Counted(m, given) /\ Counted(m, up) /\ e.id \in Tasks
        /\ given[e.id] < MaxAttempts
    BY <1>2, <2>3, <2>4, ClaimRaises, Zenon
  <2> HIDE DEF e
  <2>6. up \in [Tasks -> Nat] /\ \A u \in Tasks : up[u] <= MaxAttempts
    BY <2>3, <2>5, QueueAssumption DEF Counting, AttemptsBound
  <2> HIDE DEF m, up
  <2>7. CASE ok
    BY <2>1, <2>2, <2>5, <2>6, <2>7 DEF Wrote, Counting, AttemptsBound
  <2>8. CASE ~ok
    BY <2>1, <2>2, <2>3, <2>5, <2>8 DEF Wrote, Counting, AttemptsBound
  <2> QED BY <2>7, <2>8
<1> QED BY <1>1, <1>2

\* A write of a list that is counted as the one before.
LEMMA WriteCounts ==
    ASSUME Counting, NEW m, Counted(m, given), Wrote(m), given' = given
    PROVE  Counting'
BY DEF Counting, AttemptsBound, Wrote

LEMMA AckCounts ==
    ASSUME Counting, NEW r \in Requests, Ack(r)
    PROVE  Counting'
<1> DEFINE t == request[r].task
<1>1. CASE UNCHANGED <<queue, file, given>>
  BY <1>1, Unwritten
<1>2. CASE Holds(request[r].by, t) /\ \E ok \in BOOLEAN : Persist(Without(queue, t), ok)
  <2>1. t \in Ids(queue) /\ given' = given
    BY <1>2 DEF Holds, Ack, Refuse, queueVars
  <2>2. Counted(Without(queue, t), given)
    BY <2>1, WithoutCounted DEF Counting
  <2>3. Wrote(Without(queue, t))
    BY <1>2, PersistWrites
  <2> QED BY <2>1, <2>2, <2>3, WriteCounts
<1> QED BY <1>1, <1>2 DEF Ack, Refuse, queueVars

LEMMA RequeueCounts ==
    ASSUME Counting, NEW r \in Requests, Requeue(r)
    PROVE  Counting'
<1> DEFINE t == request[r].task
           m == With(queue, Unclaimed(TaskOf(queue, t)))
<1>1. CASE UNCHANGED <<queue, file, given>>
  BY <1>1, Unwritten
<1>2. CASE Holds(request[r].by, t) /\ \E ok \in BOOLEAN : Persist(m, ok)
  <2>1. t \in Ids(queue) /\ given' = given
    BY <1>2 DEF Holds, Requeue, Refuse, queueVars
  <2>2. Counted(queue, given)
    BY DEF Counting
  <2>3. Reclaimed(queue, m)
    BY <2>1, <2>2, RequeueReclaims DEF Counted
  <2>4. Wrote(m)
    BY <1>2, PersistWrites
  <2> HIDE DEF m
  <2>5. Counted(m, given)
    BY <2>2, <2>3, ReclaimedCounted
  <2> QED BY <2>1, <2>4, <2>5, WriteCounts
<1> QED BY <1>1, <1>2 DEF Requeue, Refuse, queueVars

LEMMA DeleteCounts ==
    ASSUME Counting, NEW a \in Instances, Delete(a)
    PROVE  Counting'
<1>1. CASE UNCHANGED <<queue, file, given>>
  BY <1>1, Unwritten
<1>2. CASE \E ok \in BOOLEAN : Persist(Released(queue, a), ok)
  <2>1. Counted(queue, given) /\ given' = given
    BY DEF Counting, Delete
  <2>2. Reclaimed(queue, Released(queue, a))
    BY <2>1, ReleasedReclaims DEF Counted
  <2>3. Counted(Released(queue, a), given)
    BY <2>1, <2>2, ReclaimedCounted
  <2>4. Wrote(Released(queue, a))
    BY <1>2, PersistWrites
  <2> QED BY <2>1, <2>3, <2>4, WriteCounts
<1> QED BY <1>1, <1>2 DEF Delete

\* The forms of a request.
LEMMA AskForms ==
    ASSUME NEW x \in Ask, NEW t \in Tasks
    PROVE  /\ NoRequest \in Ask /\ NoRequest.task = None
           /\ [x EXCEPT !.at = "agents"] \in Ask
           /\ [x EXCEPT !.at = "agents"].task = x.task
           /\ [x EXCEPT !.at = "agents", !.task = t] \in Ask
           /\ [x EXCEPT !.at = "agents", !.task = t].task = t
           /\ [x EXCEPT !.heard = FALSE] \in Ask
           /\ [x EXCEPT !.heard = FALSE].task = x.task
<1>1. FALSE \in Live
  BY DEF Live
<1>2. NoRequest \in Ask /\ NoRequest.task = None
  BY <1>1, Zenon DEF NoRequest, Ask
<1>3. [x EXCEPT !.at = "agents"] \in Ask /\ [x EXCEPT !.at = "agents"].task = x.task
  BY DEF Ask
<1>4. /\ [x EXCEPT !.at = "agents", !.task = t] \in Ask
      /\ [x EXCEPT !.at = "agents", !.task = t].task = t
  BY Zenon DEF Ask
<1>5. [x EXCEPT !.heard = FALSE] \in Ask /\ [x EXCEPT !.heard = FALSE].task = x.task
  BY <1>1, Zenon DEF Ask
<1> QED BY <1>2, <1>3, <1>4, <1>5

LEMMA NoneAsked == NoRequest \in Ask
<1>1. FALSE \in Live
  BY DEF Live
<1> QED BY <1>1, Zenon DEF NoRequest, Ask

\* A request ends, or moves on to the agents' lock.
LEMMA FinishAsks ==
    ASSUME Asking, NEW r \in Requests, Finish(r)
    PROVE  Asking'
BY NoneAsked DEF Asking, Finish

LEMMA ServeAsks ==
    ASSUME LeastMembers, Counting, Asking, NEW r \in Requests, Serve(r)
    PROVE  Asking'
<1>0. request[r] \in Ask /\ \A t \in Tasks : [request[r] EXCEPT !.at = "agents", !.task = t] \in Ask
  BY AskForms, Zenon DEF Asking
<1>1. CASE Finish(r)
  BY <1>1, FinishAsks
<1>2. CASE request' = [request EXCEPT ![r].at = "agents"]
  <2>1. [request[r] EXCEPT !.at = "agents"] \in Ask
    BY <1>0, Zenon DEF Ask
  <2> QED BY <1>2, <2>1 DEF Asking
<1>3. CASE Deliverable(queue) # {}
           /\ request' = [request EXCEPT ![r].at = "agents", ![r].task = Chosen(queue).id]
  <2> DEFINE t == Chosen(queue).id
  <2>1. t \in Tasks
    <3>1. queue \in Seq(Entry)
      BY DEF Counting, Counted
    <3>2. PICK k \in DOMAIN queue : Chosen(queue) = queue[k]
      BY <1>3, <3>1, ChosenOne
    <3> QED BY <3>1, <3>2, Listed
  <2> HIDE DEF t
  <2>2. [request[r] EXCEPT !.at = "agents", !.task = t] \in Ask
    BY <1>0, <2>1, Zenon
  <2>3. request' = [request EXCEPT ![r] = [request[r] EXCEPT !.at = "agents", !.task = t]]
    BY <1>3, Zenon DEF Asking, t
  <2> QED BY <2>2, <2>3 DEF Asking
<1>4. Claim(r) \/ Ack(r) \/ Requeue(r) \/ Answer(r)
  BY DEF Serve
<1>5. CASE Claim(r)
  BY <1>1, <1>3, <1>5 DEF Claim
<1>6. CASE Ack(r)
  BY <1>1, <1>2, <1>6 DEF Ack, Refuse
<1>7. CASE Requeue(r)
  BY <1>1, <1>2, <1>7 DEF Requeue, Refuse
<1>8. CASE Answer(r)
  BY <1>1, <1>8 DEF Answer
<1> QED BY <1>4, <1>5, <1>6, <1>7, <1>8

LEMMA CallAsks ==
    ASSUME Asking, NEW r \in Requests, NEW op \in {"claim", "ack", "requeue"},
           NEW a \in Instances, NEW t \in Tasks \cup {None}, Call(r, op, a, t)
    PROVE  Asking'
<1> DEFINE x == [op |-> op, at |-> "queue", by |-> a, task |-> t, heard |-> TRUE]
<1>1. request' = [request EXCEPT ![r] = x]
  BY DEF Call
<1>2. TRUE \in Live
  BY DEF Live
<1>3. x \in Ask
  BY <1>2, Zenon DEF Ask
<1> HIDE DEF x
<1> QED BY <1>1, <1>3, SMTT(30) DEF Asking

LEMMA UnheardAsks ==
    ASSUME Asking, NEW a \in Instances, Unheard(a)
    PROVE  Asking'
<1>1. FALSE \in Live
  BY DEF Live
<1>2. \A r \in Requests : [request[r] EXCEPT !.heard = FALSE] \in Ask
  BY <1>1, Zenon DEF Asking, Ask
<1> QED BY <1>2 DEF Asking, Unheard

\* Every step keeps the counts.
LEMMA NextCounts ==
    ASSUME LeastMembers, Counting, Asking, Next
    PROVE  Counting' /\ Asking'
<1>1. ASSUME NEW t \in Tasks, Enqueue(t) \/ Lapse(t) PROVE Counting' /\ Asking'
  <2>1. Asking'
    BY <1>1 DEF Enqueue, Lapse, Asking
  <2> QED BY <1>1, <2>1, EnqueueCounts, LapseCounts, SMTT(30)
<1>2. ASSUME NEW r \in Requests, Serve(r) PROVE Counting' /\ Asking'
  <2>1. Asking'
    BY <1>2, ServeAsks
  <2>2. CASE Claim(r) \/ Ack(r) \/ Requeue(r)
    BY <2>1, <2>2, ClaimCounts, AckCounts, RequeueCounts
  <2>3. CASE Answer(r)
    BY <2>1, <2>3, Unwritten DEF Answer, queueVars
  <2> QED BY <1>2, <2>1, <2>2, <2>3 DEF Serve
<1>3. ASSUME NEW a \in Instances, Calls(a) PROVE Counting' /\ Asking'
  <2>1. PICK r \in Requests, op \in {"claim", "ack", "requeue"}, t \in Tasks \cup {None} :
            Call(r, op, a, t)
    BY <1>3 DEF Calls
  <2>2. Asking'
    BY <2>1, CallAsks
  <2> QED BY <2>1, <2>2, Unwritten, Zenon DEF Call, queueVars
<1>4. ASSUME NEW a \in Instances, ToolCall(a) \/ Spend(a) \/ ReportSpend(a) \/ ReportExit(a)
      PROVE  Counting' /\ Asking'
  <2>1. UNCHANGED <<queue, file, given>> /\ request' = request
    BY <1>4 DEF ToolCall, Spend, ReportSpend, ReportExit, queueVars
  <2> QED BY <2>1, Unwritten DEF Asking
<1>5. ASSUME NEW a \in Instances,
             Create(a) \/ Grant(a) \/ Start(a) \/ Drain(a) \/ Forget(a)
      PROVE  Counting' /\ Asking'
  <2>1. UNCHANGED <<queue, file, given>> /\ request' = request
    BY <1>5 DEF Create, Grant, Start, Drain, Forget, queueVars
  <2> QED BY <2>1, Unwritten DEF Asking
<1>6. ASSUME NEW a \in Instances, Stop(a) \/ Exit(a) PROVE Counting' /\ Asking'
  <2>1. UNCHANGED <<queue, file, given>> /\ Unheard(a)
    BY <1>6 DEF Stop, Exit, queueVars
  <2> QED BY <2>1, Unwritten, UnheardAsks
<1>7. ASSUME NEW a \in Instances, Delete(a) PROVE Counting' /\ Asking'
  <2>1. request' = request
    BY <1>7, Zenon DEF Delete
  <2> QED BY <1>7, <2>1, DeleteCounts DEF Asking
<1>8. CASE Crash
  <2>1. queue' = file /\ UNCHANGED <<file, given>>
    BY <1>8 DEF Crash
  <2>2. request' = [r \in Requests |-> NoRequest]
    BY <1>8 DEF Crash
  <2>3. Asking'
    BY <2>2, NoneAsked DEF Asking
  <2> QED BY <2>1, <2>3 DEF Counting, AttemptsBound
<1> QED BY <1>1, <1>2, <1>3, <1>4, <1>5, <1>6, <1>7, <1>8 DEF Next, Dispatch

LEMMA CountsInitially ==
    ASSUME Init
    PROVE  Counting /\ Asking
<1>1. /\ queue = <<>> /\ file = <<>> /\ given = [t \in Tasks |-> 0]
      /\ request = [r \in Requests |-> NoRequest]
  BY DEF Init
<1>2. <<>> \in Seq(Entry) /\ DOMAIN <<>> = {}
  OBVIOUS
<1>3. Counted(<<>>, given)
  BY <1>2 DEF Counted, Durable!Unique
<1> QED BY <1>1, <1>3, NoneAsked, QueueAssumption DEF Counting, Asking, AttemptsBound

-----------------------------------------------------------------------------
(* The order and the survival of tasks: the memory follows the file.        *)

LEMMA FollowsSelf ==
    ASSUME NEW m \in Seq(Entry), Durable!Unique(m)
    PROVE  Durable!Follows(m, m)
<1>1. Len(m) \in Nat /\ DOMAIN m = 1 .. Len(m)
      /\ \A i \in DOMAIN m : m[i].attempts \in Nat
  BY Listed
<1> QED BY <1>1 DEF Durable!Follows, Durable!Stays, Durable!Unique

LEMMA FollowsRaised ==
    ASSUME NEW l \in Seq(Entry), NEW q \in Seq(Entry), NEW m,
           Durable!Follows(l, q), Raised(q, m)
    PROVE  Durable!Follows(l, m)
<1>1. /\ m \in Seq(Entry) /\ DOMAIN m = DOMAIN q
      /\ \A i \in DOMAIN q : m[i].id = q[i].id /\ q[i].attempts <= m[i].attempts
  BY DEF Raised
<1>2. /\ \A i \in DOMAIN l : l[i].attempts \in Nat
      /\ \A i \in DOMAIN q : q[i].attempts \in Nat /\ m[i].attempts \in Nat
  BY <1>1, Listed
<1>3. \A i \in DOMAIN l : l[i].attempts > 0 \/ Durable!Stays(l[i], m)
  BY <1>1 DEF Durable!Follows, Durable!Stays
<1>4. ASSUME NEW i \in DOMAIN l, NEW j \in DOMAIN m, l[i].id = m[j].id
      PROVE  /\ l[i].attempts <= m[j].attempts
             /\ \A k \in DOMAIN l, n \in DOMAIN m : l[k].id = m[n].id /\ i < k => j < n
             /\ \A n \in DOMAIN m : ~Durable!Stays(m[n], l) => j < n
  <2>1. l[i].id = q[j].id /\ j \in DOMAIN q
    BY <1>1, <1>4
  <2>2. l[i].attempts <= q[j].attempts /\ q[j].attempts <= m[j].attempts
    BY <1>1, <2>1 DEF Durable!Follows
  <2>3. l[i].attempts <= m[j].attempts
    BY <1>2, <2>1, <2>2
  <2>4. \A k \in DOMAIN l, n \in DOMAIN m : l[k].id = m[n].id /\ i < k => j < n
    BY <1>1, <2>1 DEF Durable!Follows
  <2>5. \A n \in DOMAIN m : ~Durable!Stays(m[n], l) => j < n
    BY <1>1, <2>1, SMTT(30) DEF Durable!Follows, Durable!Stays
  <2> QED BY <2>3, <2>4, <2>5
<1> QED BY <1>3, <1>4 DEF Durable!Follows

\* Nor do the claims on the older list matter.
LEMMA ReclaimedFollows ==
    ASSUME NEW l, NEW k, NEW q, Durable!Follows(l, q), Reclaimed(l, k)
    PROVE  Durable!Follows(k, q)
<1>1. /\ DOMAIN k = DOMAIN l
      /\ \A i \in DOMAIN l : k[i].id = l[i].id /\ k[i].attempts = l[i].attempts
  BY DEF Reclaimed, Raised
<1> QED BY <1>1 DEF Durable!Follows, Durable!Stays

LEMMA FollowsAppended ==
    ASSUME NEW l \in Seq(Entry), NEW q \in Seq(Entry), NEW m, NEW t, t \notin Ids(l),
           Durable!Follows(l, q), Len(q) \in Nat, DOMAIN m = 1 .. (Len(q) + 1),
           m[Len(q) + 1].id = t, \A i \in DOMAIN q : m[i] = q[i]
    PROVE  Durable!Follows(l, m)
<1>1. DOMAIN q = 1 .. Len(q)
  BY Listed
<1>2. \A j \in DOMAIN m : j \in DOMAIN q \/ j = Len(q) + 1
  BY <1>1
<1>3. \A i \in DOMAIN l, j \in DOMAIN m : l[i].id = m[j].id => j \in DOMAIN q /\ m[j] = q[j]
  BY <1>2 DEF Ids
<1>4. \A i \in DOMAIN l : l[i].attempts > 0 \/ Durable!Stays(l[i], m)
  BY <1>1 DEF Durable!Follows, Durable!Stays
<1>5. ASSUME NEW i \in DOMAIN l, NEW j \in DOMAIN m, l[i].id = m[j].id
      PROVE  /\ l[i].attempts <= m[j].attempts
             /\ \A k \in DOMAIN l, n \in DOMAIN m : l[k].id = m[n].id /\ i < k => j < n
             /\ \A n \in DOMAIN m : ~Durable!Stays(m[n], l) => j < n
  <2>1. j \in DOMAIN q /\ m[j] = q[j] /\ l[i].id = q[j].id
    BY <1>3, <1>5
  <2>2. l[i].attempts <= m[j].attempts
    BY <2>1 DEF Durable!Follows
  <2>3. \A k \in DOMAIN l, n \in DOMAIN m : l[k].id = m[n].id /\ i < k => j < n
    BY <1>3, <2>1 DEF Durable!Follows
  <2>4. ASSUME NEW n \in DOMAIN m, ~Durable!Stays(m[n], l) PROVE j < n
    <3>1. CASE n \in DOMAIN q
      BY <2>1, <2>4, <3>1 DEF Durable!Follows
    <3>2. CASE n = Len(q) + 1
      BY <1>1, <2>1, <3>2
    <3> QED BY <1>2, <3>1, <3>2
  <2> QED BY <2>2, <2>3, <2>4
<1> QED BY <1>4, <1>5 DEF Durable!Follows

LEMMA FollowsWithout ==
    ASSUME NEW l \in Seq(Entry), NEW q \in Seq(Entry), NEW t \in Ids(q),
           Durable!Follows(l, q), Durable!Unique(q),
           \A i \in DOMAIN l : l[i].id = t => l[i].attempts > 0
    PROVE  Durable!Follows(l, Without(q, t))
<1> DEFINE m == Without(q, t)
<1>1. PICK p \in DOMAIN q :
          /\ q[p].id = t /\ m \in Seq(Entry) /\ DOMAIN m = 1 .. (Len(q) - 1)
          /\ \A i \in 1 .. (Len(q) - 1) : m[i] = IF i < p THEN q[i] ELSE q[i + 1]
  BY WithoutPlaces
<1> HIDE DEF m
<1>2. Len(q) \in Nat /\ DOMAIN q = 1 .. Len(q)
  BY Listed
<1> DEFINE was(j) == IF j < p THEN j ELSE j + 1
<1>3. \A j \in DOMAIN m : was(j) \in DOMAIN q /\ m[j] = q[was(j)]
  BY <1>1, <1>2
<1>4. \A j, n \in DOMAIN m : was(j) < was(n) => j < n
  BY <1>1, <1>2
<1>5. ASSUME NEW o \in DOMAIN q, o # p PROVE \E j \in DOMAIN m : m[j] = q[o]
  <2>1. CASE o < p
    BY <1>1, <1>2, <2>1
  <2>2. CASE o > p
    <3>1. o - 1 \in 1 .. (Len(q) - 1) /\ ~(o - 1 < p) /\ (o - 1) + 1 = o
      BY <1>1, <1>2, <2>2, SMTT(30)
    <3> QED BY <1>1, <3>1
  <2> QED BY <1>1, <1>2, <1>5, <2>1, <2>2
<1> HIDE DEF was
<1>6. ASSUME NEW i \in DOMAIN l PROVE l[i].attempts > 0 \/ Durable!Stays(l[i], m)
  <2>1. CASE l[i].id = t
    BY <2>1
  <2>2. CASE l[i].id # t
    <3>1. l[i].attempts > 0 \/ \E o \in DOMAIN q : q[o].id = l[i].id
      BY DEF Durable!Follows, Durable!Stays
    <3>2. ASSUME NEW o \in DOMAIN q, q[o].id = l[i].id PROVE Durable!Stays(l[i], m)
      <4>1. o # p
        BY <1>1, <2>2, <3>2, SMTT(30)
      <4> QED BY <1>5, <3>2, <4>1 DEF Durable!Stays
    <3> QED BY <3>1, <3>2
  <2> QED BY <2>1, <2>2
<1>7. ASSUME NEW i \in DOMAIN l, NEW j \in DOMAIN m, l[i].id = m[j].id
      PROVE  /\ l[i].attempts <= m[j].attempts
             /\ \A k \in DOMAIN l, n \in DOMAIN m : l[k].id = m[n].id /\ i < k => j < n
             /\ \A n \in DOMAIN m : ~Durable!Stays(m[n], l) => j < n
  <2>1. was(j) \in DOMAIN q /\ m[j] = q[was(j)] /\ l[i].id = q[was(j)].id
    BY <1>3, <1>7, SMTT(30)
  <2>2. l[i].attempts <= m[j].attempts
    BY <2>1, SMTT(30) DEF Durable!Follows
  <2>3. ASSUME NEW k \in DOMAIN l, NEW n \in DOMAIN m, l[k].id = m[n].id, i < k PROVE j < n
    <3>1. was(n) \in DOMAIN q /\ l[k].id = q[was(n)].id
      BY <1>3, <2>3, SMTT(30)
    <3>2. was(j) < was(n)
      BY <2>1, <2>3, <3>1, SMTT(30) DEF Durable!Follows
    <3> QED BY <1>4, <3>2
  <2>4. ASSUME NEW n \in DOMAIN m, ~Durable!Stays(m[n], l) PROVE j < n
    <3>1. was(n) \in DOMAIN q /\ ~Durable!Stays(q[was(n)], l)
      BY <1>3, <2>4, SMTT(30)
    <3>2. was(j) < was(n)
      BY <2>1, <3>1, SMTT(30) DEF Durable!Follows
    <3> QED BY <1>4, <3>2
  <2> QED BY <2>2, <2>3, <2>4
<1>8. Durable!Follows(l, m)
  BY <1>6, <1>7 DEF Durable!Follows
<1> QED BY <1>8 DEF m

\* What a restart would find of a list.
Found(q) == [i \in DOMAIN q |-> [id |-> q[i].id, attempts |-> q[i].attempts]]

LEMMA FoundFollows ==
    ASSUME NEW g \in [Tasks -> Nat], NEW l, NEW m, Counted(m, g), Durable!Follows(l, m)
    PROVE  /\ Found(m) \in Seq(Durable!Entries) /\ Durable!Unique(Found(m))
           /\ Durable!Follows(Found(l), Found(m))
<1>1. /\ Len(m) \in Nat /\ DOMAIN m = 1 .. Len(m)
      /\ \A i \in DOMAIN m : m[i].id \in Tasks /\ m[i].attempts \in Nat
                            /\ m[i].attempts <= MaxAttempts
  BY Listed DEF Counted
<1>2. Found(m) \in [1 .. Len(m) -> Durable!Entries]
  BY <1>1, QueueAssumption DEF Found, Durable!Entries
<1>3. Found(m) \in Seq(Durable!Entries)
  BY <1>1, <1>2
<1>4. \A q : /\ DOMAIN Found(q) = DOMAIN q
             /\ \A i \in DOMAIN q : /\ Found(q)[i].id = q[i].id
                                   /\ Found(q)[i].attempts = q[i].attempts
  BY DEF Found
<1>5. Durable!Unique(Found(m))
  BY <1>4, SMTT(30) DEF Counted, Durable!Unique
<1>6. Durable!Follows(Found(l), Found(m))
  BY <1>4, SMTT(30) DEF Durable!Follows, Durable!Stays
<1> QED BY <1>3, <1>5, <1>6

\* A task that was not enqueued is nowhere, and whoever works on a task was given
\* it by a claim that reached the file.
Attending ==
    /\ producer \in [Tasks -> {"new", "unsure", "sent"}]
    /\ \A t \in Tasks : producer[t] = "new" =>
            given[t] = 0 /\ t \notin Ids(queue) /\ t \notin Ids(file)
    /\ work \in [Instances -> SUBSET (Tasks \cup {None})]
    /\ \A t \in Tasks, a \in Instances : t \in work[a] => given[t] > 0
    /\ \A t \in Tasks, r \in Requests : request[r].task = t => given[t] > 0

\* The memory is a list that may be written after the file.
Ordered == Durable!Follows(file, queue) /\ Attending

\* A step of the durable list, or none.
Durably == [Durable!Next]_(Found(file))

LEMMA WriteFollows ==
    ASSUME Counting, Counting', NEW m, Durable!Follows(file, m), Wrote(m)
    PROVE  Durable!Follows(file, queue)' /\ Durably
<1>1. queue' = m /\ file' \in {file, m}
  BY DEF Wrote
<1>2. Counted(queue', given') /\ given' \in [Tasks -> Nat]
  BY DEF Counting
<1>3. Durable!Follows(m, m)
  BY <1>1, <1>2, FollowsSelf DEF Counted
<1>4. Durable!Follows(file', queue')
  BY <1>1, <1>3
<1>5. CASE file' = file
  BY <1>4, <1>5, SMTT(30) DEF Durably, Found
<1>6. CASE file' = m
  <2>1. /\ Found(m) \in Seq(Durable!Entries) /\ Durable!Unique(Found(m))
        /\ Durable!Follows(Found(file), Found(m))
    BY <1>1, <1>2, FoundFollows
  <2>2. Found(file)' = Found(m)
    BY <1>6, SMTT(30) DEF Found
  <2> QED BY <1>4, <2>1, <2>2 DEF Durably, Durable!Next, Found
<1> QED BY <1>1, <1>5, <1>6

\* Steps after which every task that is on a list, worked on or asked for was so
\* before.
LEMMA StillAttending ==
    ASSUME Counting, Attending, UNCHANGED <<producer, given>>,
           Ids(queue') \cup Ids(file') \subseteq Ids(queue) \cup Ids(file),
           work' \in [Instances -> SUBSET (Tasks \cup {None})],
           \A t \in Tasks, a \in Instances : t \in work'[a] => given[t] > 0,
           \A t \in Tasks, r \in Requests : request'[r].task = t => given[t] > 0
    PROVE  Attending'
<1>1. /\ Ids(queue)' \cup Ids(file)' \subseteq Ids(queue) \cup Ids(file)
      /\ UNCHANGED <<producer, given>>
  BY SMTT(30) DEF Ids
<1> QED BY <1>1, SMTT(30) DEF Attending

LEMMA SameIds ==
    ASSUME NEW q, NEW m, Raised(q, m)
    PROVE  Ids(m) = Ids(q)
BY DEF Raised, Ids

LEMMA FewerIds ==
    ASSUME NEW q \in Seq(Entry), NEW t \in Ids(q)
    PROVE  Ids(Without(q, t)) \subseteq Ids(q)
<1> DEFINE m == Without(q, t)
<1>1. PICK k \in DOMAIN q :
          /\ DOMAIN m = 1 .. (Len(q) - 1)
          /\ \A i \in 1 .. (Len(q) - 1) : m[i] = IF i < k THEN q[i] ELSE q[i + 1]
  BY WithoutPlaces
<1> HIDE DEF m
<1>2. Len(q) \in Nat /\ DOMAIN q = 1 .. Len(q)
  BY Listed
<1>3. \A i \in DOMAIN m : \E j \in DOMAIN q : m[i] = q[j]
  BY <1>1, <1>2, SMTT(30)
<1>4. Ids(m) \subseteq Ids(q)
  BY <1>3 DEF Ids
<1> QED BY <1>4 DEF m

\* The steps that leave the lists, or only change who holds what.
LEMMA RewriteFollows ==
    ASSUME Counting, Counting', Ordered, NEW m, Raised(queue, m), Wrote(m)
    PROVE  /\ Durable!Follows(file, queue)' /\ Durably
           /\ Ids(queue') \cup Ids(file') \subseteq Ids(queue) \cup Ids(file)
<1>1. queue \in Seq(Entry) /\ file \in Seq(Entry) /\ Durable!Follows(file, queue)
  BY DEF Counting, Counted, Ordered
<1>2. Durable!Follows(file, m)
  BY <1>1, FollowsRaised
<1>3. Ids(m) = Ids(queue)
  BY SameIds
<1>4. Ids(queue') \cup Ids(file') \subseteq Ids(queue) \cup Ids(file)
  BY <1>3 DEF Wrote
<1> QED BY <1>2, <1>4, WriteFollows, SMTT(30)

LEMMA SameLists ==
    ASSUME Ordered, UNCHANGED <<queue, file>>
    PROVE  /\ Durable!Follows(file, queue)' /\ Durably
           /\ Ids(queue') \cup Ids(file') \subseteq Ids(queue) \cup Ids(file)
<1>1. Durable!Follows(file', queue')
  BY DEF Ordered
<1>2. Found(file)' = Found(file)
  BY DEF Found
<1> QED BY <1>1, <1>2 DEF Durably, Found

LEMMA EnqueueOrders ==
    ASSUME ~Retry, Counting, Counting', Ordered, NEW t \in Tasks, Enqueue(t)
    PROVE  Ordered' /\ Durably
<1>0. producer[t] = "new" /\ work' = work /\ request' = request
  BY SMTT(30) DEF Enqueue
<1>1. given[t] = 0 /\ t \notin Ids(queue) /\ t \notin Ids(file)
  BY <1>0 DEF Ordered, Attending
<1> DEFINE m == Append(queue, NewTask(t))
<1>2. PICK ok \in BOOLEAN : /\ Persist(m, ok) /\ given' = [given EXCEPT ![t] = 0]
                           /\ producer' = [producer EXCEPT ![t] = IF ok THEN "sent" ELSE "unsure"]
  BY <1>1 DEF Enqueue
<1>3. Wrote(m)
  BY <1>2, PersistWrites, SMTT(30)
<1>4. given \in [Tasks -> Nat] /\ Counted(queue, given) /\ file \in Seq(Entry)
  BY DEF Counting, Counted
<1>5. given' = given
  BY <1>1, <1>2, <1>4, SMTT(30)
<1>6. /\ Len(queue) \in Nat /\ DOMAIN m = 1 .. (Len(queue) + 1)
      /\ m[Len(queue) + 1].id = t /\ \A i \in DOMAIN queue : m[i] = queue[i]
  <2>1. m = Append(queue, NewTask(t))
    OBVIOUS
  <2> HIDE DEF m
  <2> QED BY <1>1, <1>4, <2>1, AppendCounted, SMTT(30)
<1>7. DOMAIN queue = 1 .. Len(queue) /\ queue \in Seq(Entry)
  BY <1>4, Listed DEF Counted
<1> HIDE DEF m
<1>8. Durable!Follows(file, m)
  BY <1>1, <1>4, <1>6, <1>7, FollowsAppended, SMTT(30) DEF Ordered
<1>9. Durable!Follows(file, queue)' /\ Durably
  BY <1>3, <1>8, WriteFollows
<1>10. Ids(m) \subseteq Ids(queue) \cup {t}
  BY <1>6, <1>7 DEF Ids
<1>11. Ids(queue') \subseteq Ids(queue) \cup {t} /\ Ids(file') \subseteq Ids(queue) \cup Ids(file) \cup {t}
  BY <1>3, <1>10, SMTT(30) DEF Wrote
<1>12. /\ producer' \in [Tasks -> {"new", "unsure", "sent"}] /\ producer'[t] # "new"
       /\ \A u \in Tasks : u # t => producer'[u] = producer[u]
  BY <1>2, SMTT(30) DEF Ordered, Attending
<1>13. ASSUME NEW u \in Tasks, producer'[u] = "new"
       PROVE  given'[u] = 0 /\ u \notin Ids(queue') /\ u \notin Ids(file')
  BY <1>5, <1>11, <1>12, <1>13, SMTT(30) DEF Ordered, Attending
<1>14. \A u \in Tasks : producer'[u] = "new" =>
          given'[u] = 0 /\ u \notin Ids(queue)' /\ u \notin Ids(file)'
  BY <1>13, SMTT(30) DEF Ids
<1>15. Attending'
  BY <1>0, <1>5, <1>12, <1>14 DEF Ordered, Attending
<1> QED BY <1>9, <1>15, SMTT(30) DEF Ordered

LEMMA LapseOrders ==
    ASSUME Counting, Counting', Ordered, NEW t \in Tasks, Lapse(t)
    PROVE  Ordered' /\ Durably
<1>1. Reclaimed(queue, queue') /\ Reclaimed(file, file') /\ given' = given
  BY LapseReclaims, SMTT(30)
<1>2. queue \in Seq(Entry) /\ file \in Seq(Entry) /\ Durable!Follows(file, queue)
  BY DEF Counting, Counted, Ordered
<1>3. Durable!Follows(file, queue')
  BY <1>1, <1>2, FollowsRaised DEF Reclaimed
<1>4. Durable!Follows(file', queue')
  BY <1>1, <1>3, ReclaimedFollows, SMTT(30)
<1>5. Found(file') = Found(file)
  BY <1>1, SMTT(30) DEF Found, Reclaimed, Raised
<1>6. Durably
  BY <1>5 DEF Durably, Found
<1>7. Ids(queue') = Ids(queue) /\ Ids(file') = Ids(file)
  BY <1>1, SameIds DEF Reclaimed
<1>8. UNCHANGED <<producer, given, work, request>>
  BY DEF Lapse
<1>9. Attending'
  BY <1>7, <1>8, StillAttending, Zenon DEF Ordered, Attending
<1> QED BY <1>4, <1>6, <1>9 DEF Ordered

LEMMA ClaimOrders ==
    ASSUME LeastMembers, Counting, Asking, Counting', Ordered, NEW r \in Requests, Claim(r)
    PROVE  Ordered' /\ Durably
<1>0. UNCHANGED <<producer, work>> /\ None \notin Tasks
  BY QueueAssumption DEF Claim
<1>a. CASE Finish(r) /\ given' = given /\ Durable!Follows(file, queue)' /\ Durably
           /\ Ids(queue') \cup Ids(file') \subseteq Ids(queue) \cup Ids(file)
  <2>1. \A u \in Tasks, s \in Requests : request'[s].task = u => given[u] > 0
    BY <1>0, <1>a DEF Finish, NoRequest, Ordered, Attending, Asking
  <2>2. Attending'
    BY <1>0, <1>a, <2>1, StillAttending, Zenon DEF Ordered, Attending
  <2> QED BY <1>a, <2>2, SMTT(30) DEF Ordered
<1>1. CASE Deliverable(queue) = {}
  <2>1. UNCHANGED <<queue, file, given>> /\ Finish(r)
    BY <1>1 DEF Claim, queueVars
  <2> QED BY <1>a, <2>1, SameLists
<1>2. CASE Deliverable(queue) # {}
  <2> DEFINE e == Chosen(queue)
             t == e.id
             m == With(queue, Claimed(e, request[r].by))
  <2>1. PICK ok \in BOOLEAN :
            /\ Persist(m, ok)
            /\ IF ok THEN /\ given' = [given EXCEPT ![e.id] = @ + 1]
                          /\ request' = [request EXCEPT ![r].at = "agents", ![r].task = e.id]
                     ELSE UNCHANGED given /\ Finish(r)
    BY <1>2 DEF Claim
  <2>2. Wrote(m)
    BY <2>1, PersistWrites
  <2>3. given \in [Tasks -> Nat] /\ Counted(queue, given)
    BY DEF Counting
  <2>4. request[r].by \in Instances \cup {None}
    BY DEF Asking, Ask
  <2>5. Raised(queue, m) /\ t \in Ids(queue) /\ t \in Tasks
    BY <1>2, <2>3, <2>4, ClaimRaises, Zenon
  <2> HIDE DEF m
  <2>6. /\ Durable!Follows(file, queue)' /\ Durably
        /\ Ids(queue') \cup Ids(file') \subseteq Ids(queue) \cup Ids(file)
    BY <2>2, <2>5, RewriteFollows
  <2>7. CASE ~ok
    BY <1>a, <2>1, <2>6, <2>7
  <2>8. CASE ok
    <3>1. given' = [given EXCEPT ![t] = @ + 1]
      BY <2>1, <2>8
    <3>2. request' = [request EXCEPT ![r].at = "agents", ![r].task = t]
      BY <2>1, <2>8
    <3> HIDE DEF t
    <3>3. given'[t] > 0 /\ \A u \in Tasks : given'[u] >= given[u] /\ given[u] \in Nat
                                          /\ (u # t => given'[u] = given[u])
      BY <2>3, <2>5, <3>1
    <3>4. \A s \in Requests : request'[s].task \in {request[s].task, t}
      BY <3>2, SMTT(30) DEF Asking, Ask
    <3>5. \A u \in Tasks, s \in Requests : request'[s].task = u => given'[u] > 0
      BY <3>3, <3>4, SMTT(30) DEF Ordered, Attending
    <3>6. \A u \in Tasks, a \in Instances : u \in work'[a] => given'[u] > 0
      BY <1>0, <3>3 DEF Ordered, Attending
    <3>7. ASSUME NEW u \in Tasks, producer'[u] = "new"
          PROVE  given'[u] = 0 /\ u \notin Ids(queue)' /\ u \notin Ids(file)'
      <4>1. given[u] = 0 /\ u \notin Ids(queue) /\ u \notin Ids(file)
        BY <1>0, <3>7, SMTT(30) DEF Ordered, Attending
      <4>2. u # t /\ given'[u] = 0
        BY <2>5, <3>3, <4>1
      <4>3. u \notin Ids(queue') /\ u \notin Ids(file')
        BY <2>6, <4>1, SMTT(30)
      <4> QED BY <4>2, <4>3, SMTT(30) DEF Ids
    <3>8. Attending'
      BY <1>0, <3>5, <3>6, <3>7 DEF Ordered, Attending
    <3> QED BY <2>6, <3>8 DEF Ordered
  <2> QED BY <2>7, <2>8
<1> QED BY <1>1, <1>2

\* A request that ends or moves on asks for nothing new.
LEMMA AnswersAttend ==
    ASSUME Counting, Asking, Attending, NEW r \in Requests, UNCHANGED <<producer, given>>,
           Ids(queue') \cup Ids(file') \subseteq Ids(queue) \cup Ids(file),
           Finish(r) \/ request' = [request EXCEPT ![r].at = "agents"],
           work' \in [Instances -> SUBSET (Tasks \cup {None})],
           \A a \in Instances : work'[a] \subseteq work[a] \cup {request[r].task}
    PROVE  Attending'
<1>1. None \notin Tasks
  BY QueueAssumption
<1>2. \A s \in Requests : request'[s].task \in {None, request[s].task}
  BY DEF Finish, NoRequest, Asking, Ask
<1>3. \A t \in Tasks, s \in Requests : request'[s].task = t => given[t] > 0
  BY <1>1, <1>2 DEF Attending
<1>4. \A t \in Tasks, a \in Instances : t \in work'[a] => given[t] > 0
  BY DEF Attending
<1> QED BY <1>3, <1>4, StillAttending

LEMMA RefuseOrders ==
    ASSUME Counting, Asking, Ordered, NEW r \in Requests, Refuse(r), UNCHANGED producer
    PROVE  Ordered' /\ Durably
<1>1. UNCHANGED <<queue, file, given>> /\ Finish(r)
  BY DEF Refuse, queueVars
<1>2. /\ Durable!Follows(file, queue)' /\ Durably
      /\ Ids(queue') \cup Ids(file') \subseteq Ids(queue) \cup Ids(file)
  BY <1>1, SameLists
<1>3. work \in [Instances -> SUBSET (Tasks \cup {None})]
  BY DEF Ordered, Attending
<1>4. /\ work' \in [Instances -> SUBSET (Tasks \cup {None})]
      /\ \A a \in Instances : work'[a] \subseteq work[a]
  BY <1>3, Zenon DEF Refuse
<1>5. Attending'
  BY <1>1, <1>2, <1>4, AnswersAttend DEF Ordered
<1> QED BY <1>2, <1>5 DEF Ordered

LEMMA AckOrders ==
    ASSUME Counting, Asking, Counting', Ordered, NEW r \in Requests, Ack(r)
    PROVE  Ordered' /\ Durably
<1> DEFINE t == request[r].task
<1>0. UNCHANGED producer /\ work \in [Instances -> SUBSET (Tasks \cup {None})] /\ Attending
  BY DEF Ack, Ordered, Attending
<1>1. CASE /\ request' = [request EXCEPT ![r].at = "agents"]
           /\ UNCHANGED <<queueVars, work, left>>
  <2>1. UNCHANGED <<queue, file, given, work>>
    BY <1>1 DEF queueVars
  <2>2. /\ Durable!Follows(file, queue)' /\ Durably
        /\ Ids(queue') \cup Ids(file') \subseteq Ids(queue) \cup Ids(file)
    BY <2>1, SameLists
  <2>3. Attending'
    BY <1>0, <1>1, <2>1, <2>2, AnswersAttend, Zenon
  <2> QED BY <2>2, <2>3 DEF Ordered
<1>2. CASE Refuse(r)
  BY <1>0, <1>2, RefuseOrders
<1>3. CASE /\ Holds(request[r].by, t) /\ UNCHANGED <<given, work>>
           /\ \E ok \in BOOLEAN :
                 /\ Persist(Without(queue, t), ok)
                 /\ IF ok THEN request' = [request EXCEPT ![r].at = "agents"] ELSE Finish(r)
  <2> DEFINE m == Without(queue, t)
  <2>1. PICK ok \in BOOLEAN :
            /\ Persist(m, ok)
            /\ IF ok THEN request' = [request EXCEPT ![r].at = "agents"] ELSE Finish(r)
    BY <1>3
  <2>2. Wrote(m)
    BY <2>1, PersistWrites, SMTT(30)
  <2>3. /\ queue \in Seq(Entry) /\ file \in Seq(Entry) /\ given \in [Tasks -> Nat]
        /\ Durable!Unique(queue) /\ Durable!Follows(file, queue)
        /\ \A i \in DOMAIN file : given[file[i].id] <= file[i].attempts
    BY DEF Counting, Counted, Ordered
  <2>4. t \in Ids(queue) /\ t \in Tasks
    BY <1>3, <2>3, Listed, SMTT(30) DEF Holds, Ids
  <2>5. given[t] > 0 /\ given[t] \in Nat
    BY <2>3, <2>4, SMTT(30) DEF Ordered, Attending
  <2>6. \A i \in DOMAIN file : file[i].id = t => file[i].attempts > 0
    BY <2>3, <2>5, Listed, SMTT(30)
  <2> HIDE DEF t
  <2>7. Durable!Follows(file, m) /\ Ids(m) \subseteq Ids(queue)
    BY <2>3, <2>4, <2>6, FollowsWithout, FewerIds
  <2> HIDE DEF m
  <2>8. Durable!Follows(file, queue)' /\ Durably
    BY <2>2, <2>7, WriteFollows
  <2>9. Ids(queue') \cup Ids(file') \subseteq Ids(queue) \cup Ids(file)
    BY <2>2, <2>7 DEF Wrote
  <2>10. Attending'
    BY <1>0, <1>3, <2>1, <2>9, AnswersAttend
  <2> QED BY <2>8, <2>10 DEF Ordered
<1> QED BY <1>1, <1>2, <1>3 DEF Ack

LEMMA RequeueOrders ==
    ASSUME Counting, Asking, Counting', Ordered, NEW r \in Requests, Requeue(r)
    PROVE  Ordered' /\ Durably
<1> DEFINE t == request[r].task
           m == With(queue, Unclaimed(TaskOf(queue, t)))
<1>0. UNCHANGED producer /\ work \in [Instances -> SUBSET (Tasks \cup {None})] /\ Attending
  BY DEF Requeue, Ordered, Attending
<1>1. CASE Refuse(r)
  BY <1>0, <1>1, RefuseOrders
<1>2. CASE /\ Holds(request[r].by, t) /\ UNCHANGED <<given, done, work>>
           /\ \E ok \in BOOLEAN :
                 /\ Persist(m, ok)
                 /\ IF ok THEN request' = [request EXCEPT ![r].at = "agents"] ELSE Finish(r)
  <2>1. PICK ok \in BOOLEAN :
            /\ Persist(m, ok)
            /\ IF ok THEN request' = [request EXCEPT ![r].at = "agents"] ELSE Finish(r)
    BY <1>2
  <2>2. Wrote(m)
    BY <2>1, PersistWrites
  <2>3. Raised(queue, m)
    BY <1>2, RequeueReclaims DEF Counting, Counted, Holds, Reclaimed
  <2> HIDE DEF m
  <2>4. /\ Durable!Follows(file, queue)' /\ Durably
        /\ Ids(queue') \cup Ids(file') \subseteq Ids(queue) \cup Ids(file)
    BY <2>2, <2>3, RewriteFollows
  <2>5. Attending'
    BY <1>0, <1>2, <2>1, <2>4, AnswersAttend
  <2> QED BY <2>4, <2>5 DEF Ordered
<1> QED BY <1>1, <1>2 DEF Requeue

LEMMA AnswerOrders ==
    ASSUME Counting, Asking, Ordered, NEW r \in Requests, Answer(r)
    PROVE  Ordered' /\ Durably
<1>1. UNCHANGED <<queue, file, given, producer>> /\ Finish(r)
  BY DEF Answer, queueVars
<1>2. /\ Durable!Follows(file, queue)' /\ Durably
      /\ Ids(queue') \cup Ids(file') \subseteq Ids(queue) \cup Ids(file)
  BY <1>1, SameLists
<1>3. /\ work \in [Instances -> SUBSET (Tasks \cup {None})]
      /\ request[r].task \in Tasks \cup {None}
  BY DEF Ordered, Attending, Asking, Ask
<1>4. /\ work' \in [Instances -> SUBSET (Tasks \cup {None})]
      /\ \A a \in Instances : work'[a] \subseteq work[a] \cup {request[r].task}
  BY <1>3, Zenon DEF Answer
<1>5. Attending'
  BY <1>1, <1>2, <1>4, AnswersAttend DEF Ordered
<1> QED BY <1>2, <1>5, SMTT(30) DEF Ordered

\* The steps that write no list and give no task out.
LEMMA CallOrders ==
    ASSUME Counting, Asking, Ordered, NEW r \in Requests, NEW op \in {"claim", "ack", "requeue"},
           NEW a \in Instances, NEW t \in Tasks \cup {None}, Call(r, op, a, t)
    PROVE  Ordered' /\ Durably
<1>1. UNCHANGED <<queue, file, given, producer, work>>
  BY Zenon DEF Call, queueVars
<1>2. /\ Durable!Follows(file, queue)' /\ Durably
      /\ Ids(queue') \cup Ids(file') \subseteq Ids(queue) \cup Ids(file)
  BY <1>1, SameLists
<1>3. t = None \/ t \in work[a]
  BY Zenon DEF Call
<1>4. \A s \in Requests : request'[s].task \in {t, request[s].task}
  BY SMTT(30) DEF Call, Asking
<1>5. \A u \in Tasks, s \in Requests : request'[s].task = u => given[u] > 0
  BY <1>3, <1>4, QueueAssumption DEF Ordered, Attending
<1>6. Attending'
  BY <1>1, <1>2, <1>5, StillAttending, Zenon DEF Ordered, Attending
<1> QED BY <1>2, <1>6 DEF Ordered

LEMMA UnheardOrders ==
    ASSUME Counting, Asking, Ordered, NEW a \in Instances, Stop(a) \/ Exit(a)
    PROVE  Ordered' /\ Durably
<1>1. UNCHANGED <<queue, file, given, producer>> /\ Unheard(a)
  BY DEF Stop, Exit, queueVars
<1>2. /\ Durable!Follows(file, queue)' /\ Durably
      /\ Ids(queue') \cup Ids(file') \subseteq Ids(queue) \cup Ids(file)
  BY <1>1, SameLists
<1>3. /\ work' \in [Instances -> SUBSET (Tasks \cup {None})]
      /\ \A b \in Instances : work'[b] \subseteq work[b]
  BY DEF Stop, Exit, Ordered, Attending
<1>4. \A r \in Requests : request'[r].task = request[r].task
  BY <1>1, SMTT(30) DEF Unheard, Asking, Ask
<1>5. /\ \A u \in Tasks, s \in Requests : request'[s].task = u => given[u] > 0
      /\ \A u \in Tasks, b \in Instances : u \in work'[b] => given[u] > 0
  BY <1>3, <1>4, SMTT(30) DEF Ordered, Attending
<1>6. Attending'
  BY <1>1, <1>2, <1>3, <1>5, StillAttending DEF Ordered
<1> QED BY <1>2, <1>6 DEF Ordered

LEMMA DeleteOrders ==
    ASSUME Counting, Counting', Ordered, NEW a \in Instances, Delete(a)
    PROVE  Ordered' /\ Durably
<1>1. UNCHANGED <<given, producer, work, request>>
  BY SMTT(30) DEF Delete
<1>2. /\ Durable!Follows(file, queue)' /\ Durably
      /\ Ids(queue') \cup Ids(file') \subseteq Ids(queue) \cup Ids(file)
  <2>1. CASE UNCHANGED <<queue, file>>
    BY <2>1, SameLists
  <2>2. CASE \E ok \in BOOLEAN : Persist(Released(queue, a), ok)
    <3>1. Wrote(Released(queue, a))
      BY <2>2, PersistWrites
    <3>2. Raised(queue, Released(queue, a))
      BY ReleasedReclaims, Zenon DEF Counting, Counted, Reclaimed
    <3> QED BY <3>1, <3>2, RewriteFollows
  <2> QED BY <2>1, <2>2 DEF Delete
<1>3. Attending'
  BY <1>1, <1>2, StillAttending, Zenon DEF Ordered, Attending
<1> QED BY <1>2, <1>3, SMTT(30) DEF Ordered

LEMMA CrashOrders ==
    ASSUME Counting, Ordered, Crash
    PROVE  Ordered' /\ Durably
<1>1. queue' = file /\ UNCHANGED <<file, given, producer, work>>
  BY DEF Crash
<1>2. Durable!Follows(file, file)
  BY FollowsSelf DEF Counting, Counted
<1>3. Durable!Follows(file', queue') /\ Found(file') = Found(file)
  BY <1>1, <1>2, SMTT(30)
<1>4. \A r \in Requests : request'[r].task = None
  BY DEF Crash, NoRequest
<1>5. \A u \in Tasks, s \in Requests : request'[s].task = u => given[u] > 0
  BY <1>4, QueueAssumption
<1>6. Ids(queue') \cup Ids(file') \subseteq Ids(queue) \cup Ids(file)
  BY <1>1
<1>7. Attending'
  BY <1>1, <1>5, <1>6, StillAttending, Zenon DEF Ordered, Attending
<1> QED BY <1>3, <1>7 DEF Ordered, Durably, Found

LEMMA ElsewhereOrders ==
    ASSUME Counting, Ordered, UNCHANGED <<queue, file, given, producer, work, request>>
    PROVE  Ordered' /\ Durably
<1>1. /\ Durable!Follows(file, queue)' /\ Durably
      /\ Ids(queue') \cup Ids(file') \subseteq Ids(queue) \cup Ids(file)
  BY SameLists
<1>2. Attending'
  BY <1>1, StillAttending, Zenon DEF Ordered, Attending
<1> QED BY <1>1, <1>2 DEF Ordered

LEMMA NextOrders ==
    ASSUME LeastMembers, ~Retry, Counting, Asking, Counting', Ordered, Next
    PROVE  Ordered' /\ Durably
<1>1. ASSUME NEW t \in Tasks, Enqueue(t) \/ Lapse(t) PROVE Ordered' /\ Durably
  BY <1>1, EnqueueOrders, LapseOrders
<1>2. ASSUME NEW r \in Requests, Serve(r) PROVE Ordered' /\ Durably
  BY <1>2, ClaimOrders, AckOrders, RequeueOrders, AnswerOrders DEF Serve
<1>3. ASSUME NEW a \in Instances, Calls(a) PROVE Ordered' /\ Durably
  <2>1. PICK r \in Requests, op \in {"claim", "ack", "requeue"}, t \in Tasks \cup {None} :
            Call(r, op, a, t)
    BY <1>3 DEF Calls
  <2> QED BY <2>1, CallOrders
<1>4. ASSUME NEW a \in Instances,
             \/ ToolCall(a) \/ Spend(a) \/ ReportSpend(a) \/ ReportExit(a)
             \/ Create(a) \/ Grant(a) \/ Start(a) \/ Drain(a) \/ Forget(a)
      PROVE  Ordered' /\ Durably
  <2>1. UNCHANGED <<queue, file, given, producer, work, request>>
    BY <1>4 DEF ToolCall, Spend, ReportSpend, ReportExit, Create, Grant, Start, Drain,
                Forget, queueVars
  <2> QED BY <2>1, ElsewhereOrders, SMTT(30)
<1>5. ASSUME NEW a \in Instances, Stop(a) \/ Exit(a) \/ Delete(a) PROVE Ordered' /\ Durably
  BY <1>5, UnheardOrders, DeleteOrders
<1>6. CASE Crash
  BY <1>6, CrashOrders
<1> QED BY <1>1, <1>2, <1>3, <1>4, <1>5, <1>6 DEF Next, Dispatch

LEMMA OrderInitially ==
    ASSUME Init
    PROVE  Ordered /\ Found(file) = <<>>
<1>1. /\ queue = <<>> /\ file = <<>> /\ given = [t \in Tasks |-> 0]
      /\ producer = [t \in Tasks |-> "new"] /\ work = [a \in Instances |-> {}]
      /\ request = [r \in Requests |-> NoRequest]
  BY SMTT(30) DEF Init
<1>2. Ids(<<>>) = {} /\ Durable!Follows(<<>>, <<>>) /\ Found(<<>>) = <<>>
  BY SMTT(30) DEF Ids, Durable!Follows, Found
<1>3. Attending
  BY <1>1, <1>2, QueueAssumption DEF Attending, NoRequest
<1> QED BY <1>1, <1>2, <1>3 DEF Ordered

-----------------------------------------------------------------------------
(* Budgets, and what a deleted instance leaves.                             *)

Recorded(w) ==
    w = [phase |-> w.phase, tools |-> w.tools, draining |-> w.draining,
         task |-> w.task, exhausted |-> w.exhausted]

Phases == {"absent", "created", "running", "stopped"}

Viewed ==
    /\ world = [a \in Instances |-> world[a]]
    /\ \A a \in Instances : Recorded(world[a]) /\ world[a].phase \in Phases

Noted ==
    /\ container \in [Instances -> {"absent", "idle", "running", "exited"}]
    /\ meter \in [Instances -> Nat \cup {None}] /\ calls \in [Instances -> Nat]
    /\ deleting \in Instances \cup {None}

\* The meter of an instance is no lower than the calls it was allowed.  A meter
\* is lost in a restart, but then no call is allowed until the instance is
\* created again, and that takes a deletion the server knows of.
Metered(a) ==
    /\ world[a].phase = "absent" => calls[a] = 0 /\ container[a] # "running"
    /\ meter[a] # None => calls[a] <= meter[a] /\ meter[a] <= Budget
    /\ calls[a] <= Budget
    /\ deleting = a => container[a] # "running"

Clean(a) ==
    world[a].phase = "absent" /\ container[a] = "absent" =>
        a \notin envelope \cup draining \cup known /\ meter[a] = None

Budgeted == Viewed /\ Noted /\ \A a \in Instances : Metered(a) /\ Clean(a)

\* A step that is about one instance, after which it is in order.
LEMMA OneInstance ==
    ASSUME Budgeted, NEW a \in Instances, Viewed', Noted', Metered(a)', Clean(a)',
           \A b \in Instances \ {a} :
               /\ world'[b] = world[b] /\ container'[b] = container[b]
               /\ meter'[b] = meter[b] /\ calls'[b] = calls[b] /\ deleting' # b
               /\ (b \in envelope' => b \in envelope) /\ (b \in draining' => b \in draining)
               /\ (b \in known' => b \in known)
    PROVE  Budgeted'
<1>1. ASSUME NEW b \in Instances \ {a} PROVE Metered(b)' /\ Clean(b)'
  <2>1. Metered(b) /\ Clean(b)
    BY Zenon DEF Budgeted
  <2> QED BY <2>1 DEF Metered, Clean
<1> QED BY <1>1, ZenonT(30) DEF Budgeted

LEMMA UnchangedBudgeted ==
    ASSUME Budgeted,
           UNCHANGED <<world, container, meter, calls, deleting, envelope, draining, known>>
    PROVE  Budgeted'
BY Zenon DEF Budgeted, Viewed, Noted, Metered, Clean, Recorded

\* What the server hears of an instance, or does not hear.
LEMMA ObservedViews ==
    ASSUME Viewed, NEW a \in Instances, NEW w, Recorded(w), w.phase \in Phases,
           Observed(a, w)
    PROVE  /\ Viewed' /\ world'[a] \in {world[a], w}
           /\ \A b \in Instances \ {a} : world'[b] = world[b]
<1>1. CASE world' = [world EXCEPT ![a] = w]
  BY <1>1, SMTT(30) DEF Viewed, Recorded
<1>2. CASE UNCHANGED world
  BY <1>2 DEF Viewed, Recorded
<1> QED BY <1>1, <1>2, SMTT(30) DEF Observed

LEMMA RecordForms ==
    ASSUME Viewed, NEW a \in Instances
    PROVE  /\ Recorded([Unknown EXCEPT !.phase = "created"])
           /\ [Unknown EXCEPT !.phase = "created"].phase = "created"
           /\ Recorded(Unknown) /\ Unknown.phase = "absent"
           /\ Recorded(Granted(a)) /\ Granted(a).phase = world[a].phase
           /\ Recorded(DrainReported(a)) /\ DrainReported(a).phase = world[a].phase
           /\ Recorded(SpendReported(a)) /\ SpendReported(a).phase = world[a].phase
           /\ \A p \in Phases : /\ Recorded([world[a] EXCEPT !.phase = p])
                                /\ [world[a] EXCEPT !.phase = p].phase = p
<1>1. Recorded(Unknown) /\ Unknown.phase = "absent"
  BY DEF Recorded, Unknown
<1> DEFINE w == world[a]
           yes == TRUE
<1>2. Recorded(w)
  BY DEF Viewed
<1>3. /\ Granted(a) = [w EXCEPT !.tools = yes]
      /\ DrainReported(a) = [w EXCEPT !.draining = yes, !.task = slot[a]]
      /\ SpendReported(a) = [w EXCEPT !.exhausted = yes]
  BY DEF Granted, DrainReported, SpendReported
<1> HIDE DEF w, yes
<1>4. Recorded(Granted(a)) /\ Granted(a).phase = w.phase
  <2>1. Granted(a) = [phase |-> w.phase, tools |-> yes, draining |-> w.draining,
                      task |-> w.task, exhausted |-> w.exhausted]
    BY <1>2, <1>3 DEF Recorded
  <2> QED BY <2>1 DEF Recorded
<1>5. Recorded(DrainReported(a)) /\ DrainReported(a).phase = w.phase
  <2>1. DrainReported(a) = [phase |-> w.phase, tools |-> w.tools, draining |-> yes,
                            task |-> slot[a], exhausted |-> w.exhausted]
    BY <1>2, <1>3, Zenon DEF Recorded
  <2> QED BY <2>1 DEF Recorded
<1>6. Recorded(SpendReported(a)) /\ SpendReported(a).phase = w.phase
  <2>1. SpendReported(a) = [phase |-> w.phase, tools |-> w.tools, draining |-> w.draining,
                            task |-> w.task, exhausted |-> yes]
    BY <1>2, <1>3 DEF Recorded
  <2> QED BY <2>1 DEF Recorded
<1>7. ASSUME NEW v, Recorded(v), NEW p
      PROVE  Recorded([v EXCEPT !.phase = p]) /\ [v EXCEPT !.phase = p].phase = p
  <2>1. [v EXCEPT !.phase = p] = [phase |-> p, tools |-> v.tools, draining |-> v.draining,
                                  task |-> v.task, exhausted |-> v.exhausted]
    BY <1>7 DEF Recorded
  <2> QED BY <2>1 DEF Recorded
<1>8. /\ Recorded([Unknown EXCEPT !.phase = "created"])
      /\ [Unknown EXCEPT !.phase = "created"].phase = "created"
  BY <1>1, <1>7
<1>9. \A p \in Phases : /\ Recorded([w EXCEPT !.phase = p])
                        /\ [w EXCEPT !.phase = p].phase = p
  BY <1>2, <1>7, SMTT(30)
<1> QED BY <1>1, <1>4, <1>5, <1>6, <1>8, <1>9, SMTT(30) DEF w

LEMMA CreateBudgets ==
    ASSUME Budgeted, NEW a \in Instances, Create(a)
    PROVE  Budgeted'
<1> DEFINE w == [Unknown EXCEPT !.phase = "created"]
<1>1. Recorded(w) /\ w.phase = "created" /\ Observed(a, w) /\ Viewed
  BY RecordForms, SMTT(30) DEF Create, Budgeted
<1> HIDE DEF w
<1>2. /\ Viewed' /\ world'[a] \in {world[a], w}
      /\ \A b \in Instances \ {a} : world'[b] = world[b]
  BY <1>1, ObservedViews DEF Phases
<1>3. Noted /\ Metered(a) /\ Budget \in Nat
  BY QueueAssumption DEF Budgeted
<1>4. /\ deleting = None /\ deleting' = None /\ world[a].phase = "absent"
      /\ container' = [container EXCEPT ![a] = IF @ = "absent" THEN "idle" ELSE @]
      /\ meter' = [meter EXCEPT ![a] = IF @ = None THEN 0 ELSE @]
      /\ known' = known \cup {a} /\ UNCHANGED <<draining, envelope, calls>>
  BY SMTT(30) DEF Create, Reserve
<1>5. Noted'
  BY <1>3, <1>4, SMTT(30) DEF Noted
<1>6. Metered(a)' /\ Clean(a)'
  <2>1. calls'[a] = 0 /\ container'[a] \notin {"absent", "running"}
    BY <1>3, <1>4, SMTT(30) DEF Metered, Noted
  <2>2. meter'[a] \in Nat /\ meter'[a] <= Budget
    BY <1>3, <1>4, SMTT(30) DEF Metered, Noted
  <2> QED BY <1>3, <1>4, <2>1, <2>2, QueueAssumption, SMTT(30) DEF Metered, Clean
<1>7. \A b \in Instances \ {a} : /\ container'[b] = container[b] /\ meter'[b] = meter[b]
                                /\ deleting' # b
  BY <1>3, <1>4, QueueAssumption, SMTT(30) DEF Noted
<1> QED BY <1>2, <1>4, <1>5, <1>6, <1>7, OneInstance

\* Steps that only change the server's view of an instance it knows.
LEMMA ViewBudgets ==
    ASSUME Budgeted, NEW a \in Instances, world[a].phase # "absent", Viewed',
           world'[a].phase # "absent", \A b \in Instances \ {a} : world'[b] = world[b],
           UNCHANGED <<container, meter, calls, deleting, known>>,
           envelope' \subseteq envelope \cup {a}, draining' \subseteq draining \cup {a}
    PROVE  Budgeted'
<1>1. Noted'
  BY SMTT(30) DEF Budgeted, Noted
<1>2. ASSUME NEW b \in Instances PROVE Metered(b)' /\ Clean(b)'
  <2>1. Metered(b) /\ Clean(b)
    BY SMTT(30) DEF Budgeted
  <2>2. CASE b = a
    BY <2>1, <2>2, SMTT(30) DEF Metered, Clean
  <2>3. CASE b # a
    BY <2>1, <2>3 DEF Metered, Clean
  <2> QED BY <2>2, <2>3, SMTT(30)
<1> QED BY <1>1, <1>2, SMTT(30) DEF Budgeted

LEMMA GrantBudgets ==
    ASSUME Budgeted, NEW a \in Instances, Grant(a)
    PROVE  Budgeted'
<1>1. Viewed /\ world[a].phase = "created" /\ Observed(a, Granted(a))
  BY Zenon DEF Budgeted, Grant, MayGrant
<1>2. Recorded(Granted(a)) /\ Granted(a).phase = "created"
  BY <1>1, RecordForms, SMTT(30)
<1>3. /\ Viewed' /\ world'[a].phase # "absent"
      /\ \A b \in Instances \ {a} : world'[b] = world[b]
  BY <1>1, <1>2, ObservedViews DEF Phases
<1> QED BY <1>1, <1>3, ViewBudgets, Zenon DEF Grant

LEMMA DrainBudgets ==
    ASSUME Budgeted, NEW a \in Instances, Drain(a)
    PROVE  Budgeted'
<1>1. Viewed /\ world[a].phase = "running" /\ Observed(a, DrainReported(a))
  BY Zenon DEF Budgeted, Drain, MayDrain
<1>2. Recorded(DrainReported(a)) /\ DrainReported(a).phase = "running"
  BY <1>1, RecordForms, SMTT(30)
<1>3. /\ Viewed' /\ world'[a].phase # "absent"
      /\ \A b \in Instances \ {a} : world'[b] = world[b]
  BY <1>1, <1>2, ObservedViews, SMTT(30) DEF Phases
<1> QED BY <1>1, <1>3, ViewBudgets, Zenon DEF Drain

LEMMA ReportBudgets ==
    ASSUME Budgeted, NEW a \in Instances, ReportSpend(a) \/ ReportExit(a)
    PROVE  Budgeted'
<1>1. Viewed /\ world[a].phase # "absent" /\ world[a].phase \in Phases
  BY DEF Budgeted, Viewed, ReportSpend, ReportExit
<1>2. UNCHANGED <<container, meter, calls, deleting, known, envelope, draining>>
  BY SMTT(30) DEF ReportSpend, ReportExit, agentVars
<1>3. /\ Viewed' /\ world'[a].phase # "absent"
      /\ \A b \in Instances \ {a} : world'[b] = world[b]
  <2>1. CASE ReportSpend(a)
    <3>1. Recorded(SpendReported(a)) /\ SpendReported(a).phase = world[a].phase
      BY <1>1, RecordForms
    <3>2. world' = [world EXCEPT ![a] = SpendReported(a)]
      BY <2>1, SMTT(30) DEF ReportSpend
    <3> QED BY <1>1, <3>1, <3>2 DEF Viewed, Recorded
  <2>2. CASE ReportExit(a)
    <3> DEFINE v == [world[a] EXCEPT !.phase = "stopped"]
    <3>1. Recorded(v) /\ v.phase = "stopped"
      BY <1>1, RecordForms, Zenon DEF Phases
    <3>2. world' = [world EXCEPT ![a] = v]
      BY <2>2 DEF ReportExit
    <3> HIDE DEF v
    <3> QED BY <1>1, <3>1, <3>2 DEF Viewed, Recorded, Phases
  <2> QED BY <2>1, <2>2, SMTT(30)
<1> QED BY <1>1, <1>2, <1>3, ViewBudgets

\* Starting or stopping a container, and its exit.
LEMMA RunBudgets ==
    ASSUME Budgeted, NEW a \in Instances, Start(a) \/ Stop(a)
    PROVE  Budgeted'
<1>1. /\ Viewed /\ Noted /\ Metered(a) /\ deleting = None /\ deleting' = None
      /\ world[a].phase \in {"created", "running"}
      /\ UNCHANGED <<meter, calls, known, envelope, draining>>
  BY DEF Budgeted, Start, MayStart, Stop, MayStop, agentVars
<1>2. \E p \in {"running", "stopped"} : Observed(a, [world[a] EXCEPT !.phase = p])
  BY SMTT(30) DEF Start, Stop
<1>3. /\ Viewed' /\ world'[a].phase # "absent"
      /\ \A b \in Instances \ {a} : world'[b] = world[b]
  <2>1. PICK p \in {"running", "stopped"} : Observed(a, [world[a] EXCEPT !.phase = p])
    BY <1>2
  <2> DEFINE v == [world[a] EXCEPT !.phase = p]
  <2>2. Recorded(v) /\ v.phase = p /\ p \in Phases
    BY <1>1, RecordForms, ZenonT(30) DEF Phases
  <2>3. Observed(a, v)
    BY <2>1
  <2> HIDE DEF v
  <2> QED BY <1>1, <2>2, <2>3, ObservedViews
<1>4. /\ container' \in [Instances -> {"absent", "idle", "running", "exited"}]
      /\ \A b \in Instances \ {a} : container'[b] = container[b]
  BY <1>1 DEF Start, Stop, Noted
<1>5. Noted'
  BY <1>1, <1>4, SMTT(30) DEF Noted
<1>6. Metered(a)' /\ Clean(a)'
  BY <1>1, <1>3, QueueAssumption DEF Metered, Clean
<1> QED BY <1>1, <1>3, <1>4, <1>5, <1>6, OneInstance, QueueAssumption, Zenon

LEMMA ExitBudgets ==
    ASSUME Budgeted, NEW a \in Instances, Exit(a)
    PROVE  Budgeted'
<1>1. /\ container[a] = "running" /\ container' = [container EXCEPT ![a] = "exited"]
      /\ UNCHANGED <<world, deleting, meter, calls, known, envelope, draining>>
  BY DEF Exit, agentVars, serverVars
<1>2. Viewed /\ Noted /\ \A b \in Instances : Metered(b) /\ Clean(b)
  BY SMTT(30) DEF Budgeted
<1>3. Viewed' /\ Noted'
  BY <1>1, <1>2 DEF Viewed, Noted, Recorded
<1>4. ASSUME NEW b \in Instances PROVE Metered(b)' /\ Clean(b)'
  <2>1. Metered(b) /\ Clean(b)
    BY <1>2
  <2>2. container'[b] = IF b = a THEN "exited" ELSE container[b]
    BY <1>1, <1>2, SMTT(30) DEF Noted
  <2> QED BY <1>1, <2>1, <2>2, Zenon DEF Metered, Clean
<1> QED BY <1>3, <1>4 DEF Budgeted

LEMMA DeleteBudgets ==
    ASSUME Budgeted, NEW a \in Instances, Delete(a)
    PROVE  Budgeted'
<1>1. /\ world[a].phase # "absent" /\ container' = [container EXCEPT ![a] = "absent"]
      /\ deleting' \in {a, None}
      /\ UNCHANGED <<world, meter, calls, known, envelope, draining>>
  BY DEF Delete, agentVars, serverVars
<1>2. Viewed /\ Noted /\ Metered(a)
  BY SMTT(30) DEF Budgeted
<1>3. Viewed' /\ Noted'
  BY <1>1, <1>2, SMTT(30) DEF Viewed, Noted, Recorded
<1>4. /\ container'[a] = "absent"
      /\ \A b \in Instances \ {a} : container'[b] = container[b] /\ deleting' # b
  BY <1>1, <1>2, QueueAssumption DEF Noted
<1>5. Metered(a)' /\ Clean(a)'
  BY <1>1, <1>2, <1>4, Zenon DEF Metered, Clean
<1> QED BY <1>1, <1>3, <1>4, <1>5, OneInstance, SMTT(30)

LEMMA ForgetBudgets ==
    ASSUME Budgeted, NEW a \in Instances, Forget(a)
    PROVE  Budgeted'
<1>1. /\ deleting = a /\ deleting' = None /\ known' = known \ {a}
      /\ meter' = [meter EXCEPT ![a] = None] /\ draining' = draining \ {a}
      /\ envelope' = envelope \ {a} /\ calls' = [calls EXCEPT ![a] = 0]
      /\ Observed(a, Unknown) /\ UNCHANGED container
  BY DEF Forget
<1>2. Viewed /\ Noted /\ Metered(a) /\ Budget \in Nat
  BY QueueAssumption DEF Budgeted
<1>3. Recorded(Unknown) /\ Unknown.phase \in Phases
  BY <1>2, RecordForms, ZenonT(30) DEF Phases
<1>4. Viewed' /\ \A b \in Instances \ {a} : world'[b] = world[b]
  BY <1>1, <1>2, <1>3, ObservedViews, SMTT(30)
<1>5. /\ Noted' /\ calls'[a] = 0 /\ meter'[a] = None /\ deleting' # a
      /\ \A b \in Instances \ {a} : /\ meter'[b] = meter[b] /\ calls'[b] = calls[b]
                                   /\ deleting' # b
  BY <1>1, <1>2, QueueAssumption, SMTT(30) DEF Noted
<1>6. Metered(a)'
  BY <1>1, <1>2, <1>5, SMTT(30) DEF Metered
<1>7. a \notin envelope' \cup draining' \cup known'
  BY <1>1, SMTT(30)
<1>8. Clean(a)'
  BY <1>5, <1>7 DEF Clean
<1> QED BY <1>1, <1>4, <1>5, <1>6, <1>8, OneInstance, Zenon

\* Only a running instance calls tools, and the server knows what runs.
LEMMA SpendBudgets ==
    ASSUME Budgeted, NEW a \in Instances, ToolCall(a) \/ Spend(a)
    PROVE  Budgeted'
<1>1. /\ container[a] = "running" /\ meter[a] # None /\ ~(meter[a] >= Budget)
      /\ meter' = [meter EXCEPT ![a] = @ + 1]
      /\ calls' \in {calls, [calls EXCEPT ![a] = @ + 1]}
      /\ UNCHANGED <<world, container, deleting, envelope, draining, known>>
  BY DEF ToolCall, Spend, Authenticated, Exhausted, serverVars
<1>2. Viewed /\ Noted /\ Metered(a) /\ Budget \in Nat
  BY QueueAssumption, SMTT(30) DEF Budgeted
<1>3. /\ meter[a] \in Nat /\ meter[a] < Budget /\ meter'[a] = meter[a] + 1
      /\ calls[a] \in Nat /\ calls'[a] \in {calls[a], calls[a] + 1}
      /\ \A b \in Instances \ {a} : meter'[b] = meter[b] /\ calls'[b] = calls[b]
  BY <1>1, <1>2, SMTT(30) DEF Noted
<1>4. Viewed'
  BY <1>1, <1>2, SMTT(30) DEF Viewed, Recorded
<1>5. Noted'
  <2>1. meter' \in [Instances -> Nat \cup {None}]
    BY <1>1, <1>2, <1>3, SMTT(30) DEF Noted
  <2>2. calls' \in [Instances -> Nat]
    BY <1>1, <1>2, SMTT(30) DEF Noted
  <2> QED BY <1>1, <1>2, <2>1, <2>2, SMTT(30) DEF Noted
<1>6. Metered(a)' /\ Clean(a)'
  <2>1. world[a].phase # "absent" /\ deleting # a /\ calls[a] <= meter[a]
    BY <1>1, <1>2, SMTT(30) DEF Metered
  <2>2. calls'[a] <= meter'[a] /\ meter'[a] <= Budget /\ calls'[a] <= Budget
    <3> DEFINE m == meter[a]
               c == calls[a]
    <3>1. m \in Nat /\ c \in Nat /\ Budget \in Nat /\ c <= m /\ m < Budget
      BY <1>2, <1>3, <2>1, Zenon
    <3>2. meter'[a] = m + 1 /\ (calls'[a] = c \/ calls'[a] = c + 1)
      BY <1>3, Zenon
    <3> HIDE DEF m, c
    <3> QED BY <3>1, <3>2
  <2> QED BY <1>1, <2>1, <2>2, SMTT(30) DEF Metered, Clean
<1>7. \A b \in Instances \ {a} : meter'[b] = meter[b] /\ calls'[b] = calls[b]
  BY <1>3, ZenonT(30)
<1>8. ASSUME NEW b \in Instances \ {a} PROVE Metered(b)' /\ Clean(b)'
  <2>1. Metered(b) /\ Clean(b)
    BY DEF Budgeted
  <2> QED BY <1>1, <1>7, <2>1 DEF Metered, Clean
<1> QED BY <1>4, <1>5, <1>6, <1>8, SMTT(30) DEF Budgeted

\* After a restart no meter is known, and no instance either.
LEMMA CrashBudgets ==
    ASSUME Budgeted, Crash
    PROVE  Budgeted'
<1>1. /\ deleting' = None /\ draining' = {} /\ envelope' = {} /\ known' = {}
      /\ meter' = [a \in Instances |-> None] /\ UNCHANGED <<world, calls, container>>
  BY SMTT(30) DEF Crash, serverVars
<1>2. Viewed' /\ Noted'
  BY <1>1, SMTT(30) DEF Budgeted, Viewed, Noted, Recorded
<1>3. ASSUME NEW b \in Instances PROVE Metered(b)' /\ Clean(b)'
  <2>1. Metered(b)
    BY DEF Budgeted
  <2> QED BY <1>1, <2>1, QueueAssumption DEF Metered, Clean
<1> QED BY <1>2, <1>3 DEF Budgeted

LEMMA NextBudgets ==
    ASSUME Budgeted, Next
    PROVE  Budgeted'
<1>1. ASSUME NEW t \in Tasks, Enqueue(t) \/ Lapse(t) PROVE Budgeted'
  BY <1>1, UnchangedBudgeted, Zenon DEF Enqueue, Lapse, agentVars, serverVars
<1>2. ASSUME NEW r \in Requests, Serve(r) PROVE Budgeted'
  <2>1. UNCHANGED <<world, container, meter, calls, deleting, envelope, draining, known>>
    BY <1>2 DEF Serve, Claim, Ack, Requeue, Answer, agentVars, serverVars
  <2> QED BY <2>1, UnchangedBudgeted, SMTT(30)
<1>3. ASSUME NEW a \in Instances, Calls(a) PROVE Budgeted'
  <2>1. UNCHANGED <<world, container, meter, calls, deleting, envelope, draining, known>>
    BY <1>3, Zenon DEF Calls, Call, agentVars, serverVars
  <2> QED BY <2>1, UnchangedBudgeted
<1>4. ASSUME NEW a \in Instances, Dispatch(a) PROVE Budgeted'
  BY <1>4, CreateBudgets, GrantBudgets, DrainBudgets, RunBudgets, DeleteBudgets,
     ForgetBudgets, SMTT(30) DEF Dispatch
<1>5. ASSUME NEW a \in Instances,
             ToolCall(a) \/ Spend(a) \/ ReportSpend(a) \/ Exit(a) \/ ReportExit(a)
      PROVE  Budgeted'
  BY <1>5, SpendBudgets, ReportBudgets, ExitBudgets
<1> QED BY <1>1, <1>2, <1>3, <1>4, <1>5, CrashBudgets DEF Next

LEMMA BudgetsInvariant == Spec => []Budgeted
<1>1. Init => Budgeted
  <2> SUFFICES ASSUME Init PROVE Budgeted
    OBVIOUS
  <2>1. /\ world = [a \in Instances |-> Unknown] /\ deleting = None
        /\ container = [a \in Instances |-> "absent"] /\ calls = [a \in Instances |-> 0]
        /\ meter = [a \in Instances |-> None]
        /\ envelope = {} /\ draining = {} /\ known = {}
    BY SMTT(30) DEF Init
  <2>2. Recorded(Unknown) /\ Unknown.phase = "absent"
    BY DEF Recorded, Unknown
  <2>3. Viewed
    BY <2>1, <2>2 DEF Viewed, Phases
  <2>4. Noted
    BY <2>1, SMTT(30) DEF Noted
  <2>5. \A a \in Instances : Metered(a) /\ Clean(a)
    BY <2>1, QueueAssumption DEF Metered, Clean
  <2> QED BY <2>3, <2>4, <2>5 DEF Budgeted
<1>2. Budgeted /\ [Next]_<<vars, load>> => Budgeted'
  <2>1. CASE Budgeted /\ Next
    BY <2>1, NextBudgets, SMTT(30)
  <2>2. CASE Budgeted /\ UNCHANGED <<vars, load>>
    BY <2>2, UnchangedBudgeted DEF vars
  <2> QED BY <2>1, <2>2
<1> QED BY <1>1, <1>2, PTL DEF Spec

\* "A ceiling of N means N calls are permitted and the next is refused"
\* (agent.go): the meters are lost in every restart, and still no instance is
\* allowed more tool calls than its budget before it is released.
THEOREM BudgetHolds == Spec => []CallsWithinBudget
<1>1. Budgeted => CallsWithinBudget
  BY SMTT(30) DEF Budgeted, Metered, CallsWithinBudget
<1> QED BY <1>1, BudgetsInvariant, PTL

\* A later allocation that reuses an identifier inherits nothing (router.go):
\* whatever answers are lost, an instance that neither the server nor the node
\* has any more left no envelope, drain, token or meter behind.
THEOREM ReleaseIsComplete == Spec => []NothingInherited
<1>1. Budgeted => NothingInherited
  BY DEF Budgeted, Clean, NothingInherited
<1> QED BY <1>1, BudgetsInvariant, PTL

-----------------------------------------------------------------------------
(* The attempts of a task, and its survival.                                *)

LOCAL INSTANCE WellFoundedInduction

LEMMA LeastOf == LeastMembers
<1> SUFFICES ASSUME NEW S \in SUBSET Nat, S # {}
             PROVE  \E x \in S : \A y \in S : x <= y
  BY DEF LeastMembers
<1> DEFINE less == OpToRel(<, Nat)
<1>1. IsWellFoundedOn(less, Nat)
  BY NatLessThanWellFounded, Zenon
<1> HIDE DEF less
<1>2. PICK x \in S : \A y \in S : ~(<<y, x>> \in less)
  BY <1>1, WFMin, Zenon
<1>3. ASSUME NEW y \in S PROVE x <= y
  <2>1. x \in Nat /\ y \in Nat /\ <<y, x>> \in Nat \X Nat
    OBVIOUS
  <2>2. y < x => <<y, x>> \in less
    BY <2>1 DEF OpToRel, less
  <2> QED BY <1>2, <2>1, <2>2, SMTT(30)
<1> QED BY <1>2, <1>3

\* "Attempts counts how many times this task has been claimed" (queue.go): over
\* any failed writes and restarts, and however producers retry, no task is given
\* to instances more than MaxAttempts times.
THEOREM AttemptsBounded == Spec => []AttemptsBound
<1>1. Init => Counting /\ Asking
  BY CountsInitially
<1>2. Counting /\ Asking /\ [Next]_<<vars, load>> => (Counting /\ Asking)'
  <2>1. CASE Next
    BY <2>1, NextCounts, LeastOf, SMTT(30)
  <2>2. CASE UNCHANGED <<vars, load>>
    BY <2>2 DEF vars, Counting, Asking, AttemptsBound
  <2> QED BY <2>1, <2>2
<1>3. Counting => AttemptsBound
  BY DEF Counting
<1> QED BY <1>1, <1>2, <1>3, PTL DEF Spec

\* The queue's file is the durable list of Delivery (queue.go): whatever writes
\* fail and whenever the daemon restarts, a stored task is dropped only after it
\* was handed out, no attempt is forgotten, no task overtakes another, and one
\* write may carry the changes of several that failed.  The identifiers of tasks
\* are not used again.
THEOREM TasksSurvive ==
    ASSUME ~Retry
    PROVE  Spec => ImplementsDelivery
<1> DEFINE Inv == Counting /\ Asking /\ Ordered
<1>1. Init => Inv /\ Durable!Init
  BY CountsInitially, OrderInitially, SMTT(30) DEF Durable!Init, Found
<1>2. Inv /\ [Next]_<<vars, load>> => Inv' /\ Durably
  <2>1. CASE Inv /\ Next
    BY <2>1, NextCounts, NextOrders, LeastOf, SMTT(30)
  <2>2. CASE Inv /\ UNCHANGED <<vars, load>>
    <3>1. UNCHANGED <<queue, file, given, producer, work, request>>
      BY <2>2 DEF vars
    <3>2. Counting' /\ Asking'
      BY <2>2, <3>1, Unwritten, SMTT(30) DEF Asking
    <3> QED BY <2>2, <3>1, <3>2, ElsewhereOrders, SMTT(30)
  <2> QED BY <2>1, <2>2
<1>3. Durably => [Durable!Next]_([i \in DOMAIN file |-> [id |-> file[i].id, attempts |-> file[i].attempts]])
  BY DEF Durably, Found
<1> HIDE DEF Inv
<1> QED BY <1>1, <1>2, <1>3, PTL DEF Spec, ImplementsDelivery, Durable!Spec

=============================================================================
