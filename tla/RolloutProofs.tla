--------------------------- MODULE RolloutProofs ---------------------------
(***************************************************************************)
(* What the agents, the engine and the governor guarantee for any number   *)
(* of nodes, replicas, images, decisions and faults, and for any durations *)
(* and limits: what an achieved goal and the availability floor say about  *)
(* what really serves, the budget of disruptions, the spread over failure  *)
(* domains, and the end of retrying.                                       *)
(***************************************************************************)
EXTENDS Rollout, TLAPS

\* What the proofs use of the naturals and of finite sets, a set being finite when a
\* sequence lists it.  The library's theorems that establish it are brought in at the
\* end of the module (Numbers and sets), where it is proved, and not before: every step
\* of a proof carries all that precedes it.
Listable(S) == \E seq \in Seq(S) : \A s \in S : \E n \in 1 .. Len(seq) : seq[n] = s
Tally(S) ==
    LET CS[T \in SUBSET S] == IF T = {} THEN 0 ELSE 1 + CS[T \ {CHOOSE x : x \in T}]
    IN  CS[S]

Arithmetic ==
    /\ \A S \in SUBSET Nat : S # {} => \E x \in S : \A y \in S : x <= y
    /\ Listable({}) /\ Tally({}) = 0
    /\ \A n \in Nat : Listable(1 .. n) /\ Tally(1 .. n) = n
    /\ \A n \in Nat : Listable(0 .. n - 1)
    /\ \A S : Listable(S) =>
          /\ Tally(S) \in Nat
          /\ \A T \in SUBSET S : Listable(T) /\ Tally(T) <= Tally(S)
          /\ \A x : Listable(S \cup {x}) /\ Listable(S \ {x})
          /\ \A x \in S : Tally(S \ {x}) = Tally(S) - 1
          /\ \A x : x \notin S => Tally(S \cup {x}) = Tally(S) + 1

\* That is what FiniteSets says of being finite and of the number of elements.
LEMMA Finite ==
    ASSUME NEW S
    PROVE  (IsFiniteSet(S) <=> Listable(S)) /\ Cardinality(S) = Tally(S)
<1>1. IsFiniteSet(S) <=> Listable(S)
  BY Zenon DEF IsFiniteSet, Listable
<1>2. Cardinality(S) = Tally(S)
  BY Zenon DEF Cardinality, Tally
<1> QED BY <1>1, <1>2, Zenon

\* A part of a finite set is finite and no larger.
LEMMA PartCounts ==
    ASSUME Arithmetic, NEW S, IsFiniteSet(S), NEW T \in SUBSET S
    PROVE  IsFiniteSet(T) /\ Cardinality(T) <= Cardinality(S)
BY Finite DEF Arithmetic

LEMMA CountIsNat ==
    ASSUME Arithmetic, NEW S, IsFiniteSet(S)
    PROVE  Cardinality(S) \in Nat
BY Finite DEF Arithmetic

LEMMA IntervalCounts ==
    ASSUME Arithmetic, NEW n \in Nat
    PROVE  IsFiniteSet(1 .. n) /\ Cardinality(1 .. n) = n /\ IsFiniteSet(0 .. n - 1)
BY Finite, Zenon DEF Arithmetic

LEMMA OneMore ==
    ASSUME Arithmetic, NEW S, IsFiniteSet(S), NEW x
    PROVE  /\ IsFiniteSet(S \cup {x})
           /\ Cardinality(S \cup {x}) = IF x \in S THEN Cardinality(S) ELSE Cardinality(S) + 1
<1>1. x \in S => S \cup {x} = S
  BY Zenon
<1>2. Listable(S \cup {x}) /\ (x \notin S => Tally(S \cup {x}) = Tally(S) + 1)
  BY Finite, Zenon DEF Arithmetic
<1> QED BY <1>1, <1>2, Finite, Zenon

LEMMA OneLess ==
    ASSUME Arithmetic, NEW S, IsFiniteSet(S), NEW x
    PROVE  /\ IsFiniteSet(S \ {x})
           /\ Cardinality(S \ {x}) = IF x \in S THEN Cardinality(S) - 1 ELSE Cardinality(S)
<1>1. x \notin S => S \ {x} = S
  BY Zenon
<1>2. Listable(S \ {x}) /\ (x \in S => Tally(S \ {x}) = Tally(S) - 1)
  BY Finite, Zenon DEF Arithmetic
<1> QED BY <1>1, <1>2, Finite, Zenon

\* The least of the members, as the code's scans find it.
LEMMA MinimumOf ==
    ASSUME Arithmetic, NEW S \in SUBSET Nat, S # {}
    PROVE  Min(S) \in S /\ \A y \in S : Min(S) <= y
<1>1. PICK x \in S : \A y \in S : x <= y
  BY Zenon DEF Arithmetic
<1> QED BY <1>1, Zenon DEF Min

\* A replica's record.
Shaped(r) ==
    /\ r = [phase |-> r.phase, node |-> r.node, image |-> r.image, ready |-> r.ready,
            failed |-> r.failed]
    /\ r.ready \in Nat

Sound ==
    /\ Arithmetic
    /\ case \in Cases
    /\ alloc = [s \in Slots |-> alloc[s]] /\ \A s \in Slots : Shaped(alloc[s])
    /\ lag \in [Slots -> Nat] /\ fails \in [Slots -> Nat]
    /\ backoff = [s \in Slots |-> backoff[s]]
    /\ \A s \in Slots : /\ backoff[s] = [failures |-> backoff[s].failures, left |-> backoff[s].left]
                        /\ backoff[s].failures \in 0 .. Attempts

Lesser(a, b) == Min({a, b})

LEMMA LesserIs ==
    ASSUME NEW a \in Int, NEW b \in Int
    PROVE  Lesser(a, b) \in {a, b} /\ Lesser(a, b) <= a /\ Lesser(a, b) <= b
<1>1. \E x \in {a, b} : \A y \in {a, b} : x <= y
  <2>1. CASE a <= b
    BY <2>1
  <2>2. CASE b <= a
    BY <2>2
  <2> QED BY <2>1, <2>2
<1>2. Lesser(a, b) \in {a, b} /\ \A y \in {a, b} : Lesser(a, b) <= y
  BY <1>1, Zenon DEF Min, Lesser
<1> QED BY <1>2, Zenon

-----------------------------------------------------------------------------
(* The records the steps leave.                                             *)

LEMMA AbsentForms == Shaped(Absent) /\ Absent.phase = "absent" /\ Absent.ready = 0
<1> DEFINE no == FALSE
<1>1. Absent = [phase |-> "absent", node |-> 0, image |-> None, ready |-> 0, failed |-> no]
  BY Zenon DEF Absent
<1> HIDE DEF no
<1> QED BY <1>1, Zenon DEF Shaped

LEMMA CreatedForms ==
    ASSUME NEW n, NEW q, q = Created(n)
    PROVE  Shaped(q) /\ q.phase = "created" /\ q.ready = 0 /\ q.node = n /\ q.image = eff
<1> DEFINE no == FALSE
<1>1. q = [phase |-> "created", node |-> n, image |-> eff, ready |-> 0, failed |-> no]
  BY Zenon DEF Created
<1> HIDE DEF no
<1> QED BY <1>1 DEF Shaped

\* The record with another phase, or another readiness.
Phased(r, p) == [r EXCEPT !.phase = p]
Halted(r) == [r EXCEPT !.phase = "stopped", !.ready = 0]
Failed(r) == [r EXCEPT !.phase = "stopped", !.ready = 0, !.failed = TRUE]
Begun(r) == [r EXCEPT !.phase = "running", !.ready = TTL]
Readied(r, x) == [r EXCEPT !.ready = x]

LEMMA RecordForms ==
    ASSUME NEW r, Shaped(r), NEW q
    PROVE  /\ \A p : q = Phased(r, p) =>
                /\ Shaped(q) /\ q.phase = p /\ q.ready = r.ready
                /\ q.node = r.node /\ q.image = r.image
           /\ q \in {Halted(r), Failed(r)} =>
                /\ Shaped(q) /\ q.phase = "stopped" /\ q.ready = 0
                /\ q.node = r.node /\ q.image = r.image
           /\ \A x \in Nat : q = Readied(r, x) =>
                /\ Shaped(q) /\ q.phase = r.phase /\ q.ready = x
                /\ q.node = r.node /\ q.image = r.image
           /\ q = Begun(r) =>
                /\ Shaped(q) /\ q.phase = "running" /\ q.node = r.node
<1>1. ASSUME NEW p, q = Phased(r, p)
      PROVE  /\ Shaped(q) /\ q.phase = p /\ q.ready = r.ready
             /\ q.node = r.node /\ q.image = r.image
  <2>1. q = [phase |-> p, node |-> r.node, image |-> r.image, ready |-> r.ready,
             failed |-> r.failed]
    BY <1>1, Zenon DEF Phased, Shaped
  <2> QED BY <2>1, Zenon DEF Shaped
<1>2. ASSUME q \in {Halted(r), Failed(r)}
      PROVE  /\ Shaped(q) /\ q.phase = "stopped" /\ q.ready = 0
             /\ q.node = r.node /\ q.image = r.image
  <2> DEFINE yes == TRUE
  <2>1. \/ q = [phase |-> "stopped", node |-> r.node, image |-> r.image, ready |-> 0,
                failed |-> r.failed]
        \/ q = [phase |-> "stopped", node |-> r.node, image |-> r.image, ready |-> 0,
                failed |-> yes]
    BY <1>2, Zenon DEF Halted, Failed, Shaped
  <2> HIDE DEF yes
  <2> QED BY <2>1 DEF Shaped
<1>3. ASSUME NEW x \in Nat, q = Readied(r, x)
      PROVE  /\ Shaped(q) /\ q.phase = r.phase /\ q.ready = x
             /\ q.node = r.node /\ q.image = r.image
  <2>1. q = [phase |-> r.phase, node |-> r.node, image |-> r.image, ready |-> x,
             failed |-> r.failed]
    BY <1>3, Zenon DEF Readied, Shaped
  <2> QED BY <2>1, Zenon DEF Shaped
<1>4. ASSUME q = Begun(r)
      PROVE  Shaped(q) /\ q.phase = "running" /\ q.node = r.node
  <2>1. q = [phase |-> "running", node |-> r.node, image |-> r.image, ready |-> TTL,
             failed |-> r.failed]
    BY <1>4, Zenon DEF Begun, Shaped
  <2>2. TTL \in Nat
    BY RolloutAssumption, Zenon
  <2> QED BY <2>1, <2>2, Zenon DEF Shaped
<1> QED BY <1>1, <1>2, <1>3, <1>4, Zenon

-----------------------------------------------------------------------------
(* The steps that change what is recorded of the replicas.                   *)

\* A replica that is measured, and one that is not.
Probed(s) ==
    /\ Shaped(alloc'[s]) /\ alloc'[s].phase = alloc[s].phase
    /\ alloc'[s].node = alloc[s].node /\ alloc'[s].image = alloc[s].image
    /\ alloc'[s].ready = (IF Up(s) THEN TTL ELSE 0)

LEMMA MeasureForms ==
    ASSUME Sound, NEW found, Measure(found)
    PROVE  /\ alloc' = [s \in Slots |-> alloc'[s]]
           /\ \A s \in Slots : alloc'[s] = alloc[s] \/ Probed(s)
           /\ backoff' = [s \in Slots |-> backoff'[s]] /\ fails' \in [Slots -> Nat]
           /\ \A s \in Slots :
                \/ backoff'[s] = backoff[s] /\ fails'[s] = fails[s]
                \/ backoff'[s] = [failures |-> 0, left |-> 0] /\ fails'[s] = 0
<1>1. /\ alloc' = [s \in Slots |-> IF s \in found THEN Readied(alloc[s], IF Up(s) THEN TTL ELSE 0)
                                   ELSE alloc[s]]
      /\ backoff' = [s \in Slots |-> IF s \in {t \in found : Up(t)}
                                     THEN [failures |-> 0, left |-> 0] ELSE backoff[s]]
      /\ fails' = [s \in Slots |-> IF s \in {t \in found : Up(t)} THEN 0 ELSE fails[s]]
  BY Zenon DEF Measure, Readied
<1>2. ASSUME NEW s \in Slots, s \in found PROVE Probed(s)
  <2> DEFINE x == IF Up(s) THEN TTL ELSE 0
  <2>1. alloc'[s] = Readied(alloc[s], x) /\ Shaped(alloc[s])
    BY <1>1, <1>2, Zenon DEF Sound
  <2>2. x \in Nat
    BY RolloutAssumption, Zenon
  <2>3. x = IF Up(s) THEN TTL ELSE 0
    BY Zenon
  <2> HIDE DEF x
  <2> QED BY <2>1, <2>2, <2>3, RecordForms DEF Probed
<1>3. \A s \in Slots : s \notin found => alloc'[s] = alloc[s]
  BY <1>1, Zenon
<1>4. /\ alloc' = [s \in Slots |-> alloc'[s]] /\ backoff' = [s \in Slots |-> backoff'[s]]
      /\ fails' \in [Slots -> Nat]
  BY <1>1, Zenon DEF Sound
<1>5. \A s \in Slots : \/ backoff'[s] = backoff[s] /\ fails'[s] = fails[s]
                       \/ backoff'[s] = [failures |-> 0, left |-> 0] /\ fails'[s] = 0
  BY <1>1, Zenon
<1> QED BY <1>2, <1>3, <1>4, <1>5, Zenon

LEMMA TickForms ==
    ASSUME Sound, Tick
    PROVE  /\ alloc' = [s \in Slots |-> alloc'[s]]
           /\ \A s \in Slots :
                /\ Shaped(alloc'[s]) /\ alloc'[s].phase = alloc[s].phase
                /\ alloc'[s].node = alloc[s].node /\ alloc'[s].image = alloc[s].image
                /\ alloc'[s].ready = (IF alloc[s].ready = 0 THEN 0 ELSE alloc[s].ready - 1)
           /\ lag' \in [Slots -> Nat]
           /\ \A s \in Slots : lag'[s] = 0 \/ (~Up(s) /\ lag'[s] <= lag[s] + 1)
           /\ \A s \in Slots : Up(s) => lag'[s] = 0
           /\ backoff' = [s \in Slots |-> backoff'[s]]
           /\ \A s \in Slots :
                /\ backoff'[s] = [failures |-> backoff'[s].failures, left |-> backoff'[s].left]
                /\ backoff'[s].failures = backoff[s].failures
<1>1. /\ alloc' = [s \in Slots |-> Readied(alloc[s], Aged(alloc[s].ready))]
      /\ backoff' = [s \in Slots |-> [backoff[s] EXCEPT !.left = IF @ = 0 THEN 0 ELSE @ - 1]]
      /\ lag' = [s \in Slots |-> IF Up(s) THEN 0 ELSE Lesser(lag[s] + 1, TTL)]
  BY Zenon DEF Tick, Readied, Lesser
<1>2. ASSUME NEW s \in Slots
      PROVE  /\ Shaped(alloc'[s]) /\ alloc'[s].phase = alloc[s].phase
             /\ alloc'[s].node = alloc[s].node /\ alloc'[s].image = alloc[s].image
             /\ alloc'[s].ready = (IF alloc[s].ready = 0 THEN 0 ELSE alloc[s].ready - 1)
  <2> DEFINE x == Aged(alloc[s].ready)
  <2>1. alloc'[s] = Readied(alloc[s], x) /\ Shaped(alloc[s])
    BY <1>1, Zenon DEF Sound
  <2>2. x \in Nat /\ x = IF alloc[s].ready = 0 THEN 0 ELSE alloc[s].ready - 1
    BY <2>1 DEF Aged, Shaped
  <2> HIDE DEF x
  <2> QED BY <2>1, <2>2, RecordForms
<1>3. ASSUME NEW s \in Slots
      PROVE  /\ lag'[s] \in Nat /\ (Up(s) => lag'[s] = 0)
             /\ lag'[s] = 0 \/ (~Up(s) /\ lag'[s] <= lag[s] + 1)
  <2>1. lag[s] + 1 \in Nat /\ TTL \in Nat
    BY RolloutAssumption DEF Sound
  <2>2. Lesser(lag[s] + 1, TTL) \in Nat /\ Lesser(lag[s] + 1, TTL) <= lag[s] + 1
    BY <2>1, LesserIs
  <2> QED BY <1>1, <2>2, Zenon
<1>4. ASSUME NEW s \in Slots
      PROVE  /\ backoff'[s] = [failures |-> backoff'[s].failures, left |-> backoff'[s].left]
             /\ backoff'[s].failures = backoff[s].failures
  <2> DEFINE x == IF backoff[s].left = 0 THEN 0 ELSE backoff[s].left - 1
  <2>1. backoff'[s] = [failures |-> backoff[s].failures, left |-> x]
    BY <1>1 DEF Sound
  <2> HIDE DEF x
  <2> QED BY <2>1
<1>5. /\ alloc' = [s \in Slots |-> alloc'[s]] /\ backoff' = [s \in Slots |-> backoff'[s]]
      /\ lag' \in [Slots -> Nat]
  BY <1>1, <1>3, Zenon
<1> QED BY <1>2, <1>3, <1>4, <1>5, Zenon

LEMMA FailForms ==
    ASSUME Sound, NEW s \in Slots, Fail(s)
    PROVE  /\ alloc' = [t \in Slots |-> alloc'[t]]
           /\ \A t \in Slots \ {s} : alloc'[t] = alloc[t] /\ backoff'[t] = backoff[t]
                                     /\ fails'[t] = fails[t]
           /\ Shaped(alloc'[s]) /\ alloc'[s].phase = "stopped" /\ alloc'[s].ready = 0
           /\ alloc'[s].node = alloc[s].node /\ alloc'[s].image = alloc[s].image
           /\ backoff' = [t \in Slots |-> backoff'[t]]
           /\ backoff'[s] = [failures |-> backoff'[s].failures, left |-> backoff'[s].left]
           /\ backoff'[s].failures \in {backoff[s].failures + 1, Attempts}
           /\ backoff'[s].failures \in 0 .. Attempts
           /\ fails' \in [Slots -> Nat] /\ fails'[s] = fails[s] + 1
<1> DEFINE count == Lesser(backoff[s].failures + 1, Attempts)
           x == BackoffFor(count)
<1>1. /\ alloc' = [alloc EXCEPT ![s] = Failed(alloc[s])]
      /\ backoff' = [backoff EXCEPT ![s] = [failures |-> count, left |-> x]]
      /\ fails' = [fails EXCEPT ![s] = fails[s] + 1]
  BY Zenon DEF Fail, Failed, RecordFailure, Lesser, Sound
<1>2. backoff[s].failures + 1 \in Nat /\ Attempts \in Nat
  BY RolloutAssumption DEF Sound
<1>3. count \in {backoff[s].failures + 1, Attempts} /\ count \in 0 .. Attempts
  BY <1>2, LesserIs
<1> HIDE DEF count, x
<1>4. backoff'[s] = [failures |-> count, left |-> x] /\ alloc'[s] = Failed(alloc[s])
  BY <1>1, Zenon DEF Sound
<1>5. /\ alloc' = [t \in Slots |-> alloc'[t]] /\ backoff' = [t \in Slots |-> backoff'[t]]
      /\ fails' \in [Slots -> Nat] /\ fails'[s] = fails[s] + 1
      /\ \A t \in Slots \ {s} : alloc'[t] = alloc[t] /\ backoff'[t] = backoff[t]
                               /\ fails'[t] = fails[t]
  <2> DEFINE w == [failures |-> count, left |-> x]
             q == Failed(alloc[s])
  <2>1. backoff' = [backoff EXCEPT ![s] = w] /\ alloc' = [alloc EXCEPT ![s] = q]
    BY <1>1, Zenon
  <2> HIDE DEF w, q
  <2>2. /\ alloc' = [t \in Slots |-> alloc'[t]]
        /\ \A t \in Slots \ {s} : alloc'[t] = alloc[t]
    BY <2>1, Zenon DEF Sound
  <2>3. /\ backoff' = [t \in Slots |-> backoff'[t]]
        /\ \A t \in Slots \ {s} : backoff'[t] = backoff[t]
    BY <2>1, Zenon DEF Sound
  <2>4. /\ fails' \in [Slots -> Nat] /\ fails'[s] = fails[s] + 1
        /\ \A t \in Slots \ {s} : fails'[t] = fails[t]
    BY <1>1 DEF Sound
  <2> QED BY <2>2, <2>3, <2>4, Zenon
<1>6. /\ Shaped(alloc'[s]) /\ alloc'[s].phase = "stopped" /\ alloc'[s].ready = 0
      /\ alloc'[s].node = alloc[s].node /\ alloc'[s].image = alloc[s].image
  <2>1. Shaped(alloc[s]) /\ alloc'[s] \in {Halted(alloc[s]), Failed(alloc[s])}
    BY <1>4, Zenon DEF Sound
  <2> QED BY <2>1, RecordForms
<1>7. /\ backoff'[s] = [failures |-> backoff'[s].failures, left |-> backoff'[s].left]
      /\ backoff'[s].failures = count
  BY <1>4
<1> QED BY <1>3, <1>5, <1>6, <1>7, Zenon

\* What an executed action of a kind leaves of its slot.
CreatedAt(act) ==
    /\ UNCHANGED disruptions /\ UNCHANGED dead /\ UNCHANGED fails
    /\ \A t \in Slots \ {act.slot} : lag'[t] = lag[t]
    /\ act.slot \in Slots =>
         LET q == alloc'[act.slot]
         IN  Shaped(q) /\ q.phase = "created" /\ q.ready = 0 /\ q.node = act.at
StartedAt(act) ==
    /\ UNCHANGED disruptions /\ UNCHANGED dead /\ UNCHANGED fails
    /\ \A t \in Slots \ {act.slot} : lag'[t] = lag[t]
    /\ act.slot \in Slots =>
         LET q == alloc'[act.slot]
             r == alloc[act.slot]
         IN  /\ Shaped(q) /\ q.phase = "running" /\ q.ready = r.ready
             /\ q.node = r.node /\ q.image = r.image
             /\ r.image \notin case.broken => lag'[act.slot] = 0
StoppedAt(act) ==
    /\ disruptions' = RecordDisruption(act.slot) /\ UNCHANGED lag
    /\ dead' = dead \ {act.slot} /\ fails' = [fails EXCEPT ![act.slot] = 0]
    /\ act.slot \in Slots =>
         LET q == alloc'[act.slot]
             r == alloc[act.slot]
         IN  Shaped(q) /\ q.phase = "stopped" /\ q.ready = 0 /\ q.node = r.node
DeletedAt(act) ==
    /\ disruptions' = RecordDisruption(act.slot) /\ UNCHANGED dead /\ UNCHANGED lag
    /\ fails' = [fails EXCEPT ![act.slot] = IF act.named THEN 0 ELSE @]
    /\ act.slot \in Slots => alloc'[act.slot] = Absent

LEMMA ProjectedForms ==
    ASSUME Sound, NEW act, Projected(act),
           act.kind \in {"cordon", "create", "start", "stop", "delete"}
    PROVE  /\ alloc' = [t \in Slots |-> alloc'[t]]
           /\ \A t \in Slots \ {act.slot} : alloc'[t] = alloc[t]
           /\ lag' \in [Slots -> Nat] /\ fails' \in [Slots -> Nat]
           /\ act.kind = "cordon" => /\ UNCHANGED alloc /\ UNCHANGED disruptions
                                     /\ UNCHANGED dead /\ UNCHANGED lag /\ UNCHANGED fails
           /\ act.kind = "create" => CreatedAt(act)
           /\ act.kind = "start" => StartedAt(act)
           /\ act.kind = "stop" => StoppedAt(act)
           /\ act.kind = "delete" => DeletedAt(act)
<1> DEFINE s == act.slot
<1>0. TTL \in Nat /\ \A t \in Slots : Shaped(alloc[t])
  BY RolloutAssumption, Zenon DEF Sound
<1>1. CASE act.kind = "cordon"
  <2>1. UNCHANGED alloc /\ UNCHANGED disruptions /\ UNCHANGED dead /\ UNCHANGED lag /\ UNCHANGED fails
    BY <1>1, Zenon DEF Projected
  <2> QED BY <1>1, <2>1, Zenon DEF Sound
<1>2. CASE act.kind = "create"
  <2>1. /\ alloc' = [alloc EXCEPT ![s] = Created(act.at)] /\ lag' = [lag EXCEPT ![s] = TTL]
        /\ UNCHANGED disruptions /\ UNCHANGED dead /\ UNCHANGED fails
    BY <1>2, Zenon DEF Projected
  <2>2. /\ alloc' = [t \in Slots |-> alloc'[t]] /\ lag' \in [Slots -> Nat]
        /\ fails' \in [Slots -> Nat]
        /\ \A t \in Slots \ {s} : alloc'[t] = alloc[t] /\ lag'[t] = lag[t]
        /\ s \in Slots => alloc'[s] = Created(act.at)
    BY <1>0, <2>1, Zenon DEF Sound
  <2>3. CreatedAt(act)
    BY <2>1, <2>2, CreatedForms DEF CreatedAt
  <2> QED BY <1>2, <2>2, <2>3, Zenon
<1>3. CASE act.kind = "start"
  <2> DEFINE x == IF alloc[s].image \in case.broken THEN TTL ELSE 0
  <2>1. /\ alloc' = [alloc EXCEPT ![s] = Phased(alloc[s], "running")]
        /\ lag' = [lag EXCEPT ![s] = x]
        /\ UNCHANGED disruptions /\ UNCHANGED dead /\ UNCHANGED fails
    BY <1>3, Zenon DEF Projected, Phased
  <2>2. x \in Nat /\ (alloc[s].image \notin case.broken => x = 0)
    BY <1>0, Zenon
  <2> HIDE DEF x
  <2>3. /\ alloc' = [t \in Slots |-> alloc'[t]] /\ lag' \in [Slots -> Nat]
        /\ fails' \in [Slots -> Nat]
        /\ \A t \in Slots \ {s} : alloc'[t] = alloc[t] /\ lag'[t] = lag[t]
        /\ s \in Slots => alloc'[s] = Phased(alloc[s], "running") /\ lag'[s] = x
    BY <1>0, <2>1, <2>2, Zenon DEF Sound
  <2>4. s \in Slots =>
          /\ Shaped(alloc'[s]) /\ alloc'[s].phase = "running"
          /\ alloc'[s].ready = alloc[s].ready
          /\ alloc'[s].node = alloc[s].node /\ alloc'[s].image = alloc[s].image
    BY <1>0, <2>3, RecordForms
  <2>5. StartedAt(act)
    BY <2>1, <2>2, <2>3, <2>4, Zenon DEF StartedAt
  <2> QED BY <1>3, <2>3, <2>5, Zenon
<1>4. CASE act.kind = "stop"
  <2>1. /\ alloc' = [alloc EXCEPT ![s] = Halted(alloc[s])]
        /\ disruptions' = RecordDisruption(s) /\ fails' = [fails EXCEPT ![s] = 0]
        /\ dead' = dead \ {s} /\ UNCHANGED lag
    BY <1>4, Zenon DEF Projected, Halted
  <2>2. /\ alloc' = [t \in Slots |-> alloc'[t]] /\ lag' \in [Slots -> Nat]
        /\ fails' \in [Slots -> Nat]
        /\ \A t \in Slots \ {s} : alloc'[t] = alloc[t]
        /\ s \in Slots => alloc'[s] = Halted(alloc[s])
    BY <2>1, Zenon DEF Sound
  <2>3. s \in Slots => /\ Shaped(alloc'[s]) /\ alloc'[s].phase = "stopped"
                       /\ alloc'[s].ready = 0 /\ alloc'[s].node = alloc[s].node
    <3>1. s \in Slots => alloc'[s] \in {Halted(alloc[s]), Failed(alloc[s])}
      BY <2>2, Zenon
    <3> QED BY <1>0, <3>1, RecordForms
  <2>4. StoppedAt(act)
    BY <2>1, <2>3, Zenon DEF StoppedAt
  <2> QED BY <1>4, <2>2, <2>4, Zenon
<1>5. CASE act.kind = "delete"
  <2> DEFINE x == IF act.named THEN 0 ELSE fails[s]
  <2>1. /\ alloc' = [alloc EXCEPT ![s] = Absent]
        /\ disruptions' = RecordDisruption(s)
        /\ fails' = [fails EXCEPT ![s] = x]
        /\ fails' = [fails EXCEPT ![s] = IF act.named THEN 0 ELSE @]
        /\ UNCHANGED dead /\ UNCHANGED lag
    BY <1>5, Zenon DEF Projected
  <2>2. s \in Slots => x \in Nat
    BY Zenon DEF Sound
  <2> HIDE DEF x
  <2>3. /\ alloc' = [t \in Slots |-> alloc'[t]] /\ lag' \in [Slots -> Nat]
        /\ fails' \in [Slots -> Nat]
        /\ \A t \in Slots \ {s} : alloc'[t] = alloc[t]
        /\ s \in Slots => alloc'[s] = Absent
    <3>0. /\ fails \in [Slots -> Nat] /\ fails' = [fails EXCEPT ![s] = x]
          /\ lag \in [Slots -> Nat] /\ lag' = lag
      BY <2>1, Zenon DEF Sound
    <3>1. fails' \in [Slots -> Nat] /\ lag' \in [Slots -> Nat]
      BY <2>2, <3>0, Zenon
    <3>2. alloc' = [t \in Slots |-> alloc'[t]]
      BY <2>1, Zenon DEF Sound
    <3>3. /\ \A t \in Slots \ {s} : alloc'[t] = alloc[t]
          /\ s \in Slots => alloc'[s] = Absent
      BY <2>1, Zenon DEF Sound
    <3> QED BY <3>1, <3>2, <3>3, Zenon
  <2>4. DeletedAt(act)
    BY <2>1, <2>3, Zenon DEF DeletedAt
  <2> QED BY <1>5, <2>3, <2>4, Zenon
<1> QED BY <1>1, <1>2, <1>3, <1>4, <1>5, Zenon

-----------------------------------------------------------------------------
(* What the agents propose.                                                  *)

LEMMA SlotsFinite ==
    ASSUME Arithmetic, case \in Cases
    PROVE  Slots \in SUBSET Nat /\ IsFiniteSet(Slots) /\ Floor \in Nat
<1>1. case.replicas \in Nat \ {0}
  BY RolloutAssumption, Zenon
<1>2. IsFiniteSet(0 .. case.replicas - 1)
  BY <1>1, IntervalCounts, Zenon
<1>3. Slots \in SUBSET Nat
  BY <1>1 DEF Slots
<1>4. Floor \in Nat
  BY <1>1 DEF Floor
<1> QED BY <1>2, <1>3, <1>4, Zenon DEF Slots

LEMMA ActForms ==
    ASSUME NEW k, NEW t, NEW n, NEW b, NEW a, a = Act(k, t, n, b)
    PROVE  a.kind = k /\ a.slot = t /\ a.at = n /\ a.named = b
BY Zenon DEF Act

Adding(p) ==
    (\E S : p \in Seq(S)) /\ \A i \in 1 .. Len(p) : p[i].kind \in {"create", "start"}

LEMMA PlacementForms ==
    ASSUME Sound
    PROVE  Adding(PlacementPlan)
<1> Arithmetic /\ case \in Cases
  BY Zenon DEF Sound
<1> DEFINE missing == Slots \ Filled
           batch == {s \in missing : Cardinality({t \in missing : t < s}) < Batch}
           Beside(at, s) == [t \in Slots |-> IF t \in batch /\ t < s /\ at[t] # 0
                                            THEN Created(at[t]) ELSE alloc[t]]
           place == CHOOSE at \in [batch -> Nodes \cup {0}] :
                       \A s \in batch : at[s] = SelectNode(Beside(at, s))
           Nth(k) == CHOOSE s \in batch : Cardinality({t \in batch : t < s}) = k - 1
           Step(i) == LET s == Nth((i + 1) \div 2)
                      IN  Act(IF i % 2 = 1 THEN "create" ELSE "start", s, place[s], TRUE)
           n == 2 * Cardinality(batch)
           p == [i \in 1 .. n |-> Step(i)]
<1>1. PlacementPlan \in {<<>>, p}
  BY Zenon DEF PlacementPlan
<1>2. n \in Nat
  <2>1. IsFiniteSet(batch)
    BY SlotsFinite, PartCounts, Zenon DEF Sound
  <2> HIDE DEF batch
  <2>2. Cardinality(batch) \in Nat
    BY <2>1, CountIsNat, Zenon
  <2> QED BY <2>2
<1>3. ASSUME NEW i PROVE Step(i).kind \in {"create", "start"}
  <2> DEFINE k == IF i % 2 = 1 THEN "create" ELSE "start"
             t == Nth((i + 1) \div 2)
             m == place[t]
             yes == TRUE
  <2>1. Step(i) = Act(k, t, m, yes) /\ k \in {"create", "start"}
    BY Zenon
  <2> HIDE DEF k, t, m, yes, Step
  <2> QED BY <2>1, ActForms
<1> HIDE DEF n, Step
<1>4. p \in Seq({Step(i) : i \in 1 .. n}) /\ Len(p) = n
  BY <1>2
<1>5. Adding(p)
  BY <1>3, <1>4, Zenon DEF Adding
<1>6. <<>> \in Seq({}) /\ Len(<<>>) = 0
  OBVIOUS
<1>7. Adding(<<>>)
  BY <1>6 DEF Adding
<1> HIDE DEF p
<1> QED BY <1>1, <1>5, <1>7, Zenon

\* A plan that removes the replica of a slot, by itself or after a stop.
Retiring(p, b) ==
    \E s \in Slots :
        /\ alloc[s].phase = "stopped" /\ p = <<Act("delete", s, alloc[s].node, b)>>
        /\ ~b => backoff[s].failures < Attempts
Replacing(p, b) ==
    \E s \in Slots :
        /\ p = StopAndDelete(s, b)
        /\ ~b => node[alloc[s].node].cordoned
        /\ b => Serving - (IF alloc[s].ready > 0 THEN 1 ELSE 0) >= Floor

LEMMA ProposalForms ==
    ASSUME Sound, agent \in 1 .. Len(Agents)
    PROVE  \/ Adding(Proposal)
           \/ \E n : Proposal = <<Act("cordon", 0, n, FALSE)>>
           \/ \E b \in BOOLEAN : Retiring(Proposal, b) \/ Replacing(Proposal, b)
<1> Arithmetic /\ case \in Cases
  BY Zenon DEF Sound
<1>0. Slots \in SUBSET Nat /\ Adding(<<>>)
  <2>1. <<>> \in Seq({}) /\ Len(<<>>) = 0
    OBVIOUS
  <2> QED BY <2>1, SlotsFinite DEF Sound, Adding
<1>1. CASE Proposal = RemediationPlan
  <2>1. CASE RemediationPlan = <<Act("cordon", 0, Min(FailedHolding), FALSE)>>
    BY <1>1, <2>1, Zenon
  <2>2. CASE /\ Retirable # {}
             /\ RemediationPlan = <<Act("delete", Min(Retirable), alloc[Min(Retirable)].node, FALSE)>>
    <3>1. Retirable \in SUBSET Nat
      BY <1>0, Zenon DEF Retirable
    <3>2. Min(Retirable) \in Retirable
      BY <2>2, <3>1, MinimumOf, Zenon
    <3>3. Retiring(Proposal, FALSE)
      BY <1>1, <2>2, <3>2, Zenon DEF Retirable, Retiring
    <3> QED BY <3>3, Zenon
  <2>3. CASE Evacuable # {} /\ RemediationPlan = StopAndDelete(Min(Evacuable), FALSE)
    <3>1. Evacuable \in SUBSET Nat
      BY <1>0, Zenon DEF Evacuable
    <3>2. Min(Evacuable) \in Evacuable
      BY <2>3, <3>1, MinimumOf, Zenon
    <3>3. Replacing(Proposal, FALSE)
      BY <1>1, <2>3, <3>2, Zenon DEF Evacuable, Replacing
    <3> QED BY <3>3, Zenon
  <2>4. CASE RemediationPlan = <<>>
    BY <1>0, <1>1, <2>4, Zenon
  <2> QED BY <2>1, <2>2, <2>3, <2>4, Zenon DEF RemediationPlan
<1>2. CASE Proposal = RolloutPlan
  <2> DEFINE gone == {s \in Drifted : alloc[s].phase = "stopped"}
             s == Min(IF gone # {} THEN gone ELSE Drifted)
             cost == IF alloc[s].ready > 0 THEN 1 ELSE 0
  <2>1. RolloutPlan = IF Drifted = {} THEN <<>>
                      ELSE IF gone # {} THEN <<Act("delete", s, alloc[s].node, TRUE)>>
                      ELSE IF Serving - cost < Floor THEN <<>>
                      ELSE StopAndDelete(s, TRUE)
    BY Zenon DEF RolloutPlan
  <2>2. gone \in SUBSET Nat /\ Drifted \in SUBSET Nat /\ Drifted \subseteq Slots
    BY <1>0, Zenon DEF Drifted
  <2>3. CASE gone # {}
    <3>1. s \in gone /\ Drifted # {}
      BY <2>2, <2>3, MinimumOf, Zenon
    <3>2. s \in Slots /\ alloc[s].phase = "stopped"
      BY <2>2, <3>1, Zenon
    <3>3. Proposal = <<Act("delete", s, alloc[s].node, TRUE)>>
      BY <1>2, <2>1, <2>3, <3>1, Zenon
    <3> HIDE DEF s
    <3>4. Retiring(Proposal, TRUE)
      BY <3>2, <3>3, Zenon DEF Retiring
    <3> QED BY <3>4, Zenon
  <2>4. CASE gone = {} /\ Drifted # {} /\ ~(Serving - cost < Floor)
    <3>1. s \in Slots
      BY <2>2, <2>4, MinimumOf, Zenon
    <3>2. Proposal = StopAndDelete(s, TRUE)
      BY <1>2, <2>1, <2>4, Zenon
    <3>3. Serving - cost >= Floor
      <4>1. Serving \in Nat
        <5>1. {t \in Slots : alloc[t].ready > 0} \in SUBSET Slots
          BY Zenon
        <5> QED BY <5>1, SlotsFinite, PartCounts, CountIsNat, Zenon DEF Serving, Sound
      <4>2. Floor \in Int
        BY SlotsFinite DEF Sound
      <4>3. cost \in Int
        OBVIOUS
      <4> HIDE DEF cost
      <4> QED BY <2>4, <4>1, <4>2, <4>3
    <3> HIDE DEF s
    <3>4. Replacing(Proposal, TRUE)
      BY <3>1, <3>2, <3>3, Zenon DEF Replacing
    <3> QED BY <3>4, Zenon
  <2>5. CASE RolloutPlan = <<>>
    BY <1>0, <1>2, <2>5, Zenon
  <2> QED BY <2>1, <2>3, <2>4, <2>5, Zenon
<1>3. CASE Proposal = PlacementPlan
  BY <1>3, PlacementForms, Zenon
<1>4. Agents[agent] \in {"remediation", "rollout", "placement"}
  <2>1. agent \in 1 .. 3
    BY Zenon DEF Agents
  <2> QED BY <2>1 DEF Agents
<1>5. Proposal \in {RemediationPlan, RolloutPlan, PlacementPlan}
  BY <1>4, Zenon DEF Proposal
<1> QED BY <1>1, <1>2, <1>3, <1>5, Zenon

-----------------------------------------------------------------------------
(* The steps.                                                               *)

Kinds == {"cordon", "create", "start", "stop", "delete"}

\* The plan consists of actions the executor knows.
Kinded ==
    /\ agent \in 1 .. Len(Agents) /\ \E S : plan \in Seq(S)
    /\ \A i \in 1 .. Len(plan) : plan[i].kind \in Kinds

LEMMA ProposalKinds ==
    ASSUME Sound, agent \in 1 .. Len(Agents), NEW p, p = Proposal
    PROVE  (\E S : p \in Seq(S)) /\ \A i \in 1 .. Len(p) : p[i].kind \in Kinds
<1>1. CASE Adding(p)
  BY <1>1, Zenon DEF Adding, Kinds
<1>2. ASSUME NEW n, p = <<Act("cordon", 0, n, FALSE)>>
      PROVE  (\E S : p \in Seq(S)) /\ \A i \in 1 .. Len(p) : p[i].kind \in Kinds
  <2> DEFINE no == FALSE
             a == Act("cordon", 0, n, no)
  <2>1. p = <<a>>
    BY <1>2, Zenon
  <2> HIDE DEF no
  <2>2. a.kind = "cordon"
    BY ActForms
  <2> HIDE DEF a
  <2>3. p \in Seq({a}) /\ Len(p) = 1 /\ p[1] = a
    BY <2>1
  <2> QED BY <2>2, <2>3 DEF Kinds
<1>3. ASSUME NEW b \in BOOLEAN, Retiring(p, b)
      PROVE  (\E S : p \in Seq(S)) /\ \A i \in 1 .. Len(p) : p[i].kind \in Kinds
  <2>1. PICK s \in Slots : p = <<Act("delete", s, alloc[s].node, b)>>
    BY <1>3, Zenon DEF Retiring
  <2> DEFINE a == Act("delete", s, alloc[s].node, b)
  <2>2. a.kind = "delete"
    BY ActForms
  <2>3. p = <<a>>
    BY <2>1, Zenon
  <2> HIDE DEF a
  <2>4. p \in Seq({a}) /\ Len(p) = 1 /\ p[1] = a
    BY <2>3
  <2> QED BY <2>2, <2>4 DEF Kinds
<1>4. ASSUME NEW b \in BOOLEAN, Replacing(p, b)
      PROVE  (\E S : p \in Seq(S)) /\ \A i \in 1 .. Len(p) : p[i].kind \in Kinds
  <2>1. PICK s \in Slots : p = StopAndDelete(s, b)
    BY <1>4, Zenon DEF Replacing
  <2> DEFINE a == Act("stop", s, alloc[s].node, b)
             c == Act("delete", s, alloc[s].node, b)
  <2>2. a.kind = "stop" /\ c.kind = "delete"
    BY ActForms
  <2>3. p = <<a, c>>
    BY <2>1, Zenon DEF StopAndDelete
  <2> HIDE DEF a, c
  <2>4. p \in Seq({a, c}) /\ Len(p) = 2 /\ p[1] = a /\ p[2] = c
    BY <2>3
  <2>5. \A i \in 1 .. Len(p) : i = 1 \/ i = 2
    BY <2>4
  <2> QED BY <2>2, <2>4, <2>5, Zenon DEF Kinds
<1> QED BY <1>1, <1>2, <1>3, <1>4, ProposalForms, Zenon

\* An action that was executed.
Delivered ==
    /\ plan # <<>> /\ Projected(Head(plan)) /\ plan' = Tail(plan)
    /\ UNCHANGED backoff /\ UNCHANGED agent

LEMMA Leaves ==
    ASSUME NEW r, Return(r)
    PROVE  plan' = <<>> /\ agent' \in 1 .. Len(Agents)
BY DEF Return, Agents

LEMMA MovesOn ==
    ASSUME NEW m, Advance(m), agent \in 1 .. Len(Agents)
    PROVE  plan' = <<>> /\ agent' \in 1 .. Len(Agents)
<1>1. Len(Agents) = 3
  BY Zenon DEF Agents
<1>2. CASE agent < Len(Agents)
  BY <1>1, <1>2 DEF Advance
<1>3. CASE ~(agent < Len(Agents)) /\ pc' = "idle"
  BY <1>1, <1>3, Leaves, Zenon DEF Advance, Return
<1> QED BY <1>1, <1>2, <1>3, Leaves DEF Advance, Return

\* What became of the plan.
LEMMA PlanMoves ==
    ASSUME Kinded, Next
    PROVE  /\ case' = case /\ agent' \in 1 .. Len(Agents)
           /\ \/ plan' = <<>>
              \/ UNCHANGED plan
              \/ Delivered
              \/ plan' = Proposal /\ Turn /\ Authorized(plan') /\ pc' = "execute"
<1>0. agent \in 1 .. Len(Agents)
  BY Zenon DEF Kinded
<1>1. CASE StartRound
  <2>1. CASE Return("achieved")
    BY <1>1, <2>1, Leaves, Zenon DEF StartRound
  <2>2. CASE UNCHANGED <<agent, plan>>
    BY <1>0, <1>1, <2>2, Zenon DEF StartRound
  <2> QED BY <1>1, <2>1, <2>2, Zenon DEF StartRound
<1>2. CASE Turn
  <2>1. case' = case
    BY <1>2, Zenon DEF Turn
  <2>2. CASE Return("rollback")
    BY <2>1, <2>2, Leaves, Zenon
  <2>3. CASE Advance(progress)
    BY <1>0, <2>1, <2>3, MovesOn, Zenon
  <2>4. CASE plan' = Proposal /\ Authorized(Proposal) /\ pc' = "execute" /\ UNCHANGED agent
    BY <1>0, <1>2, <2>1, <2>4, Zenon
  <2> QED BY <1>2, <2>2, <2>3, <2>4, Zenon DEF Turn
<1>3. CASE Execute
  <2>1. case' = case
    BY <1>3, Zenon DEF Execute
  <2>2. CASE Return("error")
    BY <2>1, <2>2, Leaves, Zenon
  <2>3. CASE plan # <<>> /\ Projected(Head(plan)) /\ plan' = Tail(plan) /\ UNCHANGED agent
    BY <1>0, <1>3, <2>1, <2>3, Zenon DEF Execute, Delivered
  <2> QED BY <1>3, <2>2, <2>3, Zenon DEF Execute
<1>4. CASE Verify
  <2>1. case' = case
    BY <1>4, Zenon DEF Verify
  <2>2. Return("error") \/ Advance(TRUE)
    BY <1>4, Zenon DEF Verify
  <2> QED BY <1>0, <2>1, <2>2, Leaves, MovesOn, Zenon
<1>5. CASE Begin \/ Tick \/ (\E s \in Slots : Fail(s) \/ Die(s))
           \/ (\E n \in Nodes : Disconnect(n) \/ Reconnect(n) \/ \E c \in BOOLEAN : SetCordon(n, c))
           \/ (\E image \in Images : Submit(image)) \/ Approve \/ Revoke
  <2>1. case' = case /\ UNCHANGED plan /\ UNCHANGED agent
    BY <1>5, Zenon DEF Begin, Tick, Fail, Die, Disconnect, Reconnect, SetCordon, Submit, Approve,
                Revoke, Decide, engine
  <2> QED BY <1>0, <2>1, Zenon
<1> QED BY <1>1, <1>2, <1>3, <1>4, <1>5, Zenon DEF Next, Engine

\* The rest of the plan.
LEMMA RestForms ==
    ASSUME Kinded, Delivered
    PROVE  /\ \E S : plan' \in Seq(S)
           /\ Len(plan) \in Nat \ {0} /\ Len(plan') = Len(plan) - 1
           /\ \A i \in 1 .. Len(plan') : plan'[i] = plan[i + 1] /\ i + 1 \in 1 .. Len(plan)
           /\ Head(plan) = plan[1] /\ 1 \in 1 .. Len(plan) /\ Head(plan).kind \in Kinds
<1>1. PICK S : plan \in Seq(S)
  BY Zenon DEF Kinded
<1>2. plan # <<>> /\ plan' = Tail(plan)
  BY Zenon DEF Delivered
<1>3. Len(plan) \in Nat \ {0}
  BY <1>1, <1>2
<1> DEFINE rest == Tail(plan)
<1>4. /\ rest \in Seq(S) /\ Len(rest) = Len(plan) - 1
      /\ \A i \in 1 .. Len(rest) : rest[i] = plan[i + 1]
  BY <1>1, <1>2, <1>3
<1>5. plan' = rest
  BY <1>2, Zenon
<1>6. Head(plan) = plan[1] /\ 1 \in 1 .. Len(plan)
  BY <1>1, <1>2, <1>3
<1> HIDE DEF rest
<1>7. \A i \in 1 .. Len(rest) : i + 1 \in 1 .. Len(plan)
  BY <1>3, <1>4
<1> QED BY <1>3, <1>4, <1>5, <1>6, <1>7, Zenon DEF Kinded

LEMMA NextKinded ==
    ASSUME Sound, Kinded, Next
    PROVE  Kinded'
<1>0. agent' \in 1 .. Len(Agents)
  BY PlanMoves, Zenon
<1>1. CASE plan' = <<>>
  <2>1. plan' \in Seq({}) /\ Len(plan') = 0
    BY <1>1
  <2> QED BY <1>0, <2>1 DEF Kinded, Agents
<1>2. CASE UNCHANGED plan
  BY <1>0, <1>2, Zenon DEF Kinded, Agents
<1>3. CASE Delivered
  BY <1>0, <1>3, RestForms, Zenon DEF Kinded, Agents
<1>4. CASE plan' = Proposal
  <2>1. (\E S : plan' \in Seq(S)) /\ \A i \in 1 .. Len(plan') : plan'[i].kind \in Kinds
    BY <1>4, ProposalKinds, Zenon DEF Kinded
  <2> QED BY <1>0, <2>1, Zenon DEF Kinded, Agents
<1> QED BY <1>1, <1>2, <1>3, <1>4, PlanMoves, Zenon

\* What became of the records.
LEMMA RecordsMove ==
    ASSUME Next
    PROVE  \/ (\E found : Measure(found)) /\ UNCHANGED <<lag, disruptions, dead>>
           \/ Tick
           \/ \E s \in Slots : Fail(s)
           \/ Delivered
           \/ UNCHANGED <<alloc, backoff, lag, fails, disruptions>> /\ dead \subseteq dead'
<1>1. CASE StartRound
  BY <1>1, Zenon DEF StartRound
<1>2. CASE Verify
  BY <1>2, Zenon DEF Verify
<1>3. CASE Execute
  BY <1>3, Zenon DEF Execute, Delivered
<1>4. CASE Turn
  BY <1>4, Zenon DEF Turn, world, reality
<1>5. CASE Begin \/ (\E s \in Slots : Die(s))
           \/ (\E n \in Nodes : Disconnect(n) \/ Reconnect(n) \/ \E c \in BOOLEAN : SetCordon(n, c))
           \/ (\E image \in Images : Submit(image)) \/ Approve \/ Revoke
  BY <1>5, Zenon DEF Begin, Die, Disconnect, Reconnect, SetCordon, Submit, Approve, Revoke, Decide,
              world, reality
<1> QED BY <1>1, <1>2, <1>3, <1>4, <1>5, Zenon DEF Next, Engine

LEMMA NextSound ==
    ASSUME Sound, Kinded, Next
    PROVE  Sound'
<1>0. case' = case /\ Slots' = Slots
  BY PlanMoves, Zenon DEF Slots
<1> DEFINE Allocs == /\ alloc' = [s \in Slots |-> alloc'[s]] /\ \A s \in Slots : Shaped(alloc'[s])
           Backoffs ==
              /\ backoff' = [s \in Slots |-> backoff'[s]]
              /\ \A s \in Slots :
                   /\ backoff'[s] = [failures |-> backoff'[s].failures, left |-> backoff'[s].left]
                   /\ backoff'[s].failures \in 0 .. Attempts
           Counts == lag' \in [Slots -> Nat] /\ fails' \in [Slots -> Nat]
<1>1. ASSUME NEW found, Measure(found), UNCHANGED <<lag, disruptions, dead>>
      PROVE  Allocs /\ Backoffs /\ Counts
  <2>1. Allocs
    BY <1>1, MeasureForms, Zenon DEF Sound, Probed
  <2>2. ASSUME NEW s \in Slots
        PROVE  /\ backoff'[s] = [failures |-> backoff'[s].failures, left |-> backoff'[s].left]
               /\ backoff'[s].failures \in 0 .. Attempts
    <3>1. CASE backoff'[s] = [failures |-> 0, left |-> 0]
      BY <3>1, RolloutAssumption
    <3>2. CASE backoff'[s] = backoff[s]
      BY <3>2, Zenon DEF Sound
    <3> QED BY <1>1, <3>1, <3>2, MeasureForms, Zenon
  <2>3. Backoffs
    BY <1>1, <2>2, MeasureForms, Zenon
  <2>4. Counts
    BY <1>1, MeasureForms, Zenon DEF Sound
  <2> QED BY <2>1, <2>3, <2>4, Zenon
<1>2. CASE Tick
  <2>1. Allocs /\ Backoffs /\ lag' \in [Slots -> Nat]
    BY <1>2, TickForms, Zenon DEF Sound
  <2>2. fails' = fails
    BY <1>2, Zenon DEF Tick
  <2> QED BY <1>0, <2>1, <2>2, Zenon DEF Sound, Shaped
<1>3. ASSUME NEW s \in Slots, Fail(s) PROVE Allocs /\ Backoffs /\ Counts
  <2>1. lag' = lag
    BY <1>3, Zenon DEF Fail
  <2>2. \A t \in Slots : t # s => t \in Slots \ {s}
    BY Zenon
  <2>3. Allocs /\ fails' \in [Slots -> Nat]
    BY <1>3, <2>2, FailForms, Zenon DEF Sound
  <2>4. Backoffs
    BY <1>3, <2>2, FailForms, Zenon DEF Sound
  <2> QED BY <2>1, <2>3, <2>4, Zenon DEF Sound
<1>4. CASE Delivered
  <2> DEFINE a == Head(plan)
  <2>1. a.kind \in Kinds /\ Projected(a) /\ backoff' = backoff
    BY <1>4, RestForms, Zenon DEF Delivered
  <2> HIDE DEF a
  <2>2. /\ alloc' = [t \in Slots |-> alloc'[t]] /\ \A t \in Slots \ {a.slot} : alloc'[t] = alloc[t]
        /\ Counts
        /\ a.slot \in Slots => \/ alloc'[a.slot] = alloc[a.slot] \/ Shaped(alloc'[a.slot])
    BY <2>1, ProjectedForms, AbsentForms, Zenon
       DEF Kinds, CreatedAt, StartedAt, StoppedAt, DeletedAt
  <2>3. Allocs
    BY <2>2, Zenon DEF Sound
  <2> QED BY <1>0, <2>1, <2>2, <2>3, Zenon DEF Sound, Shaped
<1>5. CASE UNCHANGED <<alloc, backoff, lag, fails, disruptions>>
  BY <1>0, <1>5, Zenon DEF Sound, Shaped
<1>6. Allocs /\ Backoffs /\ Counts => Sound'
  BY <1>0, Zenon DEF Sound, Shaped
<1> HIDE DEF Allocs, Backoffs, Counts
<1> QED BY <1>1, <1>2, <1>3, <1>4, <1>5, <1>6, RecordsMove, Zenon

LEMMA InitSound ==
    ASSUME Arithmetic, Init
    PROVE  Sound /\ Kinded
<1>1. TTL \in Nat /\ Attempts \in Nat /\ Len(Agents) = 3
  BY RolloutAssumption, Zenon DEF Agents
<1>2. <<>> \in Seq({}) /\ Len(<<>>) = 0
  OBVIOUS
<1>3. Kinded
  BY <1>1, <1>2 DEF Init, Kinded
<1>4. ASSUME NEW s \in Slots PROVE backoff[s] = [failures |-> 0, left |-> 0]
  BY Zenon DEF Init
<1> QED BY <1>1, <1>3, <1>4, AbsentForms DEF Init, Sound

LEMMA SoundStep ==
    ASSUME Sound, Kinded, [Next]_vars
    PROVE  Sound' /\ Kinded'
<1>1. CASE UNCHANGED vars
  BY <1>1, Zenon DEF vars, world, reality, engine, Sound, Shaped, Slots, Kinded, Agents
<1> QED BY <1>1, NextSound, NextKinded, Zenon

-----------------------------------------------------------------------------
(* What readiness says about what serves.                                    *)

\* A replica that works has just served.  What is left of a measurement and the
\* time since its replica served add up to no more than a measurement lasts.
Timely ==
    \A s \in Slots :
        /\ Up(s) => lag[s] = 0
        /\ alloc[s].ready > 0 =>
              alloc[s].ready + lag[s] <= TTL /\ alloc[s].image \notin case.broken

LEMMA NextTimely ==
    ASSUME Sound, Kinded, Timely, Next
    PROVE  Timely'
<1>0. case' = case /\ Slots' = Slots /\ TTL \in Nat
  BY PlanMoves, RolloutAssumption, Zenon DEF Slots
<1> DEFINE Fine(s) ==
       /\ alloc'[s].phase = "running" /\ s \notin dead' /\ alloc'[s].image \notin case.broken
             => lag'[s] = 0
       /\ alloc'[s].ready > 0 =>
             alloc'[s].ready + lag'[s] <= TTL /\ alloc'[s].image \notin case.broken
<1>1. ASSUME NEW s \in Slots, alloc'[s] = alloc[s], lag'[s] = lag[s], s \in dead => s \in dead'
      PROVE  Fine(s)
  BY <1>1, Zenon DEF Timely, Up
<1>2. ASSUME NEW found, Measure(found), UNCHANGED <<lag, disruptions, dead>>, NEW s \in Slots
      PROVE  Fine(s)
  <2>1. CASE alloc'[s] = alloc[s]
    BY <1>1, <1>2, <2>1, Zenon
  <2>2. CASE Probed(s)
    <3>1. Up(s) => lag'[s] = 0
      BY <1>2, Zenon DEF Timely
    <3> QED BY <1>0, <1>2, <2>2, <3>1 DEF Probed, Up
  <2> QED BY <1>2, <2>1, <2>2, MeasureForms, Zenon
<1>3. ASSUME Tick, NEW s \in Slots
      PROVE  Fine(s)
  <2>1. dead' = dead
    BY <1>3, Zenon DEF Tick
  <2>2. /\ alloc'[s].phase = alloc[s].phase /\ alloc'[s].image = alloc[s].image
        /\ alloc'[s].ready = (IF alloc[s].ready = 0 THEN 0 ELSE alloc[s].ready - 1)
        /\ lag'[s] = 0 \/ lag'[s] <= lag[s] + 1
        /\ Up(s) => lag'[s] = 0
        /\ lag'[s] \in Nat
    BY <1>3, TickForms, Zenon
  <2>3. lag[s] \in Nat /\ alloc[s].ready \in Nat
    BY Zenon DEF Sound, Shaped
  <2>4. alloc'[s].ready > 0 => alloc[s].ready > 0 /\ alloc'[s].ready = alloc[s].ready - 1
    BY <2>2, <2>3
  <2>5. alloc[s].ready > 0 => alloc[s].ready + lag[s] <= TTL /\ alloc[s].image \notin case.broken
    BY Zenon DEF Timely
  <2>6. alloc'[s].ready > 0 => alloc'[s].ready + lag'[s] <= TTL
    BY <1>0, <2>2, <2>3, <2>4, <2>5
  <2> QED BY <2>1, <2>2, <2>4, <2>5, <2>6, Zenon DEF Up
<1>4. ASSUME NEW t \in Slots, Fail(t), NEW s \in Slots
      PROVE  Fine(s)
  <2>1. lag' = lag /\ dead' = dead \ {t}
    BY <1>4, Zenon DEF Fail
  <2>2. CASE s = t
    <3>1. alloc'[s].phase = "stopped" /\ alloc'[s].ready = 0
      BY <1>4, <2>2, FailForms, Zenon
    <3> QED BY <3>1
  <2>3. CASE s # t
    <3>1. alloc'[s] = alloc[s]
      BY <1>4, <2>3, FailForms, Zenon
    <3> QED BY <1>1, <2>1, <2>3, <3>1, Zenon
  <2> QED BY <2>2, <2>3, Zenon
<1>5. ASSUME Delivered, NEW s \in Slots
      PROVE  Fine(s)
  <2> DEFINE a == Head(plan)
  <2>1. a.kind \in Kinds /\ Projected(a)
    BY <1>5, RestForms, Zenon DEF Delivered
  <2> HIDE DEF a
  <2>2. CASE s # a.slot
    <3>1. alloc'[s] = alloc[s] /\ s \in Slots \ {a.slot}
      BY <2>1, <2>2, ProjectedForms, Zenon DEF Kinds
    <3>2. lag'[s] = lag[s] /\ (s \in dead => s \in dead')
      BY <2>1, <2>2, <3>1, ProjectedForms DEF Kinds, CreatedAt, StartedAt, StoppedAt, DeletedAt
    <3> QED BY <1>1, <3>1, <3>2, Zenon
  <2>3. CASE s = a.slot /\ a.kind = "cordon"
    BY <1>1, <2>1, <2>3, ProjectedForms, Zenon
  <2>4. CASE s = a.slot /\ a.kind = "create"
    BY <2>1, <2>4, ProjectedForms DEF CreatedAt
  <2>5. CASE s = a.slot /\ a.kind = "start"
    <3>1. /\ alloc'[s].ready = alloc[s].ready /\ alloc'[s].image = alloc[s].image
          /\ alloc[s].image \notin case.broken => lag'[s] = 0
      BY <2>1, <2>5, ProjectedForms, Zenon DEF StartedAt
    <3>2. lag[s] \in Nat /\ alloc[s].ready \in Nat
      BY Zenon DEF Sound, Shaped
    <3> QED BY <1>0, <3>1, <3>2 DEF Timely
  <2>6. CASE s = a.slot /\ a.kind = "stop"
    BY <2>1, <2>6, ProjectedForms DEF StoppedAt
  <2>7. CASE s = a.slot /\ a.kind = "delete"
    BY <2>1, <2>7, ProjectedForms, AbsentForms DEF DeletedAt
  <2> QED BY <2>1, <2>2, <2>3, <2>4, <2>5, <2>6, <2>7, Zenon DEF Kinds
<1>6. ASSUME UNCHANGED <<alloc, backoff, lag, fails, disruptions>>, dead \subseteq dead',
             NEW s \in Slots
      PROVE  Fine(s)
  BY <1>1, <1>6, Zenon
<1>7. (\A s \in Slots : Fine(s)) => Timely'
  BY <1>0, Zenon DEF Timely, Up
<1> HIDE DEF Fine
<1> QED BY <1>2, <1>3, <1>4, <1>5, <1>6, <1>7, RecordsMove, Zenon

\* What the kernel simulates: the recorded world, then one action after the other.
LEMMA SimulationForms ==
    ASSUME Arithmetic, NEW p, Len(p) \in Nat
    PROVE  /\ Simulation(p)[0] = alloc
           /\ \A k \in 1 .. Len(p) :
                Simulation(p)[k] = SimulateAction(Simulation(p)[k - 1], p[k])
<1> DEFINE Good(f, n) == f = [k \in 0 .. n |->
                                IF k = 0 THEN alloc ELSE SimulateAction(f[k - 1], p[k])]
           bad == {n \in Nat : ~ \E f : Good(f, n)}
           m == Min(bad)
<1>1. Good([k \in {0} |-> alloc], 0)
  <2>1. 0 .. 0 = {0}
    OBVIOUS
  <2> QED BY <2>1, Zenon
<1>2. ASSUME NEW n \in Nat, NEW f, Good(f, n)
      PROVE  \E h : Good(h, n + 1)
  <2> DEFINE h == [k \in 0 .. n + 1 |-> IF k = n + 1 THEN SimulateAction(f[n], p[n + 1]) ELSE f[k]]
  <2>1. ASSUME NEW k \in 0 .. n + 1
        PROVE  h[k] = IF k = 0 THEN alloc ELSE SimulateAction(h[k - 1], p[k])
    <3>1. CASE k = n + 1
      <4>1. h[n] = f[n] /\ h[n + 1] = SimulateAction(f[n], p[n + 1]) /\ k # 0 /\ k - 1 = n
        BY <3>1
      <4> QED BY <3>1, <4>1, Zenon
    <3>2. CASE k # n + 1
      <4>1. k \in 0 .. n /\ h[k] = f[k] /\ (k # 0 => k - 1 \in 0 .. n /\ h[k - 1] = f[k - 1])
        BY <3>2
      <4>2. f[k] = IF k = 0 THEN alloc ELSE SimulateAction(f[k - 1], p[k])
        BY <1>2, <4>1, Zenon
      <4> HIDE DEF h
      <4> QED BY <4>1, <4>2, Zenon
    <3> QED BY <3>1, <3>2, Zenon
  <2>2. Good(h, n + 1)
    BY <2>1, Zenon
  <2> QED BY <2>2, Zenon
<1>3. bad = {}
  <2> SUFFICES ASSUME bad # {} PROVE FALSE
    BY Zenon
  <2>1. bad \in SUBSET Nat
    BY Zenon
  <2> HIDE DEF bad
  <2>2. m \in bad /\ \A y \in bad : m <= y
    BY <2>1, MinimumOf, Zenon
  <2> HIDE DEF m
  <2>3. m \in Nat /\ ~ \E f : Good(f, m)
    BY <2>2, Zenon DEF bad
  <2>4. m # 0
    BY <1>1, <2>3, Zenon
  <2>5. m - 1 \in Nat /\ m - 1 \notin bad /\ (m - 1) + 1 = m
    BY <2>2, <2>3, <2>4
  <2>6. PICK f : Good(f, m - 1)
    BY <2>5, Zenon DEF bad
  <2>7. \E h : Good(h, (m - 1) + 1)
    BY <1>2, <2>5, <2>6, Zenon
  <2> QED BY <2>3, <2>5, <2>7, Zenon
<1>4. \E f : Good(f, Len(p))
  BY <1>3, Zenon
<1>5. Simulation(p) = CHOOSE f : Good(f, Len(p))
  BY Zenon DEF Simulation
<1>6. Good(Simulation(p), Len(p))
  BY <1>4, <1>5, Zenon
<1> QED BY <1>6

\* The two actions of a replacement.
LEMMA ReplacingForms ==
    ASSUME NEW p, NEW s, NEW b, p = StopAndDelete(s, b)
    PROVE  /\ Len(p) = 2 /\ DOMAIN p = 1 .. 2
           /\ p[1].kind = "stop" /\ p[1].slot = s /\ p[1].at = alloc[s].node
           /\ p[2].kind = "delete" /\ p[2].slot = s /\ p[2].at = alloc[s].node
           /\ p[2].named = b
<1> DEFINE a == Act("stop", s, alloc[s].node, b)
           c == Act("delete", s, alloc[s].node, b)
<1>1. /\ a.kind = "stop" /\ a.slot = s /\ a.at = alloc[s].node
      /\ c.kind = "delete" /\ c.slot = s /\ c.at = alloc[s].node /\ c.named = b
  BY ActForms
<1>2. p = <<a, c>>
  BY Zenon DEF StopAndDelete
<1> HIDE DEF a, c
<1>3. Len(p) = 2 /\ DOMAIN p = 1 .. 2 /\ p[1] = a /\ p[2] = c
  BY <1>2
<1> QED BY <1>1, <1>3, Zenon

LEMMA RetiringForms ==
    ASSUME NEW p, NEW s, NEW b, p = <<Act("delete", s, alloc[s].node, b)>>
    PROVE  /\ Len(p) = 1 /\ DOMAIN p = {1}
           /\ p[1].kind = "delete" /\ p[1].slot = s /\ p[1].at = alloc[s].node
           /\ p[1].named = b
<1> DEFINE c == Act("delete", s, alloc[s].node, b)
<1>1. c.kind = "delete" /\ c.slot = s /\ c.at = alloc[s].node /\ c.named = b
  BY ActForms
<1>2. p = <<c>>
  BY Zenon
<1> HIDE DEF c
<1>3. Len(p) = 1 /\ DOMAIN p = {1} /\ p[1] = c
  BY <1>2
<1> QED BY <1>1, <1>3, Zenon

LEMMA MarkingForms ==
    ASSUME NEW p, NEW n, NEW b, p = <<Act("cordon", 0, n, b)>>
    PROVE  Len(p) = 1 /\ DOMAIN p = {1} /\ p[1].kind = "cordon"
<1> DEFINE c == Act("cordon", 0, n, b)
<1>1. p = <<c>>
  BY Zenon
<1>2. c.kind = "cordon"
  BY ActForms
<1> HIDE DEF c
<1>3. Len(p) = 1 /\ DOMAIN p = {1} /\ p[1] = c
  BY <1>1
<1> QED BY <1>2, <1>3, Zenon

\* The replicas other than one that are believed ready have served.
LEMMA OthersServe ==
    ASSUME Sound, Timely, NEW s \in Slots
    PROVE  LET R == {t \in Slots : alloc[t].ready > 0}
           IN  Cardinality({t \in Slots \ {s} : lag[t] < TTL})
                  >= Cardinality(R) - (IF alloc[s].ready > 0 THEN 1 ELSE 0)
<1> Arithmetic /\ case \in Cases
  BY Zenon DEF Sound
<1> DEFINE R == {t \in Slots : alloc[t].ready > 0}
           L == {t \in Slots \ {s} : lag[t] < TTL}
<1>1. IsFiniteSet(Slots) /\ R \in SUBSET Slots /\ L \in SUBSET Slots
  BY SlotsFinite, Zenon DEF Sound
<1>2. IsFiniteSet(R) /\ IsFiniteSet(L)
  BY <1>1, PartCounts, Zenon
<1>3. R \ {s} \subseteq L
  <2>1. ASSUME NEW t \in Slots, alloc[t].ready > 0 PROVE lag[t] < TTL
    <3>1. alloc[t].ready \in Nat /\ lag[t] \in Nat /\ TTL \in Nat
      BY RolloutAssumption, Zenon DEF Sound, Shaped
    <3>2. alloc[t].ready + lag[t] <= TTL
      BY <2>1, Zenon DEF Timely
    <3> QED BY <2>1, <3>1, <3>2
  <2> QED BY <2>1, Zenon
<1>4. s \in R <=> alloc[s].ready > 0
  BY Zenon
<1> HIDE DEF R, L
<1>5. /\ IsFiniteSet(R \ {s})
      /\ Cardinality(R \ {s}) = IF s \in R THEN Cardinality(R) - 1 ELSE Cardinality(R)
  BY <1>2, OneLess, Zenon
<1>6. R \ {s} \in SUBSET L
  BY <1>3, Zenon
<1>7. Cardinality(R \ {s}) <= Cardinality(L)
  BY <1>2, <1>6, PartCounts, Zenon
<1>8. Cardinality(R) \in Nat /\ Cardinality(L) \in Nat
  BY <1>2, CountIsNat, Zenon
<1>9. Cardinality(L) >= Cardinality(R) - (IF alloc[s].ready > 0 THEN 1 ELSE 0)
  BY <1>4, <1>5, <1>7, <1>8
<1> QED BY <1>9, Zenon DEF R, L

LEMMA FloorAtTurn ==
    ASSUME Sound, Kinded, Timely, plan' = Proposal, Authorized(plan'),
           NEW i \in DOMAIN plan', plan'[i].kind = "stop",
           NEW s, s = plan'[i].slot, alloc[s].ready > 0 \/ ~node[alloc[s].node].cordoned
    PROVE  Cardinality({t \in Slots \ {s} : lag[t] < TTL}) >= Floor
<1> Arithmetic /\ case \in Cases
  BY Zenon DEF Sound
<1>0. agent \in 1 .. Len(Agents)
  BY Zenon DEF Kinded
<1>1. ~Adding(plan')
  <2> SUFFICES ASSUME Adding(plan') PROVE FALSE
    BY Zenon
  <2>1. i \in 1 .. Len(plan')
    BY DEF Adding
  <2> QED BY <2>1, Zenon DEF Adding
<1>2. ASSUME NEW n PROVE plan' # <<Act("cordon", 0, n, FALSE)>>
  BY MarkingForms, Zenon
<1>3. ASSUME NEW b \in BOOLEAN PROVE ~Retiring(plan', b)
  <2> SUFFICES ASSUME Retiring(plan', b) PROVE FALSE
    BY Zenon
  <2>1. PICK t \in Slots : plan' = <<Act("delete", t, alloc[t].node, b)>>
    BY Zenon DEF Retiring
  <2>2. i = 1 /\ plan'[1].kind = "delete"
    BY <2>1, RetiringForms
  <2> QED BY <2>2, Zenon
<1>4. PICK b \in BOOLEAN : Replacing(plan', b)
  BY <1>0, <1>1, <1>2, <1>3, ProposalForms, Zenon
<1>5. PICK t \in Slots : /\ plan' = StopAndDelete(t, b)
                         /\ ~b => node[alloc[t].node].cordoned
                         /\ b => Serving - (IF alloc[t].ready > 0 THEN 1 ELSE 0) >= Floor
  BY <1>4, Zenon DEF Replacing
<1>6. /\ Len(plan') = 2 /\ DOMAIN plan' = 1 .. 2 /\ plan'[1].kind = "stop"
      /\ plan'[1].slot = t /\ plan'[2].kind = "delete"
  BY <1>5, ReplacingForms
<1>7. s = t
  <2>1. i = 1 \/ i = 2
    BY <1>6
  <2> QED BY <1>6, <2>1, Zenon
<1> DEFINE R == {x \in Slots : alloc[x].ready > 0}
           L == {x \in Slots \ {s} : lag[x] < TTL}
<1>8. Cardinality(L) >= Cardinality(R) - (IF alloc[s].ready > 0 THEN 1 ELSE 0)
  BY <1>7, OthersServe, Zenon
<1>9. Floor \in Nat /\ Cardinality(R) \in Nat /\ Cardinality(L) \in Nat
  <2>1. IsFiniteSet(Slots) /\ Floor \in Nat /\ R \in SUBSET Slots /\ L \in SUBSET Slots
    BY SlotsFinite, Zenon DEF Sound
  <2> HIDE DEF R, L
  <2> QED BY <2>1, PartCounts, CountIsNat, Zenon
<1>10. CASE alloc[s].ready > 0
  <2>1. ValidateAction(Simulation(plan')[0], plan'[1])
    <3>1. 1 \in 1 .. Len(plan') /\ 1 - 1 = 0
      BY <1>6
    <3> QED BY <3>1, Zenon DEF Authorized
  <2>2. Simulation(plan')[0] = alloc
    BY <1>6, SimulationForms
  <2>3. MayStop(alloc, plan'[1])
    BY <1>6, <2>1, <2>2, Zenon DEF ValidateAction
  <2>4. Cardinality(R) - 1 >= Floor
    BY <1>6, <1>7, <1>10, <2>3, Zenon DEF MayStop
  <2> HIDE DEF R, L
  <2>5. Cardinality(L) >= Floor
    BY <1>8, <1>9, <1>10, <2>4
  <2> QED BY <2>5, Zenon DEF L
<1>11. CASE ~(alloc[s].ready > 0)
  <2>1. b
    BY <1>5, <1>7, <1>11, Zenon
  <2>2. Serving = Cardinality(R)
    BY Zenon DEF Serving
  <2>3. Serving - 0 >= Floor
    BY <1>5, <1>7, <1>11, <2>1, Zenon
  <2>4. Cardinality(L) >= Cardinality(R) - 0
    BY <1>8, <1>11, Zenon
  <2> HIDE DEF R, L
  <2>5. Cardinality(L) >= Floor
    BY <1>9, <2>2, <2>3, <2>4
  <2> QED BY <2>5, Zenon DEF L
<1> QED BY <1>10, <1>11, Zenon

-----------------------------------------------------------------------------
(* The budget of disruptions.                                                *)

Tame(p) == \A i \in 1 .. Len(p) : p[i].kind \notin {"stop", "delete"}

\* What is left of a plan that removes the replica of a slot.
Clearing(p, s) ==
    \/ Len(p) = 1 /\ p[1].kind = "delete" /\ p[1].slot = s
    \/ /\ Len(p) = 2 /\ p[1].kind = "stop" /\ p[1].slot = s
       /\ p[2].kind = "delete" /\ p[2].slot = s

Recent(ds, i) == ds[i].left > Window - Cooldown

Noted(ds) ==
    /\ \E S : ds \in Seq(S)
    /\ \A i \in 1 .. Len(ds) :
         ds[i] = [domain |-> ds[i].domain, left |-> ds[i].left] /\ ds[i].left \in Int

\* There is room for a number of further disruptions in a failure domain.
Room(ds, n, d) ==
    /\ Len(ds) + n <= MaxDisruptions
    /\ \A i \in 1 .. Len(ds) : Recent(ds, i) => ds[i].domain = d

Apart(ds) ==
    \A i, j \in 1 .. Len(ds) : Recent(ds, i) /\ Recent(ds, j) => ds[i].domain = ds[j].domain

\* What remains to be done of a plan fits the budget, whenever it is done.
Braked ==
    /\ Noted(disruptions) /\ Len(disruptions) <= MaxDisruptions /\ Apart(disruptions)
    /\ \/ Tame(plan)
       \/ \E s \in Slots : /\ Clearing(plan, s)
                           /\ Room(disruptions, Len(plan), Domain[alloc[s].node])

LEMMA Remembered ==
    ASSUME Noted(disruptions), NEW s, NEW n \in Nat \ {0},
           Room(disruptions, n, Domain[alloc[s].node]),
           NEW es, es = RecordDisruption(s)
    PROVE  /\ Noted(es) /\ Len(es) <= MaxDisruptions /\ Apart(es)
           /\ \A m \in Nat : m < n => Room(es, m, Domain[alloc[s].node])
<1> DEFINE e == [domain |-> Domain[alloc[s].node], left |-> Window]
<1>1. PICK S : disruptions \in Seq(S)
  BY Zenon DEF Noted
<1>2. Len(disruptions) \in Nat /\ MaxDisruptions \in Nat /\ Window \in Int /\ Cooldown \in Nat
  BY <1>1, RolloutAssumption
<1>3. e.domain = Domain[alloc[s].node] /\ e.left = Window
      /\ e = [domain |-> e.domain, left |-> e.left]
  BY Zenon
<1>4. CASE es = disruptions
  BY <1>2, <1>4 DEF Room, Noted, Apart
<1>5. CASE es = Append(disruptions, e)
  <2>1. disruptions \in Seq(S \cup {e})
    BY <1>1
  <2> HIDE DEF e
  <2>2. /\ es \in Seq(S \cup {e}) /\ Len(es) = Len(disruptions) + 1
        /\ \A i \in 1 .. Len(disruptions) : es[i] = disruptions[i]
        /\ es[Len(disruptions) + 1] = e
    BY <1>5, <2>1
  <2>3. \A i \in 1 .. Len(es) : i \in 1 .. Len(disruptions) \/ i = Len(disruptions) + 1
    BY <1>2, <2>2
  <2>4. \A i \in 1 .. Len(es) : es[i] = [domain |-> es[i].domain, left |-> es[i].left]
                               /\ es[i].left \in Int
    BY <1>2, <1>3, <2>2, <2>3, Zenon DEF Noted
  <2>5. \A i \in 1 .. Len(es) : Recent(es, i) => es[i].domain = Domain[alloc[s].node]
    BY <1>3, <2>2, <2>3 DEF Room, Recent
  <2>6. ASSUME NEW m \in Nat, m < n PROVE Len(es) + m <= MaxDisruptions
    BY <1>2, <2>2, <2>6 DEF Room
  <2>7. Len(es) <= MaxDisruptions
    BY <1>2, <2>2 DEF Room
  <2> QED BY <2>2, <2>4, <2>5, <2>6, <2>7, ZenonT(30) DEF Noted, Apart, Room
<1> QED BY <1>4, <1>5, Zenon DEF RecordDisruption

\* A tick forgets, and reminds of nothing.
LEMMA OlderForms ==
    ASSUME Arithmetic, NEW ds, Noted(ds), NEW es, es = Older(ds)
    PROVE  /\ Noted(es) /\ Len(es) <= Len(ds)
           /\ \A i \in 1 .. Len(es) : \E j \in 1 .. Len(ds) :
                es[i].domain = ds[j].domain /\ (Recent(es, i) => Recent(ds, j))
<1> DEFINE gone == Cardinality({i \in DOMAIN ds : ds[i].left = 1})
<1>1. PICK S : ds \in Seq(S)
  BY Zenon DEF Noted
<1>2. Len(ds) \in Nat /\ DOMAIN ds = 1 .. Len(ds) /\ Window - Cooldown \in Int
  BY <1>1, RolloutAssumption
<1>3. gone \in Nat /\ gone <= Len(ds)
  <2> DEFINE G == {i \in DOMAIN ds : ds[i].left = 1}
  <2>1. IsFiniteSet(1 .. Len(ds)) /\ Cardinality(1 .. Len(ds)) = Len(ds)
    BY <1>2, IntervalCounts, Zenon
  <2>2. G \in SUBSET (1 .. Len(ds))
    BY <1>2, Zenon
  <2> HIDE DEF G
  <2>3. IsFiniteSet(G) /\ Cardinality(G) <= Len(ds) /\ Cardinality(G) \in Nat
    BY <2>1, <2>2, PartCounts, CountIsNat, Zenon
  <2> QED BY <2>3, Zenon DEF G
<1> DEFINE n == Len(ds) - gone
           Aging(i) == [ds[i + gone] EXCEPT !.left = @ - 1]
<1>4. es = [i \in 1 .. n |-> Aging(i)]
  BY Zenon DEF Older
<1> HIDE DEF gone
<1>5. n \in Nat /\ n <= Len(ds) /\ \A i \in 1 .. n : i + gone \in 1 .. Len(ds)
  BY <1>2, <1>3
<1>6. ASSUME NEW i \in 1 .. n
      PROVE  /\ Aging(i) = [domain |-> Aging(i).domain, left |-> Aging(i).left]
             /\ Aging(i).left = ds[i + gone].left - 1 /\ ds[i + gone].left \in Int
             /\ Aging(i).domain = ds[i + gone].domain
  <2> DEFINE r == ds[i + gone]
  <2>1. r = [domain |-> r.domain, left |-> r.left] /\ r.left \in Int
    BY <1>5, Zenon DEF Noted
  <2>2. Aging(i) = [r EXCEPT !.left = r.left - 1]
    BY Zenon
  <2> HIDE DEF r, Aging
  <2>3. Aging(i) = [domain |-> r.domain, left |-> r.left - 1]
    BY <2>1, <2>2, Zenon
  <2>4. Aging(i).domain = r.domain /\ Aging(i).left = r.left - 1
    BY <2>3
  <2> QED BY <2>1, <2>3, <2>4, Zenon DEF r
<1> HIDE DEF n, Aging
<1>7. es \in Seq({Aging(i) : i \in 1 .. n}) /\ Len(es) = n /\ \A i \in 1 .. n : es[i] = Aging(i)
  BY <1>4, <1>5
<1>8. ASSUME NEW i \in 1 .. n
      PROVE  \E j \in 1 .. Len(ds) :
                es[i].domain = ds[j].domain /\ (Recent(es, i) => Recent(ds, j))
  <2>1. i + gone \in 1 .. Len(ds)
    BY <1>5, Zenon
  <2>2. Recent(es, i) => Recent(ds, i + gone)
    BY <1>2, <1>6, <1>7 DEF Recent
  <2> QED BY <1>6, <1>7, <2>1, <2>2, Zenon
<1>9. \A i \in 1 .. n : es[i] = [domain |-> es[i].domain, left |-> es[i].left]
                        /\ es[i].left \in Int
  BY <1>6, <1>7, SMTT(30)
<1>10. Noted(es)
  BY <1>7, <1>9, Zenon DEF Noted
<1> QED BY <1>5, <1>7, <1>8, <1>10, Zenon

\* What the governor admits.
LEMMA Admitted ==
    ASSUME Sound, Kinded, Noted(disruptions), NEW p, p = Proposal, Authorized(p)
    PROVE  \/ Tame(p)
           \/ \E s \in Slots : Clearing(p, s) /\ Room(disruptions, Len(p), Domain[alloc[s].node])
<1> Arithmetic /\ case \in Cases
  BY Zenon DEF Sound
<1>0. /\ agent \in 1 .. Len(Agents)
      /\ Disruptive(p) # {} => WithinBudget(p) /\ OneDomainAtATime(p)
  BY Zenon DEF Kinded, Authorized, CheckDisruptionBudget
<1>1. ASSUME NEW s \in Slots, NEW n, n \in 1 .. 2, Len(p) = n, Disruptive(p) = 1 .. n,
             p[1].at = alloc[s].node
      PROVE  Room(disruptions, Len(p), Domain[alloc[s].node])
  <2>1. 1 \in Disruptive(p)
    BY <1>1
  <2>2. WithinBudget(p) /\ OneDomainAtATime(p)
    BY <1>0, <2>1, Zenon
  <2>3. Cardinality(Disruptive(p)) = n
    <3>1. Cardinality(1 .. n) = n
      BY <1>1, IntervalCounts
    <3> QED BY <1>1, <3>1, Zenon
  <2>4. Domain[alloc[s].node] \in {Domain[p[i].at] : i \in Disruptive(p)}
    BY <1>1, <2>1, Zenon
  <2>5. DisruptedDomains \subseteq {Domain[alloc[s].node]}
    BY <2>2, <2>4, Zenon DEF OneDomainAtATime
  <2>6. ASSUME NEW i \in 1 .. Len(disruptions), Recent(disruptions, i)
        PROVE  disruptions[i].domain = Domain[alloc[s].node]
    <3>1. i \in DOMAIN disruptions
      BY DEF Noted
    <3>2. disruptions[i].domain \in DisruptedDomains
      BY <2>6, <3>1, Zenon DEF DisruptedDomains, Recent
    <3> QED BY <2>5, <3>2, Zenon
  <2> QED BY <1>1, <2>2, <2>3, <2>6, Zenon DEF Room, WithinBudget
<1>2. CASE Adding(p)
  BY <1>2, Zenon DEF Adding, Tame
<1>3. ASSUME NEW m, NEW b, p = <<Act("cordon", 0, m, b)>> PROVE Tame(p)
  <2>1. Len(p) = 1 /\ DOMAIN p = {1} /\ p[1].kind = "cordon"
    BY <1>3, MarkingForms, Zenon
  <2> QED BY <2>1 DEF Tame
<1>4. ASSUME NEW b \in BOOLEAN, Retiring(p, b)
      PROVE  \E s \in Slots : Clearing(p, s) /\ Room(disruptions, Len(p), Domain[alloc[s].node])
  <2>1. PICK s \in Slots : p = <<Act("delete", s, alloc[s].node, b)>>
    BY <1>4, Zenon DEF Retiring
  <2>2. /\ Len(p) = 1 /\ DOMAIN p = {1} /\ p[1].kind = "delete" /\ p[1].slot = s
        /\ p[1].at = alloc[s].node
    BY <2>1, RetiringForms
  <2>3. Disruptive(p) = 1 .. 1
    BY <2>2 DEF Disruptive
  <2>4. 1 \in 1 .. 2
    OBVIOUS
  <2>5. Room(disruptions, Len(p), Domain[alloc[s].node])
    BY <1>1, <2>2, <2>3, <2>4, Zenon
  <2> QED BY <2>2, <2>5, Zenon DEF Clearing
<1>5. ASSUME NEW b \in BOOLEAN, Replacing(p, b)
      PROVE  \E s \in Slots : Clearing(p, s) /\ Room(disruptions, Len(p), Domain[alloc[s].node])
  <2>1. PICK s \in Slots : p = StopAndDelete(s, b)
    BY <1>5, Zenon DEF Replacing
  <2>2. /\ Len(p) = 2 /\ DOMAIN p = 1 .. 2
        /\ p[1].kind = "stop" /\ p[1].slot = s /\ p[1].at = alloc[s].node
        /\ p[2].kind = "delete" /\ p[2].slot = s
    BY <2>1, ReplacingForms
  <2>3. Disruptive(p) = 1 .. 2
    <3>1. \A i \in 1 .. 2 : i = 1 \/ i = 2
      OBVIOUS
    <3> QED BY <2>2, <3>1, Zenon DEF Disruptive
  <2>4. 2 \in 1 .. 2
    OBVIOUS
  <2>5. Room(disruptions, Len(p), Domain[alloc[s].node])
    BY <1>1, <2>2, <2>3, <2>4, Zenon
  <2> QED BY <2>2, <2>5, Zenon DEF Clearing
<1> QED BY <1>0, <1>2, <1>3, <1>4, <1>5, ProposalForms, Zenon

LEMMA TurnLeaves ==
    ASSUME Turn
    PROVE  UNCHANGED <<alloc, backoff, disruptions, lag, fails, node, dead>>
BY Zenon DEF Turn, world, reality

LEMMA DeliveredBraked ==
    ASSUME Sound, Kinded, Braked, Delivered, Slots' = Slots
    PROVE  Braked'
<1> DEFINE a == Head(plan)
<1>1. /\ a.kind \in Kinds /\ Projected(a) /\ a = plan[1] /\ 1 \in 1 .. Len(plan)
      /\ Len(plan) \in Nat /\ Len(plan') = Len(plan) - 1
      /\ \A i \in 1 .. Len(plan') : plan'[i] = plan[i + 1] /\ i + 1 \in 1 .. Len(plan)
  BY RestForms, Zenon DEF Delivered
<1> HIDE DEF a
<1>2. CASE Tame(plan)
  <2>1. a.kind \notin {"stop", "delete"}
    BY <1>1, <1>2, Zenon DEF Tame
  <2>2. disruptions' = disruptions
    BY <1>1, <2>1, ProjectedForms, Zenon DEF Kinds, CreatedAt, StartedAt
  <2>3. Tame(plan)'
    BY <1>1, <1>2, Zenon DEF Tame
  <2> QED BY <2>2, <2>3, Zenon DEF Braked, Noted, Apart, Recent
<1>3. ASSUME NEW s \in Slots, Clearing(plan, s),
             Room(disruptions, Len(plan), Domain[alloc[s].node])
      PROVE  Braked'
  <2>1. a.kind \in {"stop", "delete"} /\ a.slot = s
    BY <1>1, <1>3, Zenon DEF Clearing
  <2>2. disruptions' = RecordDisruption(s)
    BY <1>1, <2>1, ProjectedForms, Zenon DEF Kinds, StoppedAt, DeletedAt
  <2>3. Len(plan) \in Nat \ {0} /\ Noted(disruptions)
    BY <1>3 DEF Clearing, Braked
  <2>4. /\ Noted(disruptions') /\ Len(disruptions') <= MaxDisruptions /\ Apart(disruptions')
        /\ \A m \in Nat : m < Len(plan) => Room(disruptions', m, Domain[alloc[s].node])
    BY <1>3, <2>2, <2>3, Remembered, Zenon
  <2>5. CASE Len(plan) = 1
    <3>1. Tame(plan)'
      BY <1>1, <2>5 DEF Tame
    <3> QED BY <2>4, <3>1, Zenon DEF Braked, Noted, Apart, Recent
  <2>6. CASE Len(plan) = 2
    <3>1. Len(plan') = 1 /\ plan'[1] = plan[2] /\ a.kind = "stop"
          /\ plan[2].kind = "delete" /\ plan[2].slot = s
      BY <1>1, <1>3, <2>6 DEF Clearing
    <3>2. alloc'[s].node = alloc[s].node
      BY <1>1, <2>1, <3>1, ProjectedForms, Zenon DEF Kinds, StoppedAt
    <3>3. Room(disruptions', 1, Domain[alloc[s].node])
      BY <2>4, <2>6
    <3>4. Clearing(plan, s)'
      BY <3>1, Zenon DEF Clearing
    <3>5. Room(disruptions, Len(plan), Domain[alloc[s].node])'
      BY <3>1, <3>2, <3>3, Zenon DEF Room, Recent
    <3> QED BY <2>4, <3>4, <3>5, Zenon DEF Braked, Noted, Apart, Recent
  <2> QED BY <1>3, <2>5, <2>6, Zenon DEF Clearing
<1> QED BY <1>2, <1>3, Zenon DEF Braked

\* The steps that leave the disruptions, and where the replicas are.
LEMMA BrakedKept ==
    ASSUME Sound, Kinded, Braked, Next, Slots' = Slots, UNCHANGED disruptions,
           \A s \in Slots : alloc'[s].node = alloc[s].node,
           plan' = <<>> \/ UNCHANGED plan
    PROVE  Braked'
<1>1. CASE plan' = <<>>
  <2>1. Tame(plan)'
    BY <1>1 DEF Tame
  <2> QED BY <2>1, Zenon DEF Braked, Noted, Apart, Recent
<1>2. CASE UNCHANGED plan
  <2>1. Tame(plan) => Tame(plan)'
    BY <1>2, Zenon DEF Tame
  <2>2. ASSUME NEW s \in Slots, Clearing(plan, s),
               Room(disruptions, Len(plan), Domain[alloc[s].node])
        PROVE  (Clearing(plan, s) /\ Room(disruptions, Len(plan), Domain[alloc[s].node]))'
    BY <1>2, <2>2, Zenon DEF Clearing, Room, Recent
  <2> QED BY <2>1, <2>2, Zenon DEF Braked, Noted, Apart, Recent
<1> QED BY <1>1, <1>2, Zenon

LEMMA TickBraked ==
    ASSUME Sound, Kinded, Braked, Tick, Slots' = Slots
    PROVE  Braked'
<1>1. disruptions' = Older(disruptions) /\ UNCHANGED plan
  BY Zenon DEF Tick, engine
<1>2. \A s \in Slots : alloc'[s].node = alloc[s].node
  BY TickForms, Zenon
<1>3. /\ Noted(disruptions') /\ Len(disruptions') <= Len(disruptions)
      /\ \A i \in 1 .. Len(disruptions') : \E j \in 1 .. Len(disruptions) :
            /\ disruptions'[i].domain = disruptions[j].domain
            /\ Recent(disruptions', i) => Recent(disruptions, j)
  <2>1. Arithmetic
    BY Zenon DEF Sound
  <2> QED BY <1>1, <2>1, OlderForms, ZenonT(30) DEF Braked
<1>4. Len(disruptions) \in Nat /\ Len(disruptions') \in Nat /\ MaxDisruptions \in Nat
  BY <1>3, RolloutAssumption, SMTT(30) DEF Braked, Noted
<1>5. Len(disruptions') <= MaxDisruptions
  BY <1>3, <1>4 DEF Braked
<1>6. Apart(disruptions')
  BY <1>3, Zenon DEF Braked, Apart
<1>7. Tame(plan) => Tame(plan)'
  BY <1>1, Zenon DEF Tame
<1>8. ASSUME NEW s \in Slots, Clearing(plan, s),
             Room(disruptions, Len(plan), Domain[alloc[s].node])
      PROVE  (Clearing(plan, s) /\ Room(disruptions, Len(plan), Domain[alloc[s].node]))'
  <2>1. Clearing(plan, s)' /\ Len(plan) \in Nat
    BY <1>1, <1>8 DEF Clearing
  <2>2. Len(disruptions') + Len(plan) <= MaxDisruptions
    BY <1>3, <1>4, <1>8, <2>1 DEF Room
  <2>3. \A i \in 1 .. Len(disruptions') :
          Recent(disruptions', i) => disruptions'[i].domain = Domain[alloc[s].node]
    BY <1>3, <1>8, Zenon DEF Room
  <2> QED BY <1>1, <1>2, <2>1, <2>2, <2>3, Zenon DEF Room, Recent
<1> QED BY <1>3, <1>5, <1>6, <1>7, <1>8, Zenon DEF Braked, Noted, Apart, Recent

LEMMA NextBraked ==
    ASSUME Sound, Kinded, Braked, Next
    PROVE  Braked'
<1>0. Slots' = Slots
  BY PlanMoves, Zenon DEF Slots
<1>1. CASE Tick
  BY <1>0, <1>1, TickBraked, Zenon
<1>2. CASE Delivered
  BY <1>0, <1>2, DeliveredBraked, Zenon
<1>3. ASSUME NEW s \in Slots, Fail(s) PROVE Braked'
  <2>1. UNCHANGED disruptions /\ UNCHANGED plan
    BY <1>3, Zenon DEF Fail, engine
  <2>2. \A t \in Slots : alloc'[t].node = alloc[t].node
    BY <1>3, FailForms, Zenon
  <2> QED BY <1>0, <2>1, <2>2, BrakedKept, Zenon
<1>4. CASE plan' = Proposal /\ Turn /\ Authorized(plan')
  <2>1. UNCHANGED alloc /\ UNCHANGED disruptions
    BY <1>4, TurnLeaves, Zenon
  <2>2. \/ Tame(plan')
        \/ \E s \in Slots :
              Clearing(plan', s) /\ Room(disruptions, Len(plan'), Domain[alloc[s].node])
    BY <1>4, Admitted, Zenon DEF Braked
  <2>3. Tame(plan') => Tame(plan)'
    BY Zenon DEF Tame
  <2>4. ASSUME NEW s \in Slots, Clearing(plan', s),
               Room(disruptions, Len(plan'), Domain[alloc[s].node])
        PROVE  (Clearing(plan, s) /\ Room(disruptions, Len(plan), Domain[alloc[s].node]))'
    BY <2>1, <2>4, Zenon DEF Clearing, Room, Recent
  <2> QED BY <1>0, <2>1, <2>2, <2>3, <2>4, Zenon DEF Braked, Noted, Apart, Recent
<1>5. ASSUME UNCHANGED disruptions, \A s \in Slots : alloc'[s].node = alloc[s].node
      PROVE  Braked'
  BY <1>0, <1>2, <1>4, <1>5, PlanMoves, BrakedKept, Zenon
<1>6. ASSUME NEW found, Measure(found), UNCHANGED <<lag, disruptions, dead>> PROVE Braked'
  <2>1. \A s \in Slots : alloc'[s].node = alloc[s].node
    BY <1>6, MeasureForms, Zenon DEF Probed
  <2> QED BY <1>5, <1>6, <2>1, Zenon
<1>7. CASE UNCHANGED <<alloc, backoff, lag, fails, disruptions>>
  BY <1>5, <1>7, Zenon
<1> QED BY <1>1, <1>2, <1>3, <1>6, <1>7, RecordsMove, Zenon

-----------------------------------------------------------------------------
(* What a plan that adds replicas leads to, as the kernel simulates it.      *)

Formed(al) == al = [s \in Slots |-> al[s]] /\ \A s \in Slots : Shaped(al[s])

\* A replica is created, then started, and stays where it is.
Leads(a, b) ==
    \A s \in Slots :
        /\ b[s].phase = "absent" => a[s].phase = "absent"
        /\ b[s].phase = "created" => a[s].phase \in {"absent", "created"}
        /\ Live(a, s) => Live(b, s) /\ b[s].node = a[s].node

LEMMA SimulatedForms ==
    ASSUME NEW al, Formed(al), NEW act, act.kind \in {"create", "start"},
           NEW b, b = SimulateAction(al, act)
    PROVE  /\ Formed(b) /\ \A t \in Slots \ {act.slot} : b[t] = al[t]
           /\ act.slot \in Slots =>
                /\ act.kind = "create" => b[act.slot].phase = "created" /\ b[act.slot].node = act.at
                /\ act.kind = "start" => /\ b[act.slot].phase = "running"
                                         /\ b[act.slot].node = al[act.slot].node
<1> DEFINE s == act.slot
<1>1. CASE act.kind = "create"
  <2> DEFINE q == Created(act.at)
  <2>1. Shaped(q) /\ q.phase = "created" /\ q.node = act.at
    BY CreatedForms, Zenon
  <2>2. b = [al EXCEPT ![s] = q]
    BY <1>1, Zenon DEF SimulateAction
  <2> HIDE DEF q
  <2> QED BY <1>1, <2>1, <2>2, Zenon DEF Formed
<1>2. CASE act.kind = "start"
  <2> DEFINE q == Begun(al[s])
  <2>1. s \in Slots => Shaped(q) /\ q.phase = "running" /\ q.node = al[s].node
    BY RecordForms, Zenon DEF Formed
  <2>2. b = [al EXCEPT ![s] = q]
    BY <1>2, Zenon DEF SimulateAction, Begun, Formed
  <2> HIDE DEF q
  <2> QED BY <1>2, <2>1, <2>2, Zenon DEF Formed
<1> QED BY <1>1, <1>2, Zenon

LEMMA SimulatedLeads ==
    ASSUME NEW al, Formed(al), NEW act, act.kind \in {"create", "start"},
           ValidateAction(al, act), NEW b, b = SimulateAction(al, act)
    PROVE  Leads(al, b)
<1>1. /\ act.kind = "create" => al[act.slot].phase = "absent"
      /\ act.kind = "start" => al[act.slot].phase = "created"
  BY Zenon DEF ValidateAction, MayCreate
<1>2. ASSUME NEW s \in Slots, s = act.slot
      PROVE  /\ b[s].phase = "absent" => al[s].phase = "absent"
             /\ b[s].phase = "created" => al[s].phase \in {"absent", "created"}
             /\ Live(al, s) => Live(b, s) /\ b[s].node = al[s].node
  BY <1>1, <1>2, SimulatedForms, SMTT(30) DEF Live
<1>3. ASSUME NEW s \in Slots, s # act.slot PROVE b[s] = al[s]
  BY <1>3, SimulatedForms
<1> QED BY <1>2, <1>3, Zenon DEF Leads, Live

\* The simulated worlds of an authorized plan that adds replicas.
LEMMA SimulationLeads ==
    ASSUME Sound, NEW p, Adding(p), Authorized(p), NEW sim, sim = Simulation(p)
    PROVE  \A k \in 0 .. Len(p) :
             /\ Formed(sim[k])
             /\ \A j \in 0 .. k : Leads(sim[j], sim[k])
             /\ \A s \in Slots : sim[k][s] = alloc[s] \/ \E i \in 1 .. k : p[i].slot = s
<1> Arithmetic /\ case \in Cases
  BY Zenon DEF Sound
<1> DEFINE Good(k) == /\ Formed(sim[k])
                      /\ \A j \in 0 .. k : Leads(sim[j], sim[k])
                      /\ \A s \in Slots : sim[k][s] = alloc[s] \/ \E i \in 1 .. k : p[i].slot = s
           bad == {k \in Nat : k <= Len(p) /\ ~Good(k)}
           m == Min(bad)
<1>0. Len(p) \in Nat
  BY DEF Adding
<1>1. /\ sim[0] = alloc
      /\ \A k \in 1 .. Len(p) : /\ sim[k] = SimulateAction(sim[k - 1], p[k])
                                 /\ ValidateAction(sim[k - 1], p[k])
                                 /\ p[k].kind \in {"create", "start"}
  BY <1>0, SimulationForms, Zenon DEF Authorized, Adding
<1>2. Good(0)
  <2>1. Formed(alloc) /\ Leads(alloc, alloc)
    BY Zenon DEF Sound, Formed, Leads, Live
  <2>2. \A j \in 0 .. 0 : j = 0
    OBVIOUS
  <2> QED BY <1>1, <2>1, <2>2, Zenon
<1>3. ASSUME NEW k \in 1 .. Len(p), Good(k - 1) PROVE Good(k)
  <2>1. /\ sim[k] = SimulateAction(sim[k - 1], p[k]) /\ ValidateAction(sim[k - 1], p[k])
        /\ p[k].kind \in {"create", "start"} /\ Formed(sim[k - 1])
    BY <1>1, <1>3, Zenon
  <2>2. /\ Formed(sim[k]) /\ Leads(sim[k - 1], sim[k])
        /\ \A t \in Slots \ {p[k].slot} : sim[k][t] = sim[k - 1][t]
    BY <2>1, SimulatedForms, SimulatedLeads
  <2>3. \A j \in 0 .. k : j \in 0 .. k - 1 \/ j = k
    BY <1>0
  <2>4. Leads(sim[k], sim[k])
    BY Zenon DEF Leads
  <2>5. ASSUME NEW j \in 0 .. k - 1 PROVE Leads(sim[j], sim[k])
    <3>1. Leads(sim[j], sim[k - 1])
      BY <1>3, Zenon
    <3> QED BY <2>2, <3>1, Zenon DEF Leads
  <2>6. \A i \in 1 .. k - 1 : i \in 1 .. k
    BY <1>0
  <2>7. k \in 1 .. k
    BY <1>0
  <2>8. \A s \in Slots : sim[k][s] = alloc[s] \/ \E i \in 1 .. k : p[i].slot = s
    BY <1>3, <2>2, <2>6, <2>7, Zenon
  <2> QED BY <2>2, <2>3, <2>4, <2>5, <2>8, Zenon
<1> HIDE DEF Good
<1>4. SUFFICES ASSUME bad # {} PROVE FALSE
  <2>1. ASSUME bad = {}, NEW k \in 0 .. Len(p) PROVE Good(k)
    BY <1>0, <2>1
  <2> QED BY <2>1, Zenon DEF Good
<1>5. m \in bad /\ \A k \in bad : m <= k
  <2>1. bad \in SUBSET Nat
    BY Zenon
  <2> QED BY <1>4, <2>1, MinimumOf, Zenon
<1>6. m # 0
  BY <1>2, <1>5, Zenon
<1>7. m \in 1 .. Len(p) /\ m - 1 \in Nat /\ m - 1 <= Len(p) /\ ~(m <= m - 1)
  BY <1>0, <1>5, <1>6
<1>8. Good(m - 1)
  BY <1>5, <1>7, Zenon
<1> QED BY <1>3, <1>5, <1>7, <1>8, Zenon

\* What remains of a plan creates only what is missing and starts only what was
\* created, each once.
Fillable(p) ==
    \A k \in 1 .. Len(p) : p[k].slot \in Slots =>
        /\ p[k].kind = "create" => alloc[p[k].slot].phase = "absent"
        /\ p[k].kind = "start" =>
             \/ alloc[p[k].slot].phase = "created"
             \/ /\ alloc[p[k].slot].phase = "absent"
                /\ \E i \in 1 .. k - 1 : p[i].kind = "create" /\ p[i].slot = p[k].slot
        /\ p[k].kind \in {"create", "start"} =>
             \A i \in 1 .. k - 1 : p[i].slot = p[k].slot =>
                p[i].kind = "create" /\ p[k].kind = "start"

\* Two actions of an authorized plan on the same replica are its creation and its
\* start.
LEMMA AddedOnce ==
    ASSUME Sound, NEW p, Adding(p), Authorized(p),
           NEW k \in 1 .. Len(p), NEW i \in 1 .. k - 1, p[k].slot \in Slots,
           p[i].slot = p[k].slot
    PROVE  p[i].kind = "create" /\ p[k].kind = "start"
<1> Arithmetic /\ case \in Cases
  BY Zenon DEF Sound
<1> DEFINE sim == Simulation(p)
           s == p[k].slot
<1>0. /\ Len(p) \in Nat /\ i \in 1 .. Len(p) /\ k - 1 \in 0 .. Len(p) /\ i - 1 \in 0 .. Len(p)
      /\ i \in 0 .. k - 1 /\ k \in Int
  BY DEF Adding
<1>1. /\ sim[i] = SimulateAction(sim[i - 1], p[i])
      /\ ValidateAction(sim[k - 1], p[k]) /\ ValidateAction(sim[i - 1], p[i])
      /\ p[k].kind \in {"create", "start"} /\ p[i].kind \in {"create", "start"}
  BY <1>0, SimulationForms, Zenon DEF Authorized, Adding
<1>2. Formed(sim[i - 1]) /\ Leads(sim[i], sim[k - 1])
  BY <1>0, SimulationLeads, ZenonT(30)
<1>3. /\ p[i].kind = "create" => sim[i][s].phase = "created"
      /\ p[i].kind = "start" => sim[i][s].phase = "running"
  BY <1>1, <1>2, SimulatedForms
<1>4. /\ p[k].kind = "create" => sim[k - 1][s].phase = "absent"
      /\ p[k].kind = "start" => sim[k - 1][s].phase = "created"
  BY <1>1, Zenon DEF ValidateAction, MayCreate
<1>5. /\ sim[k - 1][s].phase = "absent" => sim[i][s].phase = "absent"
      /\ sim[k - 1][s].phase = "created" => sim[i][s].phase \in {"absent", "created"}
  BY <1>2, Zenon DEF Leads
<1> HIDE DEF sim, s
<1> QED BY <1>1, <1>3, <1>4, <1>5, Zenon

LEMMA AddingFillable ==
    ASSUME Sound, NEW p, Adding(p), Authorized(p)
    PROVE  Fillable(p)
<1> Arithmetic /\ case \in Cases
  BY Zenon DEF Sound
<1> DEFINE sim == Simulation(p)
<1>1. ASSUME NEW k \in 1 .. Len(p), p[k].slot \in Slots
      PROVE  /\ p[k].kind = "create" => alloc[p[k].slot].phase = "absent"
             /\ p[k].kind = "start" =>
                  \/ alloc[p[k].slot].phase = "created"
                  \/ /\ alloc[p[k].slot].phase = "absent"
                     /\ \E i \in 1 .. k - 1 : p[i].kind = "create" /\ p[i].slot = p[k].slot
  <2> DEFINE s == p[k].slot
  <2>0. Len(p) \in Nat /\ k - 1 \in 0 .. Len(p) /\ 0 \in 0 .. k - 1
    BY DEF Adding
  <2>1. sim[0] = alloc /\ ValidateAction(sim[k - 1], p[k])
    BY <2>0, SimulationForms, Zenon DEF Authorized
  <2>2. /\ Leads(alloc, sim[k - 1])
        /\ sim[k - 1][s] = alloc[s] \/ \E i \in 1 .. k - 1 : p[i].slot = s
    BY <1>1, <2>0, <2>1, SimulationLeads
  <2>3. /\ p[k].kind = "create" => sim[k - 1][s].phase = "absent"
        /\ p[k].kind = "start" => sim[k - 1][s].phase = "created"
    BY <2>1, Zenon DEF ValidateAction, MayCreate
  <2>4. /\ sim[k - 1][s].phase = "absent" => alloc[s].phase = "absent"
        /\ sim[k - 1][s].phase = "created" => alloc[s].phase \in {"absent", "created"}
    BY <1>1, <2>2, Zenon DEF Leads
  <2> HIDE DEF sim
  <2>5. ASSUME p[k].kind = "start", alloc[s].phase # "created"
        PROVE  \E i \in 1 .. k - 1 : p[i].kind = "create" /\ p[i].slot = p[k].slot
    <3>1. PICK i \in 1 .. k - 1 : p[i].slot = s
      BY <2>2, <2>3, <2>5, Zenon
    <3> QED BY <1>1, <3>1, AddedOnce, Zenon
  <2> QED BY <2>3, <2>4, <2>5, Zenon
<1> QED BY <1>1, AddedOnce, Zenon DEF Fillable

LEMMA ProposedFillable ==
    ASSUME Sound, Kinded, NEW p, p = Proposal, Authorized(p)
    PROVE  Fillable(p)
<1>0. agent \in 1 .. Len(Agents)
  BY Zenon DEF Kinded
<1>1. CASE Adding(p)
  BY <1>1, AddingFillable, Zenon
<1>2. ASSUME \A i \in 1 .. Len(p) : p[i].kind \notin {"create", "start"} PROVE Fillable(p)
  BY <1>2, Zenon DEF Fillable
<1>3. ASSUME NEW m, NEW b, p = <<Act("cordon", 0, m, b)>>
      PROVE  Fillable(p)
  <2>1. Len(p) = 1 /\ p[1].kind = "cordon" /\ \A i \in 1 .. 1 : i = 1
    BY <1>3, MarkingForms
  <2> QED BY <1>2, <2>1, Zenon
<1>4. ASSUME NEW b \in BOOLEAN, Retiring(p, b) PROVE Fillable(p)
  <2>1. PICK s \in Slots : p = <<Act("delete", s, alloc[s].node, b)>>
    BY <1>4, Zenon DEF Retiring
  <2>2. Len(p) = 1 /\ p[1].kind = "delete" /\ \A i \in 1 .. 1 : i = 1
    BY <2>1, RetiringForms
  <2> QED BY <1>2, <2>2, Zenon
<1>5. ASSUME NEW b \in BOOLEAN, Replacing(p, b) PROVE Fillable(p)
  <2>1. PICK s \in Slots : p = StopAndDelete(s, b)
    BY <1>5, Zenon DEF Replacing
  <2>2. /\ Len(p) = 2 /\ p[1].kind = "stop" /\ p[2].kind = "delete"
        /\ \A i \in 1 .. 2 : i = 1 \/ i = 2
    BY <2>1, ReplacingForms
  <2> QED BY <1>2, <2>2, Zenon
<1> QED BY <1>0, <1>1, <1>3, <1>4, <1>5, ProposalForms, Zenon

LEMMA DeliveredFillable ==
    ASSUME Sound, Kinded, Fillable(plan), Delivered, Slots' = Slots
    PROVE  Fillable(plan)'
<1> DEFINE a == Head(plan)
<1>1. /\ a.kind \in Kinds /\ Projected(a) /\ a = plan[1] /\ 1 \in 1 .. Len(plan)
      /\ Len(plan) \in Nat /\ Len(plan') = Len(plan) - 1
      /\ \A i \in 1 .. Len(plan') : plan'[i] = plan[i + 1] /\ i + 1 \in 1 .. Len(plan)
  BY RestForms, Zenon DEF Delivered
<1> HIDE DEF a
<1>2. /\ \A t \in Slots \ {a.slot} : alloc'[t] = alloc[t]
      /\ a.kind = "create" /\ a.slot \in Slots => alloc'[a.slot].phase = "created"
  BY <1>1, ProjectedForms, Zenon DEF Kinds, CreatedAt
<1>3. ASSUME NEW k \in 1 .. Len(plan'), plan'[k].slot \in Slots
      PROVE  /\ plan'[k].kind = "create" => alloc'[plan'[k].slot].phase = "absent"
             /\ plan'[k].kind = "start" =>
                  \/ alloc'[plan'[k].slot].phase = "created"
                  \/ /\ alloc'[plan'[k].slot].phase = "absent"
                     /\ \E i \in 1 .. k - 1 : plan'[i].kind = "create" /\ plan'[i].slot = plan'[k].slot
             /\ plan'[k].kind \in {"create", "start"} =>
                  \A i \in 1 .. k - 1 : plan'[i].slot = plan'[k].slot =>
                     plan'[i].kind = "create" /\ plan'[k].kind = "start"
  <2> DEFINE c == plan[k + 1]
  <2>1. /\ plan'[k] = c /\ k + 1 \in 1 .. Len(plan) /\ 1 \in 1 .. (k + 1) - 1
        /\ \A i \in 1 .. k - 1 : /\ plan'[i] = plan[i + 1] /\ i + 1 \in 1 .. (k + 1) - 1
        /\ \A i \in 1 .. (k + 1) - 1 : i = 1 \/ (i - 1 \in 1 .. k - 1 /\ plan'[i - 1] = plan[i])
    <3>1. /\ k \in Int /\ k >= 1 /\ k <= Len(plan')
      BY <1>1
    <3>2. \A i \in 1 .. k - 1 : i \in 1 .. Len(plan') /\ i + 1 \in 1 .. (k + 1) - 1
      BY <1>1, <3>1
    <3>3. \A i \in 1 .. (k + 1) - 1 :
            i = 1 \/ (i - 1 \in 1 .. k - 1 /\ i - 1 \in 1 .. Len(plan') /\ (i - 1) + 1 = i)
      BY <1>1, <3>1
    <3> QED BY <1>1, <3>1, <3>2, <3>3
  <2> HIDE DEF c
  <2>2. /\ c.kind = "create" => alloc[c.slot].phase = "absent"
        /\ c.kind = "start" =>
             \/ alloc[c.slot].phase = "created"
             \/ /\ alloc[c.slot].phase = "absent"
                /\ \E i \in 1 .. (k + 1) - 1 : plan[i].kind = "create" /\ plan[i].slot = c.slot
        /\ c.kind \in {"create", "start"} =>
             \A i \in 1 .. (k + 1) - 1 : plan[i].slot = c.slot =>
                plan[i].kind = "create" /\ c.kind = "start"
    BY <1>3, <2>1, Zenon DEF Fillable, c
  <2>3. ASSUME c.kind \in {"create", "start"}, NEW i \in 1 .. k - 1, plan'[i].slot = c.slot
        PROVE  plan'[i].kind = "create" /\ c.kind = "start"
    <3>1. plan'[i] = plan[i + 1] /\ i + 1 \in 1 .. (k + 1) - 1
      BY <2>1, Zenon
    <3> QED BY <2>2, <2>3, <3>1, Zenon
  <2>4. CASE c.slot = a.slot /\ c.kind \in {"create", "start"}
    <3>1. a.kind = "create" /\ c.kind = "start"
      BY <1>1, <2>1, <2>2, <2>4, Zenon
    <3>2. alloc'[c.slot].phase = "created"
      BY <1>2, <1>3, <2>1, <2>4, <3>1, Zenon
    <3> QED BY <2>1, <2>3, <3>1, <3>2, Zenon
  <2>5. CASE c.slot # a.slot
    <3>1. alloc'[c.slot] = alloc[c.slot]
      BY <1>2, <1>3, <2>1, <2>5, Zenon
    <3>2. ASSUME NEW i \in 1 .. (k + 1) - 1, plan[i].kind = "create", plan[i].slot = c.slot
          PROVE  \E j \in 1 .. k - 1 : plan'[j].kind = "create" /\ plan'[j].slot = c.slot
      <4>1. i # 1
        BY <1>1, <2>5, <3>2, Zenon
      <4> QED BY <2>1, <3>2, <4>1, SMTT(30)
    <3> QED BY <2>1, <2>2, <2>3, <3>1, <3>2, Zenon
  <2>6. CASE c.kind \notin {"create", "start"}
    BY <2>1, <2>6, Zenon
  <2> QED BY <2>4, <2>5, <2>6, Zenon
<1> QED BY <1>3, Zenon DEF Fillable

LEMMA NextFillable ==
    ASSUME Sound, Kinded, Fillable(plan), Next
    PROVE  Fillable(plan)'
<1>0. Slots' = Slots
  BY PlanMoves, Zenon DEF Slots
<1>1. CASE Delivered
  BY <1>0, <1>1, DeliveredFillable, Zenon
<1>2. CASE plan' = <<>>
  BY <1>2 DEF Fillable
<1>3. CASE plan' = Proposal /\ Turn /\ Authorized(plan')
  <2>1. UNCHANGED alloc
    BY <1>3, TurnLeaves, Zenon
  <2>2. Fillable(plan')
    BY <1>3, ProposedFillable, Zenon
  <2> QED BY <1>0, <2>1, <2>2, Zenon DEF Fillable
<1>4. ASSUME UNCHANGED plan, ~Delivered PROVE Fillable(plan)'
  <2>1. ASSUME NEW s \in Slots, alloc[s].phase \in {"absent", "created"}
        PROVE  alloc'[s].phase = alloc[s].phase
    <3>1. ASSUME NEW t \in Slots, Fail(t) PROVE alloc'[s].phase = alloc[s].phase
      <4>1. alloc[t].phase = "running"
        BY <3>1, Zenon DEF Fail
      <4>2. s # t
        BY <2>1, <4>1, Zenon
      <4> QED BY <3>1, <4>2, FailForms, ZenonT(30)
    <3>2. ASSUME NEW found, Measure(found) PROVE alloc'[s].phase = alloc[s].phase
      BY <3>2, MeasureForms, Zenon DEF Probed
    <3>3. Tick => alloc'[s].phase = alloc[s].phase
      BY TickForms, Zenon
    <3> QED BY <1>4, <3>1, <3>2, <3>3, RecordsMove, Zenon
  <2> QED BY <1>0, <1>4, <2>1 DEF Fillable
<1> QED BY <1>1, <1>2, <1>3, <1>4, PlanMoves, Zenon

-----------------------------------------------------------------------------
(* The end of retrying.                                                      *)

\* The failures counted against a replica are among those that are backed off
\* from, and one that failed too often stays stopped.
Counted ==
    \A s \in Slots : /\ fails[s] <= backoff[s].failures
                     /\ fails[s] = Attempts => alloc[s].phase = "stopped"

\* A replica is deleted after it was stopped, or because it may be tried again.
Spared(p) ==
    \A k \in 1 .. Len(p) : p[k].kind = "delete" /\ p[k].slot \in Slots =>
        IF k = 1 THEN ~p[k].named => /\ alloc[p[k].slot].phase = "stopped"
                                     /\ fails[p[k].slot] < Attempts
        ELSE p[k - 1].kind = "stop" /\ p[k - 1].slot = p[k].slot

LEMMA Numbers ==
    ASSUME Sound
    PROVE  /\ Attempts \in Nat \ {0}
           /\ \A s \in Slots : fails[s] \in Nat /\ backoff[s].failures \in 0 .. Attempts
BY RolloutAssumption, Zenon DEF Sound

LEMMA ProposedSpared ==
    ASSUME Sound, Kinded, Counted, NEW p, p = Proposal, Authorized(p)
    PROVE  Spared(p)
<1>0. agent \in 1 .. Len(Agents)
  BY Zenon DEF Kinded
<1>1. CASE Adding(p)
  BY <1>1, Zenon DEF Adding, Spared
<1>2. ASSUME NEW m, NEW b, p = <<Act("cordon", 0, m, b)>>
      PROVE  Spared(p)
  <2>1. Len(p) = 1 /\ p[1].kind = "cordon" /\ \A i \in 1 .. 1 : i = 1
    BY <1>2, MarkingForms
  <2> QED BY <2>1, Zenon DEF Spared
<1>3. ASSUME NEW b \in BOOLEAN, Retiring(p, b) PROVE Spared(p)
  <2>1. PICK s \in Slots : /\ alloc[s].phase = "stopped"
                           /\ p = <<Act("delete", s, alloc[s].node, b)>>
                           /\ ~b => backoff[s].failures < Attempts
    BY <1>3, Zenon DEF Retiring
  <2>2. Len(p) = 1 /\ p[1].slot = s /\ p[1].named = b /\ \A i \in 1 .. 1 : i = 1
    BY <2>1, RetiringForms
  <2>3. ~b => fails[s] < Attempts
    BY <2>1, Numbers DEF Counted
  <2>4. ~p[1].named => fails[s] < Attempts
    BY <2>2, <2>3, Zenon
  <2> QED BY <2>1, <2>2, <2>4, Zenon DEF Spared
<1>4. ASSUME NEW b \in BOOLEAN, Replacing(p, b) PROVE Spared(p)
  <2>1. PICK s \in Slots : p = StopAndDelete(s, b)
    BY <1>4, Zenon DEF Replacing
  <2>2. /\ Len(p) = 2 /\ p[1].kind = "stop" /\ p[1].slot = s
        /\ p[2].kind = "delete" /\ p[2].slot = s /\ \A i \in 1 .. 2 : i = 1 \/ i = 2
    BY <2>1, ReplacingForms
  <2> QED BY <2>2 DEF Spared
<1> QED BY <1>0, <1>1, <1>2, <1>3, <1>4, ProposalForms, Zenon

LEMMA DeliveredCounted ==
    ASSUME Sound, Kinded, Counted, Spared(plan), Fillable(plan), Delivered, Slots' = Slots
    PROVE  Counted' /\ Spared(plan)'
<1> DEFINE a == Head(plan)
<1>1. /\ a.kind \in Kinds /\ Projected(a) /\ a = plan[1] /\ 1 \in 1 .. Len(plan)
      /\ Len(plan) \in Nat /\ Len(plan') = Len(plan) - 1
      /\ \A i \in 1 .. Len(plan') : plan'[i] = plan[i + 1] /\ i + 1 \in 1 .. Len(plan)
  BY RestForms, Zenon DEF Delivered
<1> HIDE DEF a
<1>2. UNCHANGED backoff /\ fails \in [Slots -> Nat] /\ Attempts \in Nat \ {0}
  BY Numbers, Zenon DEF Delivered, Sound
<1>3. /\ \A t \in Slots \ {a.slot} : alloc'[t] = alloc[t]
      /\ a.kind = "cordon" => UNCHANGED alloc /\ UNCHANGED fails
      /\ a.kind = "create" => UNCHANGED fails
      /\ a.kind = "start" => UNCHANGED fails
      /\ a.kind = "stop" => /\ fails' = [fails EXCEPT ![a.slot] = 0]
                            /\ a.slot \in Slots => alloc'[a.slot].phase = "stopped"
      /\ a.kind = "delete" => fails' = [fails EXCEPT ![a.slot] = IF a.named THEN 0 ELSE @]
  BY <1>1, ProjectedForms, Zenon DEF Kinds, CreatedAt, StartedAt, StoppedAt, DeletedAt
<1>4. \A t \in Slots \ {a.slot} : fails'[t] = fails[t]
  BY <1>1, <1>2, <1>3, Zenon DEF Kinds
<1>5. ASSUME a.slot \in Slots
      PROVE  /\ fails'[a.slot] <= backoff'[a.slot].failures
             /\ fails'[a.slot] = Attempts => alloc'[a.slot].phase = "stopped"
  <2> DEFINE s == a.slot
  <2>1. /\ fails[s] <= backoff[s].failures
        /\ fails[s] = Attempts => alloc[s].phase = "stopped"
        /\ fails[s] \in Nat /\ backoff[s].failures \in 0 .. Attempts
    BY <1>5, Numbers, Zenon DEF Counted
  <2>2. CASE a.kind = "cordon"
    BY <1>2, <1>3, <2>1, <2>2, Zenon
  <2>3. CASE a.kind \in {"create", "start"}
    <3>1. alloc[s].phase \in {"absent", "created"}
      <4>1. \A i \in 1 .. 1 - 1 : FALSE
        OBVIOUS
      <4> QED BY <1>1, <1>5, <2>3, <4>1, Zenon DEF Fillable
    <3>2. fails[s] # Attempts
      BY <2>1, <3>1, Zenon
    <3>3. fails' = fails /\ backoff' = backoff
      BY <1>2, <1>3, <2>3, Zenon
    <3> QED BY <2>1, <3>2, <3>3, Zenon
  <2>4. CASE a.kind = "stop"
    <3>1. fails'[s] = 0
      BY <1>2, <1>3, <1>5, <2>4, Zenon
    <3> QED BY <1>2, <2>1, <3>1
  <2>5. CASE a.kind = "delete"
    <3>1. fails'[s] = IF a.named THEN 0 ELSE fails[s]
      BY <1>2, <1>3, <1>5, <2>5, Zenon
    <3>2. ~a.named => fails[s] < Attempts
      BY <1>1, <1>5, <2>5, Zenon DEF Spared
    <3>3. CASE a.named
      <4>1. fails'[s] = 0
        BY <3>1, <3>3, Zenon
      <4> QED BY <1>2, <2>1, <4>1
    <3>4. CASE ~a.named
      <4>1. fails'[s] = fails[s] /\ fails[s] < Attempts
        BY <3>1, <3>2, <3>4, Zenon
      <4> QED BY <1>2, <2>1, <4>1
    <3> QED BY <3>3, <3>4, Zenon
  <2> QED BY <1>1, <2>2, <2>3, <2>4, <2>5, Zenon DEF Kinds
<1>6. Counted'
  <2>1. ASSUME NEW t \in Slots
        PROVE  /\ fails'[t] <= backoff'[t].failures
               /\ fails'[t] = Attempts => alloc'[t].phase = "stopped"
    <3>1. CASE t = a.slot
      BY <1>5, <3>1, Zenon
    <3>2. CASE t # a.slot
      <4>1. fails'[t] = fails[t] /\ alloc'[t] = alloc[t] /\ backoff' = backoff
        BY <1>2, <1>3, <1>4, <3>2, Zenon
      <4> QED BY <4>1, Zenon DEF Counted
    <3> QED BY <3>1, <3>2, Zenon
  <2> QED BY <2>1, Zenon DEF Counted
<1>7. ASSUME NEW k \in 1 .. Len(plan'), plan'[k].kind = "delete", plan'[k].slot \in Slots
      PROVE  IF k = 1 THEN ~plan'[k].named => /\ alloc'[plan'[k].slot].phase = "stopped"
                                              /\ fails'[plan'[k].slot] < Attempts
             ELSE plan'[k - 1].kind = "stop" /\ plan'[k - 1].slot = plan'[k].slot
  <2> DEFINE c == plan[k + 1]
  <2>1. /\ plan'[k] = c /\ k + 1 \in 1 .. Len(plan) /\ k + 1 # 1 /\ (k + 1) - 1 = k
    BY <1>1
  <2>2. plan[k].kind = "stop" /\ plan[k].slot = c.slot
    BY <1>7, <2>1, Zenon DEF Spared
  <2> HIDE DEF c
  <2>3. CASE k = 1
    <3>1. a.kind = "stop" /\ a.slot = c.slot /\ a.slot \in Slots
      BY <1>1, <1>7, <2>1, <2>2, <2>3, Zenon
    <3>2. alloc'[a.slot].phase = "stopped" /\ fails'[a.slot] = 0
      BY <1>2, <1>3, <3>1, Zenon
    <3>3. alloc'[plan'[k].slot].phase = "stopped" /\ fails'[plan'[k].slot] < Attempts
      BY <1>2, <2>1, <3>1, <3>2
    <3> QED BY <2>3, <3>3, Zenon
  <2>4. CASE k # 1
    <3>1. k - 1 \in 1 .. Len(plan') /\ (k - 1) + 1 = k
      BY <1>1, <2>4
    <3>2. plan'[k - 1] = plan[k]
      BY <1>1, <3>1, Zenon
    <3> QED BY <2>1, <2>2, <2>4, <3>2, Zenon
  <2> QED BY <2>3, <2>4, Zenon
<1> QED BY <1>6, <1>7, Zenon DEF Spared

LEMMA NextCounted ==
    ASSUME Sound, Kinded, Counted, Spared(plan), Fillable(plan), Next
    PROVE  Counted' /\ Spared(plan)'
<1>0. Slots' = Slots /\ Attempts \in Nat \ {0}
  BY PlanMoves, Numbers, Zenon DEF Slots
<1>1. CASE Delivered
  BY <1>0, <1>1, DeliveredCounted, Zenon
<1>2. ASSUME NEW s \in Slots, Fail(s)
      PROVE  /\ fails'[s] <= backoff'[s].failures /\ alloc'[s].phase = "stopped"
             /\ alloc[s].phase = "running"
  <2>1. alloc[s].phase = "running" /\ alloc'[s].phase = "stopped"
    BY <1>2, FailForms, Zenon DEF Fail
  <2>2. /\ fails[s] <= backoff[s].failures /\ fails[s] # Attempts
        /\ fails[s] \in Nat /\ backoff[s].failures \in 0 .. Attempts
    BY <2>1, Numbers, Zenon DEF Counted
  <2>3. /\ fails'[s] = fails[s] + 1
        /\ backoff'[s].failures \in {backoff[s].failures + 1, Attempts}
    BY <1>2, FailForms, Zenon
  <2> QED BY <1>0, <2>1, <2>2, <2>3
<1>3. ASSUME NEW found, Measure(found), NEW s \in Slots
      PROVE  /\ alloc'[s].phase = alloc[s].phase /\ fails'[s] \in {0, fails[s]}
             /\ \/ backoff'[s].failures = backoff[s].failures /\ fails'[s] = fails[s]
                \/ fails'[s] = 0 /\ backoff'[s].failures = 0
  <2>1. alloc'[s].phase = alloc[s].phase
    BY <1>3, MeasureForms, Zenon DEF Probed
  <2>2. \/ backoff'[s] = backoff[s] /\ fails'[s] = fails[s]
        \/ backoff'[s] = [failures |-> 0, left |-> 0] /\ fails'[s] = 0
    BY <1>3, MeasureForms, Zenon
  <2>3. backoff'[s] = [failures |-> 0, left |-> 0] => backoff'[s].failures = 0
    OBVIOUS
  <2> QED BY <2>1, <2>2, <2>3, Zenon
<1>4. ASSUME Tick, NEW s \in Slots
      PROVE  /\ alloc'[s].phase = alloc[s].phase /\ fails'[s] = fails[s]
             /\ backoff'[s].failures = backoff[s].failures
  <2>1. UNCHANGED fails
    BY <1>4, ZenonT(30) DEF Tick
  <2> QED BY <1>4, <2>1, TickForms, Zenon
<1>5. ASSUME NEW s \in Slots, ~Delivered
      PROVE  /\ fails'[s] <= backoff'[s].failures
             /\ fails'[s] = Attempts => alloc'[s].phase = "stopped"
             /\ alloc[s].phase = "stopped" =>
                  alloc'[s].phase = "stopped" /\ fails'[s] <= fails[s] /\ fails'[s] \in Nat
  <2>1. /\ fails[s] <= backoff[s].failures
        /\ fails[s] = Attempts => alloc[s].phase = "stopped"
        /\ fails[s] \in Nat /\ backoff[s].failures \in 0 .. Attempts
    BY Numbers, ZenonT(30) DEF Counted
  <2>2. CASE \E found : Measure(found)
    BY <1>0, <1>3, <2>1, <2>2, SMTT(30)
  <2>3. CASE Tick
    BY <1>4, <2>1, <2>3
  <2>4. ASSUME NEW t \in Slots, Fail(t), t # s
        PROVE  alloc'[s] = alloc[s] /\ backoff'[s] = backoff[s] /\ fails'[s] = fails[s]
    BY <2>4, FailForms, Zenon
  <2>5. CASE Fail(s)
    BY <1>2, <2>5, Zenon
  <2>6. CASE UNCHANGED <<alloc, backoff, lag, fails, disruptions>>
    BY <2>1, <2>6
  <2> QED BY <1>5, <2>1, <2>2, <2>3, <2>4, <2>5, <2>6, RecordsMove, SMTT(30)
<1>6. ASSUME ~Delivered PROVE Counted'
  BY <1>0, <1>5, <1>6, Zenon DEF Counted
<1>7. CASE plan' = <<>> /\ ~Delivered
  <2>1. Spared(plan)'
    BY <1>7 DEF Spared
  <2> QED BY <1>6, <1>7, <2>1, ZenonT(30)
<1>8. CASE plan' = Proposal /\ Turn /\ Authorized(plan') /\ ~Delivered
  <2>1. UNCHANGED alloc /\ UNCHANGED fails
    BY <1>8, TurnLeaves, Zenon
  <2>2. Spared(plan')
    BY <1>8, ProposedSpared, Zenon
  <2>3. Spared(plan)'
    BY <1>0, <2>1, <2>2, Zenon DEF Spared
  <2> QED BY <1>6, <1>8, <2>3, Zenon
<1>9. CASE UNCHANGED plan /\ ~Delivered
  <2>1. ASSUME NEW s \in Slots, alloc[s].phase = "stopped" /\ fails[s] < Attempts
        PROVE  alloc'[s].phase = "stopped" /\ fails'[s] < Attempts
    <3>1. alloc'[s].phase = "stopped" /\ fails'[s] <= fails[s] /\ fails'[s] \in Nat
      BY <1>5, <1>9, <2>1, Zenon
    <3>2. fails[s] \in Nat
      BY Numbers, Zenon
    <3> QED BY <1>0, <2>1, <3>1, <3>2
  <2>2. Spared(plan)'
    BY <1>0, <1>9, <2>1, Zenon DEF Spared
  <2> QED BY <1>6, <1>9, <2>2, Zenon
<1> QED BY <1>1, <1>7, <1>8, <1>9, PlanMoves, Zenon

Filling == Counted /\ Spared(plan) /\ Fillable(plan)

-----------------------------------------------------------------------------
(* The spread over the failure domains.                                      *)

\* The replicas of a failure domain, and those a plan still adds.
Located(al, d) == {s \in Slots : Live(al, s) /\ Domain[al[s].node] = d}
Coming(al, p, d) ==
    {s \in Slots : \/ Live(al, s) /\ Domain[al[s].node] = d
                   \/ \E i \in 1 .. Len(p) : /\ p[i].kind = "create" /\ p[i].slot = s
                                             /\ Domain[p[i].at] = d}

\* What remains of a plan fits the ceiling, whenever it is done.
Spaced == Ceiling > 0 => \A n \in Nodes : Cardinality(Coming(alloc, plan, Domain[n])) <= Ceiling

LEMMA FewerFit ==
    ASSUME Arithmetic, case \in Cases, NEW S \in SUBSET Slots, NEW T \in SUBSET S, Cardinality(S) <= Ceiling
    PROVE  Cardinality(T) <= Ceiling
<1>1. IsFiniteSet(S)
  BY SlotsFinite, PartCounts, Zenon
<1>2. IsFiniteSet(T) /\ Cardinality(T) <= Cardinality(S)
  BY <1>1, PartCounts, Zenon
<1>3. Cardinality(S) \in Nat /\ Cardinality(T) \in Nat /\ Ceiling \in Nat
  BY <1>1, <1>2, CountIsNat, RolloutAssumption, Zenon
<1> QED BY <1>2, <1>3

\* The simulated worlds of an authorized plan that adds replicas keep the ceiling.
LEMMA SimulationFits ==
    ASSUME Sound, NEW p, Adding(p), Authorized(p), Ceiling > 0, NEW d,
           Cardinality(Located(alloc, d)) <= Ceiling, NEW sim, sim = Simulation(p)
    PROVE  \A k \in 0 .. Len(p) : Cardinality(Located(sim[k], d)) <= Ceiling
<1> Arithmetic /\ case \in Cases
  BY Zenon DEF Sound
<1> DEFINE Good(k) == Cardinality(Located(sim[k], d)) <= Ceiling
           bad == {k \in Nat : k <= Len(p) /\ ~Good(k)}
           m == Min(bad)
<1>0. Len(p) \in Nat /\ case \in Cases /\ Ceiling \in Nat
  BY RolloutAssumption DEF Adding, Sound
<1>1. /\ sim[0] = alloc
      /\ \A k \in 1 .. Len(p) : /\ sim[k] = SimulateAction(sim[k - 1], p[k])
                                 /\ ValidateAction(sim[k - 1], p[k])
                                 /\ p[k].kind \in {"create", "start"}
  BY <1>0, SimulationForms, Zenon DEF Authorized, Adding
<1>2. ASSUME NEW k \in 1 .. Len(p), Good(k - 1) PROVE Good(k)
  <2> DEFINE al == sim[k - 1]
             b == sim[k]
             act == p[k]
  <2>1. k - 1 \in 0 .. Len(p)
    BY <1>0
  <2>2. /\ b = SimulateAction(al, act) /\ ValidateAction(al, act)
        /\ act.kind \in {"create", "start"} /\ Formed(al)
    BY <1>1, <2>1, SimulationLeads, Zenon
  <2>3. Located(al, d) \in SUBSET Slots /\ Cardinality(Located(al, d)) <= Ceiling
    BY <1>2, Zenon DEF Located
  <2> HIDE DEF al, b, act
  <2>4. /\ \A t \in Slots \ {act.slot} : b[t] = al[t]
        /\ act.slot \in Slots =>
             /\ act.kind = "create" => b[act.slot].node = act.at
             /\ act.kind = "start" => b[act.slot].node = al[act.slot].node
    BY <2>2, SimulatedForms
  <2>5. CASE act.kind = "create" /\ act.slot \in Slots /\ Domain[act.at] = d
    <3>1. DomainOccupancy(al, d) < Ceiling
      BY <2>2, <2>5, Zenon DEF ValidateAction, MayCreate
    <3>2. Cardinality(Located(al, d)) < Ceiling
      BY <3>1, Zenon DEF DomainOccupancy, Located
    <3>3. IsFiniteSet(Located(al, d)) /\ Cardinality(Located(al, d)) \in Nat
      BY <1>0, <2>3, SlotsFinite, PartCounts, CountIsNat, Zenon
    <3> DEFINE more == Located(al, d) \cup {act.slot}
    <3>4. Cardinality(more) <= Ceiling
      <4>1. Cardinality(more) \in {Cardinality(Located(al, d)), Cardinality(Located(al, d)) + 1}
        BY <3>3, OneMore, Zenon
      <4> QED BY <1>0, <3>2, <3>3, <4>1
    <3>5. Located(b, d) \in SUBSET more /\ more \in SUBSET Slots
      BY <2>4, <2>5, Zenon DEF Located, Live
    <3> HIDE DEF more
    <3>6. Cardinality(Located(b, d)) <= Ceiling
      BY <1>0, <3>4, <3>5, FewerFit, Zenon
    <3> QED BY <3>6, Zenon DEF b
  <2>6. CASE ~(act.kind = "create" /\ act.slot \in Slots /\ Domain[act.at] = d)
    <3>1. ASSUME NEW t \in Slots, Live(b, t), Domain[b[t].node] = d, t = act.slot
          PROVE  Live(al, t) /\ Domain[al[t].node] = d
      <4>1. act.kind = "start"
        <5>1. act.kind = "create" => b[t].node = act.at
          BY <2>4, <3>1, Zenon
        <5> QED BY <2>2, <2>6, <3>1, <5>1, Zenon
      <4>2. b[t].node = al[t].node
        BY <2>4, <3>1, <4>1, Zenon
      <4>3. al[t].phase = "created"
        BY <2>2, <3>1, <4>1, Zenon DEF ValidateAction
      <4> QED BY <3>1, <4>2, <4>3, Zenon DEF Live
    <3>2. Located(b, d) \in SUBSET Located(al, d)
      BY <2>4, <3>1, Zenon DEF Located, Live
    <3>3. Cardinality(Located(b, d)) <= Ceiling
      BY <1>0, <2>3, <3>2, FewerFit, Zenon
    <3> QED BY <3>3, Zenon DEF b
  <2> QED BY <2>5, <2>6, Zenon
<1>3. Good(0)
  BY <1>1, Zenon
<1> HIDE DEF Good
<1>4. SUFFICES ASSUME bad # {} PROVE FALSE
  <2>1. ASSUME bad = {}, NEW k \in 0 .. Len(p) PROVE Good(k)
    BY <1>0, <2>1
  <2> QED BY <2>1, Zenon DEF Good
<1>5. m \in bad /\ \A k \in bad : m <= k
  <2>1. bad \in SUBSET Nat
    BY Zenon
  <2> QED BY <1>4, <2>1, MinimumOf, Zenon
<1>6. m # 0
  BY <1>3, <1>5, Zenon
<1>7. m \in 1 .. Len(p) /\ m - 1 \in Nat /\ m - 1 <= Len(p) /\ ~(m <= m - 1)
  BY <1>0, <1>5, <1>6
<1>8. Good(m - 1)
  BY <1>5, <1>7, Zenon
<1> QED BY <1>2, <1>5, <1>7, <1>8, Zenon

\* What a plan that adds replicas adds is there at the end of its simulation.
LEMMA AddedThere ==
    ASSUME Sound, NEW p, Adding(p), Authorized(p), NEW d, NEW sim, sim = Simulation(p)
    PROVE  Coming(alloc, p, d) \in SUBSET Located(sim[Len(p)], d)
<1> Arithmetic /\ case \in Cases
  BY Zenon DEF Sound
<1>0. Len(p) \in Nat /\ 0 \in 0 .. Len(p) /\ Len(p) \in 0 .. Len(p)
  BY DEF Adding
<1>1. sim[0] = alloc /\ Leads(sim[0], sim[Len(p)])
  BY <1>0, SimulationForms, SimulationLeads, Zenon
<1>2. ASSUME NEW s \in Slots, NEW i \in 1 .. Len(p), p[i].kind = "create", p[i].slot = s,
             Domain[p[i].at] = d
      PROVE  Live(sim[Len(p)], s) /\ Domain[sim[Len(p)][s].node] = d
  <2>1. i \in 0 .. Len(p) /\ i - 1 \in 0 .. Len(p)
    BY <1>0
  <2>2. /\ sim[i] = SimulateAction(sim[i - 1], p[i]) /\ Formed(sim[i - 1])
        /\ Leads(sim[i], sim[Len(p)])
    BY <1>0, <2>1, SimulationForms, SimulationLeads, ZenonT(30)
  <2>3. sim[i][s].phase = "created" /\ sim[i][s].node = p[i].at
    BY <1>2, <2>2, SimulatedForms
  <2>4. Live(sim[i], s)
    BY <2>3, Zenon DEF Live
  <2>5. Live(sim[Len(p)], s) /\ sim[Len(p)][s].node = sim[i][s].node
    BY <2>2, <2>4, Zenon DEF Leads
  <2> QED BY <1>2, <2>3, <2>5, Zenon
<1> QED BY <1>1, <1>2, Zenon DEF Coming, Located, Leads

LEMMA ProposedSpaced ==
    ASSUME Sound, Kinded, Spaced, Ceiling > 0, NEW n \in Nodes, NEW p, p = Proposal, Authorized(p)
    PROVE  Cardinality(Coming(alloc, p, Domain[n])) <= Ceiling
<1> Arithmetic /\ case \in Cases
  BY Zenon DEF Sound
<1> DEFINE d == Domain[n]
<1>0. agent \in 1 .. Len(Agents) /\ case \in Cases
  BY Zenon DEF Kinded, Sound
<1>1. Cardinality(Located(alloc, d)) <= Ceiling
  <2>1. Located(alloc, d) \in SUBSET Coming(alloc, plan, d) /\ Coming(alloc, plan, d) \in SUBSET Slots
    BY Zenon DEF Located, Coming
  <2>2. Cardinality(Coming(alloc, plan, d)) <= Ceiling
    BY Zenon DEF Spaced
  <2> QED BY <1>0, <2>1, <2>2, FewerFit, Zenon
<1> HIDE DEF d
<1>2. CASE Adding(p)
  <2>1. Len(p) \in 0 .. Len(p)
    BY <1>2 DEF Adding
  <2> DEFINE S == Located(Simulation(p)[Len(p)], d)
  <2>2. Cardinality(S) <= Ceiling /\ Coming(alloc, p, d) \in SUBSET S
    BY <1>1, <1>2, <2>1, SimulationFits, AddedThere, Zenon
  <2>3. S \in SUBSET Slots
    BY Zenon DEF Located
  <2> HIDE DEF S
  <2>4. Cardinality(Coming(alloc, p, d)) <= Ceiling
    BY <1>0, <2>2, <2>3, FewerFit, Zenon
  <2> QED BY <2>4, Zenon DEF d
<1>3. ASSUME \A i \in 1 .. Len(p) : p[i].kind # "create"
      PROVE  Cardinality(Coming(alloc, p, Domain[n])) <= Ceiling
  <2>1. Coming(alloc, p, d) = Located(alloc, d)
    BY <1>3, Zenon DEF Coming, Located
  <2> QED BY <1>1, <2>1, Zenon DEF d
<1>4. ASSUME NEW m, NEW b, p = <<Act("cordon", 0, m, b)>>
      PROVE  \A i \in 1 .. Len(p) : p[i].kind # "create"
  <2>1. Len(p) = 1 /\ p[1].kind = "cordon" /\ \A i \in 1 .. 1 : i = 1
    BY <1>4, MarkingForms
  <2> QED BY <2>1, Zenon
<1>5. ASSUME NEW b \in BOOLEAN, Retiring(p, b)
      PROVE  \A i \in 1 .. Len(p) : p[i].kind # "create"
  <2>1. PICK s \in Slots : p = <<Act("delete", s, alloc[s].node, b)>>
    BY <1>5, Zenon DEF Retiring
  <2>2. Len(p) = 1 /\ p[1].kind = "delete" /\ \A i \in 1 .. 1 : i = 1
    BY <2>1, RetiringForms
  <2> QED BY <2>2, Zenon
<1>6. ASSUME NEW b \in BOOLEAN, Replacing(p, b)
      PROVE  \A i \in 1 .. Len(p) : p[i].kind # "create"
  <2>1. PICK s \in Slots : p = StopAndDelete(s, b)
    BY <1>6, Zenon DEF Replacing
  <2>2. /\ Len(p) = 2 /\ p[1].kind = "stop" /\ p[2].kind = "delete"
        /\ \A i \in 1 .. 2 : i = 1 \/ i = 2
    BY <2>1, ReplacingForms
  <2> QED BY <2>2, Zenon
<1> QED BY <1>0, <1>2, <1>3, <1>4, <1>5, <1>6, ProposalForms, Zenon

\* A step that is not a turn adds nothing to what is coming.
LEMMA ComingShrinks ==
    ASSUME Sound, Kinded, Filling, Next, plan' = <<>> \/ UNCHANGED plan \/ Delivered,
           Slots' = Slots, NEW d
    PROVE  Coming(alloc, plan, d)' \in SUBSET Coming(alloc, plan, d)
<1> USE DEF Coming
<1>1. CASE Delivered
  <2> DEFINE a == Head(plan)
  <2>1. /\ a.kind \in Kinds /\ Projected(a) /\ a = plan[1] /\ 1 \in 1 .. Len(plan)
        /\ \A i \in 1 .. Len(plan') : plan'[i] = plan[i + 1] /\ i + 1 \in 1 .. Len(plan)
    BY <1>1, RestForms, Zenon DEF Delivered
  <2> HIDE DEF a
  <2>2. \A t \in Slots \ {a.slot} : alloc'[t] = alloc[t]
    BY <2>1, ProjectedForms, Zenon DEF Kinds
  <2>3. ASSUME a.slot \in Slots, Live(alloc', a.slot), Domain[alloc'[a.slot].node] = d
        PROVE  \/ Live(alloc, a.slot) /\ Domain[alloc[a.slot].node] = d
               \/ a.kind = "create" /\ Domain[a.at] = d
    <3>1. CASE a.kind = "cordon"
      BY <2>1, <2>3, <3>1, ProjectedForms, Zenon
    <3>2. CASE a.kind = "create"
      <4>1. alloc'[a.slot].node = a.at
        BY <2>1, <2>3, <3>2, ProjectedForms, Zenon DEF CreatedAt
      <4> QED BY <2>3, <3>2, <4>1, Zenon
    <3>3. CASE a.kind = "start"
      <4>1. alloc'[a.slot].node = alloc[a.slot].node
        BY <2>1, <2>3, <3>3, ProjectedForms, Zenon DEF StartedAt
      <4>2. alloc[a.slot].phase = "created"
        <5>1. \A i \in 1 .. 1 - 1 : FALSE
          OBVIOUS
        <5> QED BY <2>1, <2>3, <3>3, <5>1, Zenon DEF Filling, Fillable
      <4> QED BY <2>3, <4>1, <4>2, Zenon DEF Live
    <3>4. CASE a.kind \in {"stop", "delete"}
      <4>1. alloc'[a.slot].phase \in {"stopped", "absent"}
        BY <2>1, <2>3, <3>4, ProjectedForms, AbsentForms, Zenon DEF StoppedAt, DeletedAt
      <4> QED BY <2>3, <4>1, Zenon DEF Live
    <3> QED BY <2>1, <3>1, <3>2, <3>3, <3>4, Zenon DEF Kinds
  <2>4. ASSUME NEW s \in Slots, Live(alloc', s), Domain[alloc'[s].node] = d
        PROVE  s \in Coming(alloc, plan, d)
    <3>1. CASE s = a.slot
      BY <2>1, <2>3, <2>4, <3>1, Zenon
    <3>2. CASE s # a.slot
      BY <2>2, <2>4, <3>2, Zenon DEF Live
    <3> QED BY <3>1, <3>2, Zenon
  <2>5. ASSUME NEW s \in Slots, NEW i \in 1 .. Len(plan'), plan'[i].kind = "create",
               plan'[i].slot = s, Domain[plan'[i].at] = d
        PROVE  s \in Coming(alloc, plan, d)
    <3>1. plan'[i] = plan[i + 1] /\ i + 1 \in 1 .. Len(plan)
      BY <2>1, Zenon
    <3> QED BY <2>5, <3>1, Zenon
  <2> QED BY <2>4, <2>5, Zenon DEF Live
<1>2. CASE ~Delivered
  <2>1. ASSUME NEW s \in Slots, Live(alloc', s)
        PROVE  Live(alloc, s) /\ alloc'[s].node = alloc[s].node
    <3>1. ASSUME NEW t \in Slots, Fail(t), t # s PROVE alloc'[s] = alloc[s]
      BY <3>1, FailForms, Zenon
    <3>2. ~Fail(s)
      <4>1. Fail(s) => alloc'[s].phase = "stopped"
        BY FailForms, Zenon
      <4> QED BY <2>1, <4>1, Zenon DEF Live
    <3>3. ASSUME NEW found, Measure(found)
          PROVE  alloc'[s].phase = alloc[s].phase /\ alloc'[s].node = alloc[s].node
      BY <3>3, MeasureForms, Zenon DEF Probed
    <3>4. Tick => alloc'[s].phase = alloc[s].phase /\ alloc'[s].node = alloc[s].node
      BY TickForms, Zenon
    <3> QED BY <1>2, <2>1, <3>1, <3>2, <3>3, <3>4, RecordsMove, Zenon DEF Live
  <2>2. \A i \in 1 .. Len(plan') : i \in 1 .. Len(plan) /\ plan'[i] = plan[i]
    BY <1>2
  <2> QED BY <2>1, <2>2, ZenonT(30) DEF Live
<1> QED BY <1>1, <1>2, Zenon

LEMMA NextSpaced ==
    ASSUME Sound, Kinded, Filling, Spaced, Next
    PROVE  Spaced'
<1> Arithmetic /\ case \in Cases
  BY Zenon DEF Sound
<1>0. Slots' = Slots /\ case \in Cases
  BY PlanMoves, Zenon DEF Slots, Sound
<1>1. ASSUME Ceiling > 0, NEW n \in Nodes
      PROVE  Cardinality(Coming(alloc, plan, Domain[n])') <= Ceiling
  <2>1. CASE plan' = <<>> \/ UNCHANGED plan \/ Delivered
    <3>1. Coming(alloc, plan, Domain[n])' \in SUBSET Coming(alloc, plan, Domain[n])
      BY <1>0, <2>1, ComingShrinks, Zenon
    <3>2. Cardinality(Coming(alloc, plan, Domain[n])) <= Ceiling
      BY <1>1, Zenon DEF Spaced
    <3>3. Coming(alloc, plan, Domain[n]) \in SUBSET Slots
      BY Zenon DEF Coming
    <3> QED BY <1>0, <3>1, <3>2, <3>3, FewerFit, Zenon
  <2>2. CASE plan' = Proposal /\ Turn /\ Authorized(plan')
    <3>1. UNCHANGED alloc
      BY <2>2, TurnLeaves, Zenon
    <3>2. Cardinality(Coming(alloc, plan', Domain[n])) <= Ceiling
      BY <1>1, <2>2, ProposedSpaced, Zenon
    <3>3. Coming(alloc, plan, Domain[n])' = Coming(alloc, plan', Domain[n])
      BY <1>0, <3>1, Zenon DEF Coming, Live
    <3> QED BY <3>2, <3>3, Zenon
  <2> QED BY <2>1, <2>2, PlanMoves, Zenon
<1> QED BY <1>1, Zenon DEF Spaced

-----------------------------------------------------------------------------
(* The invariants over time.                                                *)

LEMMA TimelyAlways ==
    ASSUME Arithmetic
    PROVE  Spec => [](Sound /\ Kinded /\ Timely)
<1>1. Init => Timely
  BY AbsentForms DEF Init, Timely, Up
<1>2. Sound /\ Kinded /\ Timely /\ [Next]_vars => Timely'
  <2>1. ASSUME Timely, UNCHANGED vars PROVE Timely'
    BY <2>1, Zenon DEF vars, world, reality, Timely, Up, Slots
  <2> QED BY <2>1, NextTimely, Zenon
<1> QED BY <1>1, <1>2, InitSound, SoundStep, PTL DEF Spec

LEMMA AchievedOnes ==
    ASSUME Arithmetic
    PROVE  Spec => AchievedServed
<1> DEFINE Served == outcome' = "achieved" /\ outcome # "achieved" =>
              \A s \in Slots : alloc'[s].image = CompensatedGoal(asked) /\ lag[s] < TTL
<1>1. ASSUME Sound, Kinded, Timely, StartRound, outcome' = "achieved", outcome # "achieved",
             NEW s \in Slots
      PROVE  alloc'[s].image = CompensatedGoal(asked) /\ lag[s] < TTL
  <2>1. GoalAchieved(alloc', CompensatedGoal(asked))
    BY <1>1, Zenon DEF StartRound
  <2>2. alloc'[s].ready > 0 /\ alloc'[s].image = CompensatedGoal(asked)
    BY <2>1, Zenon DEF GoalAchieved
  <2>3. TTL \in Nat \ {0} /\ lag[s] \in Nat /\ alloc[s].ready \in Nat
    BY <1>1, RolloutAssumption, Zenon DEF Sound, Shaped
  <2>4. CASE alloc'[s] = alloc[s]
    <3>1. alloc[s].ready > 0 /\ alloc[s].ready + lag[s] <= TTL
      BY <1>1, <2>2, <2>4, Zenon DEF Timely
    <3> QED BY <2>2, <2>3, <3>1
  <2>5. CASE Probed(s)
    <3>1. lag[s] = 0
      BY <1>1, <2>2, <2>5, SMTT(30) DEF Probed, Timely
    <3> QED BY <2>2, <2>3, <3>1, SMTT(30)
  <2> QED BY <1>1, <2>4, <2>5, MeasureForms, Zenon DEF StartRound
<1>2. ASSUME Next, outcome' = "achieved", outcome # "achieved"
      PROVE  StartRound
  BY <1>2, ZenonT(30)
     DEF Next, Engine, Begin, Turn, Execute, Verify, Tick, Fail, Die, Disconnect,
              Reconnect, SetCordon, Submit, Approve, Revoke, Decide, Return, Advance, engine
<1>3. Sound /\ Kinded /\ Timely /\ [Next]_vars => [Served]_vars
  BY <1>1, <1>2, Zenon
<1>4. Spec => [][Served]_vars
  <2> HIDE DEF Served
  <2> QED BY <1>3, TimelyAlways, PTL DEF Spec
<1> QED BY <1>4, Zenon DEF AchievedServed

LEMMA FloorHolds ==
    ASSUME Arithmetic
    PROVE  Spec => FloorServed
<1> DEFINE Above == pc = "turn" /\ pc' = "execute" =>
          \A i \in DOMAIN plan' :
             LET s == plan'[i].slot IN
             plan'[i].kind = "stop" /\ (alloc[s].ready > 0 \/ ~node[alloc[s].node].cordoned)
                => Cardinality({t \in Slots \ {s} : lag[t] < TTL}) >= Floor
<1>1. ASSUME Next, pc = "turn", pc' = "execute"
      PROVE  plan' = Proposal /\ Authorized(plan')
  <2>1. Turn
    BY <1>1, Zenon DEF Next, Engine, Begin, StartRound, Execute, Verify, Tick, Fail, Die, Disconnect,
                Reconnect, SetCordon, Submit, Approve, Revoke, Decide, engine
  <2> QED BY <1>1, <2>1, Zenon DEF Turn, Return, Advance
<1>2. Sound /\ Kinded /\ Timely /\ [Next]_vars => [Above]_vars
  BY <1>1, FloorAtTurn, Zenon
<1>3. Spec => [][Above]_vars
  <2> HIDE DEF Above
  <2> QED BY <1>2, TimelyAlways, PTL DEF Spec
<1> QED BY <1>3, PTL DEF FloorServed

LEMMA BudgetHolds ==
    ASSUME Arithmetic
    PROVE  Spec => []BudgetKept
<1>1. Init => Braked
  <2>1. <<>> \in Seq({}) /\ Len(<<>>) = 0 /\ MaxDisruptions \in Nat
    BY RolloutAssumption
  <2> QED BY <2>1 DEF Init, Braked, Noted, Apart, Tame
<1>2. Sound /\ Kinded /\ Braked /\ [Next]_vars => Braked'
  <2>1. ASSUME Braked, UNCHANGED vars PROVE Braked'
    <3>1. UNCHANGED disruptions /\ UNCHANGED alloc /\ UNCHANGED plan /\ Slots' = Slots
      BY <2>1, Zenon DEF vars, world, engine, Slots
    <3> QED BY <2>1, <3>1, Zenon DEF Braked, Noted, Apart, Recent, Tame, Clearing, Room
  <2> QED BY <2>1, NextBraked, Zenon
<1>3. Braked => BudgetKept
  <2>1. ASSUME Braked PROVE DOMAIN disruptions = 1 .. Len(disruptions)
    BY <2>1 DEF Braked, Noted
  <2> QED BY <2>1, Zenon DEF Braked, BudgetKept, Apart, Recent
<1> QED BY <1>1, <1>2, <1>3, InitSound, SoundStep, PTL DEF Spec

LEMMA FillingAlways ==
    ASSUME Arithmetic
    PROVE  Spec => [](Sound /\ Kinded /\ Filling)
<1>1. Init => Filling
  <2>1. ASSUME Init PROVE Counted
    <3>1. Attempts # 0
      BY RolloutAssumption, Zenon
    <3>2. \A s \in Slots : fails[s] = 0 /\ backoff[s].failures = 0
      BY <2>1, Zenon DEF Init
    <3> QED BY <3>1, <3>2 DEF Counted
  <2>2. ASSUME Init PROVE Spared(plan) /\ Fillable(plan)
    BY <2>2 DEF Init, Spared, Fillable
  <2> QED BY <2>1, <2>2, Zenon DEF Filling
<1>2. Sound /\ Kinded /\ Filling /\ [Next]_vars => Filling'
  <2>1. ASSUME Filling, UNCHANGED vars PROVE Filling'
    <3>1. /\ UNCHANGED alloc /\ UNCHANGED plan /\ UNCHANGED fails /\ UNCHANGED backoff
          /\ Slots' = Slots
      BY <2>1, Zenon DEF vars, world, engine, reality, Slots
    <3>2. Counted /\ Spared(plan) /\ Fillable(plan)
      BY <2>1, Zenon DEF Filling
    <3>3. Counted'
      BY <3>1, <3>2, Zenon DEF Counted
    <3>4. Spared(plan)'
      BY <3>1, <3>2, Zenon DEF Spared
    <3>5. Fillable(plan)'
      BY <3>1, <3>2, ZenonT(30) DEF Fillable
    <3> QED BY <3>3, <3>4, <3>5, Zenon DEF Filling
  <2> QED BY <2>1, NextCounted, NextFillable, Zenon DEF Filling
<1> QED BY <1>1, <1>2, InitSound, SoundStep, PTL DEF Spec

LEMMA RetriesRunOut ==
    ASSUME Arithmetic
    PROVE  Spec => []GivesUp
<1>1. Sound /\ Filling => GivesUp
  <2>1. ASSUME Sound, Filling, NEW s \in Slots PROVE fails[s] <= Attempts
    <3>1. /\ fails[s] <= backoff[s].failures /\ Attempts \in Nat
          /\ fails[s] \in Nat /\ backoff[s].failures \in 0 .. Attempts
      BY <2>1, Numbers, Zenon DEF Filling, Counted
    <3> QED BY <3>1
  <2> QED BY <2>1, Zenon DEF GivesUp
<1> QED BY <1>1, FillingAlways, PTL

LEMMA SpreadHolds ==
    ASSUME Arithmetic
    PROVE  Spec => []SpreadHeld
<1>1. Init => Spaced
  <2> SUFFICES ASSUME Init, Ceiling > 0, NEW n \in Nodes
               PROVE  Cardinality(Coming(alloc, plan, Domain[n])) <= Ceiling
    BY Zenon DEF Spaced
  <2>1. \A s \in Slots : alloc[s].phase = "absent"
    BY AbsentForms, Zenon DEF Init
  <2>2. plan = <<>>
    BY Zenon DEF Init
  <2>3. Coming(alloc, plan, Domain[n]) = {}
    BY <2>1, <2>2 DEF Coming, Live
  <2>4. Cardinality({}) = 0 /\ Ceiling \in Nat
    BY Finite, RolloutAssumption, Zenon DEF Arithmetic
  <2> QED BY <2>3, <2>4
<1>2. Sound /\ Kinded /\ Filling /\ Spaced /\ [Next]_vars => Spaced'
  <2>1. ASSUME Spaced, UNCHANGED vars PROVE Spaced'
    <3>1. UNCHANGED alloc /\ UNCHANGED plan /\ Slots' = Slots
      BY <2>1, Zenon DEF vars, world, engine, Slots
    <3> QED BY <2>1, <3>1, Zenon DEF Spaced, Coming, Live
  <2> QED BY <2>1, NextSpaced, Zenon
<1>3. Sound /\ Spaced => SpreadHeld
  <2> SUFFICES ASSUME Sound, Spaced, Ceiling > 0, NEW n \in Nodes
               PROVE  Cardinality(Located(alloc, Domain[n])) <= Ceiling
    BY Zenon DEF SpreadHeld, Located
  <2>1. /\ Located(alloc, Domain[n]) \in SUBSET Coming(alloc, plan, Domain[n])
        /\ Coming(alloc, plan, Domain[n]) \in SUBSET Slots
    BY Zenon DEF Located, Coming
  <2>2. Cardinality(Coming(alloc, plan, Domain[n])) <= Ceiling
    BY Zenon DEF Spaced
  <2> QED BY <2>1, <2>2, FewerFit, Zenon DEF Sound
<1> QED BY <1>1, <1>2, <1>3, FillingAlways, PTL DEF Spec

-----------------------------------------------------------------------------
(* Numbers and sets, from the library.                                       *)

LOCAL INSTANCE FiniteSetTheorems

LEMMA ArithmeticHolds == Arithmetic
<1> DEFINE less == OpToRel(<, Nat)
<1>1. ASSUME NEW S \in SUBSET Nat, S # {}
      PROVE  \E x \in S : \A y \in S : x <= y
  <2>1. IsWellFoundedOn(less, Nat)
    BY NatLessThanWellFounded, Zenon
  <2> HIDE DEF less
  <2>2. PICK x \in S : \A y \in S : ~(<<y, x>> \in less)
    BY <1>1, <2>1, WFMin, Zenon
  <2>3. ASSUME NEW y \in S PROVE x <= y
    <3>1. x \in Nat /\ y \in Nat /\ <<y, x>> \in Nat \X Nat
      BY Zenon
    <3>2. y < x => <<y, x>> \in less
      BY <3>1, Zenon DEF OpToRel, less
    <3> QED BY <2>2, <3>1, <3>2, SMTT(30)
  <2> QED BY <2>3, Zenon
<1>2. ASSUME NEW n \in Nat
      PROVE  IsFiniteSet(1 .. n) /\ Cardinality(1 .. n) = n /\ IsFiniteSet(0 .. n - 1)
  <2>1. 1 \in Int /\ 0 \in Int /\ n \in Int /\ n - 1 \in Int
    OBVIOUS
  <2>2. IsFiniteSet(1 .. n) /\ Cardinality(1 .. n) = IF 1 > n THEN 0 ELSE n - 1 + 1
    BY <2>1, FS_Interval, Zenon
  <2>3. IsFiniteSet(0 .. n - 1)
    BY <2>1, FS_Interval, Zenon
  <2> QED BY <2>2, <2>3, SMTT(30)
<1>3. ASSUME NEW S, IsFiniteSet(S)
      PROVE  /\ Cardinality(S) \in Nat
             /\ \A T \in SUBSET S : IsFiniteSet(T) /\ Cardinality(T) <= Cardinality(S)
  BY <1>3, FS_CardinalityType, FS_Subset, Zenon
<1>4. ASSUME NEW S, IsFiniteSet(S), NEW x
      PROVE  /\ IsFiniteSet(S \cup {x}) /\ IsFiniteSet(S \ {x})
             /\ x \in S => Cardinality(S \ {x}) = Cardinality(S) - 1
             /\ x \notin S => Cardinality(S \cup {x}) = Cardinality(S) + 1
  BY <1>4, FS_AddElement, FS_RemoveElement, Zenon
<1>5. IsFiniteSet({}) /\ Cardinality({}) = 0
  BY FS_EmptySet, Zenon
<1>6. \A S : (IsFiniteSet(S) <=> Listable(S)) /\ Cardinality(S) = Tally(S)
  <2>1. ASSUME NEW S PROVE IsFiniteSet(S) <=> Listable(S)
    BY Zenon DEF IsFiniteSet, Listable
  <2>2. ASSUME NEW S PROVE Cardinality(S) = Tally(S)
    BY Zenon DEF Cardinality, Tally
  <2> QED BY <2>1, <2>2, Zenon
<1>7. \A n \in Nat : Listable(1 .. n) /\ Tally(1 .. n) = n /\ Listable(0 .. n - 1)
  BY <1>2, <1>6, Zenon
<1>8. ASSUME NEW S, Listable(S)
      PROVE  /\ Tally(S) \in Nat
             /\ \A T \in SUBSET S : Listable(T) /\ Tally(T) <= Tally(S)
             /\ \A x : Listable(S \cup {x}) /\ Listable(S \ {x})
             /\ \A x \in S : Tally(S \ {x}) = Tally(S) - 1
             /\ \A x : x \notin S => Tally(S \cup {x}) = Tally(S) + 1
  BY <1>3, <1>4, <1>6, <1>8, Zenon
<1>9. Listable({}) /\ Tally({}) = 0
  BY <1>5, <1>6, Zenon
<1> HIDE DEF less
<1> QED BY <1>1, <1>7, <1>8, <1>9, ZenonT(30) DEF Arithmetic

-----------------------------------------------------------------------------
(* The theorems.                                                             *)

\* A goal is reported achieved only when every replica runs the image the round
\* worked towards and served less than a readiness TTL ago: a measurement lasts no
\* longer than that, whatever fails unnoticed in between (goalAchieved, ReadyAt).
THEOREM AchievementsServe == Spec => AchievedServed
  BY ArithmeticHolds, AchievedOnes, Zenon

\* When the stop of a ready replica, or of one on a node in service, is authorized,
\* as many others as the floor asks for served less than a readiness TTL ago, for
\* every number of replicas and however the processes and the nodes fail
\* (validateStopAllocation, RolloutAgent.Propose).
THEOREM FloorIsServed == Spec => FloorServed
  BY ArithmeticHolds, FloorHolds, Zenon

\* No window holds more disruptions than the policy allows, and two of different
\* failure domains are never closer than a cooldown, for every policy and whichever
\* agents proposed them: the budget is checked when a plan is authorized, and what
\* remains of it still fits whenever an action of it is carried out
\* (checkDisruptionBudget, recordDisruption).
THEOREM BudgetIsKept == Spec => []BudgetKept
  BY ArithmeticHolds, BudgetHolds, Zenon

\* A replica that is never ready fails at most MaxRemediationAttempts times before
\* it is left for an operator, for every bound on the attempts and whatever the
\* operators, the rollout and the placement do in between (retirableAllocation,
\* recordFailure).
THEOREM RetryingEnds == Spec => []GivesUp
  BY ArithmeticHolds, RetriesRunOut, Zenon

\* A failure domain never holds more live replicas than the goal's spread allows, for
\* every assignment of nodes to domains and every ceiling: what the kernel admits on
\* the simulated world still fits when it is carried out, whatever fails or is
\* evacuated in between (checkSpread, DomainOccupancy).
THEOREM SpreadIsHeld == Spec => []SpreadHeld
  BY ArithmeticHolds, SpreadHolds, Zenon

=============================================================================
