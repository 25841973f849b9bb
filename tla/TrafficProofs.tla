--------------------------- MODULE TrafficProofs ---------------------------
(***************************************************************************)
(* What traffic may rely on, for any number of nodes, workloads, replicas, *)
(* canary steps, changes and faults: the age of what it is sent to, the    *)
(* rules in force before names are given out, the routes, and the pace at  *)
(* which a new version takes over.                                         *)
(***************************************************************************)
EXTENDS Traffic, TLAPS

\* A set of natural numbers has a least one.  The library's theorem that establishes
\* it is brought in at the end of the module, where it is proved, and not before:
\* every step of a proof carries all that precedes it.
LeastMembers == \A S \in SUBSET Nat : S # {} => \E x \in S : \A y \in S : x <= y

\* A replica's record.
Shaped(r) ==
    /\ r = [phase |-> r.phase, node |-> r.node, image |-> r.image, ready |-> r.ready,
            left |-> r.left, since |-> r.since]
    /\ r.left \in Nat /\ r.since \in Nat

\* What is remembered ready runs on a node.
Sound ==
    /\ case \in Cases /\ connected \subseteq Nodes
    /\ alloc = [s \in Slots |-> alloc[s]]
    /\ \A s \in Slots : /\ Shaped(alloc[s])
                        /\ alloc[s].ready => alloc[s].phase = "running" /\ alloc[s].node \in Nodes

Lesser(a, b) == Min({a, b})
Greater(a, b) == Max({a, b})

LEMMA Least ==
    ASSUME NEW a \in Int, NEW b \in Int
    PROVE  /\ Lesser(a, b) \in {a, b} /\ Lesser(a, b) <= a /\ Lesser(a, b) <= b
           /\ Greater(a, b) \in {a, b} /\ Greater(a, b) >= a /\ Greater(a, b) >= b
<1>1. \E x \in {a, b} : \A y \in {a, b} : x <= y
  <2>1. CASE a <= b
    BY <2>1
  <2>2. CASE b <= a
    BY <2>2
  <2> QED BY <2>1, <2>2
<1>2. \E x \in {a, b} : \A y \in {a, b} : x >= y
  <2>1. CASE a <= b
    BY <2>1
  <2>2. CASE b <= a
    BY <2>2
  <2> QED BY <2>1, <2>2
<1>3. Lesser(a, b) \in {a, b} /\ \A y \in {a, b} : Lesser(a, b) <= y
  BY <1>1, Zenon DEF Min, Lesser
<1>4. Greater(a, b) \in {a, b} /\ \A y \in {a, b} : Greater(a, b) >= y
  BY <1>2, Zenon DEF Max, Greater
<1> QED BY <1>3, <1>4, Zenon

LEMMA MinimumOf ==
    ASSUME LeastMembers, NEW S \in SUBSET Nat, S # {}
    PROVE  Min(S) \in S /\ \A y \in S : Min(S) <= y
<1>1. PICK x \in S : \A y \in S : x <= y
  BY Zenon DEF LeastMembers
<1> QED BY <1>1, Zenon DEF Min

LEMMA MaximumOf ==
    ASSUME LeastMembers, NEW n \in Nat, NEW S \in SUBSET (1 .. n), S # {}
    PROVE  Max(S) \in S /\ \A y \in S : Max(S) >= y
<1> DEFINE T == {n - i : i \in S}
<1>1. T \in SUBSET Nat /\ T # {}
  <2>1. ASSUME NEW i \in S PROVE n - i \in Nat
    <3>1. i \in 1 .. n
      BY Zenon
    <3> QED BY <3>1
  <2> QED BY <2>1, Zenon
<1>2. Min(T) \in T /\ \A y \in T : Min(T) <= y
  BY <1>1, MinimumOf, Zenon
<1>3. PICK x \in S : Min(T) = n - x
  BY <1>2, Zenon
<1>4. ASSUME NEW y \in S PROVE x >= y
  <2>1. n - y \in T /\ x \in 1 .. n /\ y \in 1 .. n
    BY <1>4, Zenon
  <2>2. n - x <= n - y
    BY <1>2, <1>3, <2>1, Zenon
  <2> QED BY <2>1, <2>2
<1> QED BY <1>4, Zenon DEF Max

-----------------------------------------------------------------------------
(* The replicas' records.                                                   *)

\* A measurement.
LEMMA ObservedForms ==
    ASSUME NEW s, Shaped(alloc[s]), NEW a, NEW q, q = Observed(s, a)
    PROVE  /\ Shaped(q) /\ q.phase = alloc[s].phase /\ q.node = alloc[s].node
           /\ q.image = alloc[s].image /\ q.ready = a
           /\ q.left = IF a THEN TTL ELSE 0
           /\ q.since = IF a /\ ReadyAt(s) THEN alloc[s].since ELSE 0
<1> DEFINE b == IF a THEN TTL ELSE 0
           c == IF a /\ ReadyAt(s) THEN alloc[s].since ELSE 0
<1>1. q = [phase |-> alloc[s].phase, node |-> alloc[s].node, image |-> alloc[s].image,
           ready |-> a, left |-> b, since |-> c]
  BY Zenon DEF Observed, Shaped
<1>2. b \in Nat /\ c \in Nat
  BY TrafficAssumption, Zenon DEF Shaped
<1>3. b = (IF a THEN TTL ELSE 0) /\ c = IF a /\ ReadyAt(s) THEN alloc[s].since ELSE 0
  BY Zenon
<1> HIDE DEF b, c
<1>4. /\ Shaped(q) /\ q.phase = alloc[s].phase /\ q.node = alloc[s].node
      /\ q.image = alloc[s].image /\ q.ready = a /\ q.left = b /\ q.since = c
  BY <1>1, <1>2 DEF Shaped
<1> QED BY <1>3, <1>4, Zenon

\* A tick of the clock.
Ticked(r) ==
    [r EXCEPT !.left = IF r.phase = "running" THEN Aged(@) ELSE @,
              !.since = IF r.ready THEN Min({@ + 1, TTL}) ELSE 0]

LEMMA TickedForms ==
    ASSUME NEW r, Shaped(r), NEW q, q = Ticked(r)
    PROVE  /\ Shaped(q) /\ q.phase = r.phase /\ q.node = r.node /\ q.image = r.image
           /\ q.ready = r.ready /\ q.left <= r.left
           /\ r.phase = "running" /\ q.left > 0 => q.left = r.left - 1
<1> DEFINE b == IF r.phase = "running" THEN Aged(r.left) ELSE r.left
           c == IF r.ready THEN Min({r.since + 1, TTL}) ELSE 0
<1>1. q = [phase |-> r.phase, node |-> r.node, image |-> r.image, ready |-> r.ready,
           left |-> b, since |-> c]
  BY Zenon DEF Ticked, Shaped
<1>2. r.left \in Nat /\ r.since \in Nat /\ TTL \in Nat
  BY TrafficAssumption, Zenon DEF Shaped
<1>3. Aged(r.left) \in {r.left - 1, 0} /\ Aged(r.left) >= 0 /\ Aged(r.left) >= r.left - 1
  <2>1. Aged(r.left) = Greater(r.left - 1, 0) /\ r.left - 1 \in Int
    BY <1>2 DEF Aged, Greater
  <2> QED BY <2>1, Least
<1>4. Min({r.since + 1, TTL}) \in {r.since + 1, TTL}
  <2>1. Min({r.since + 1, TTL}) = Lesser(r.since + 1, TTL) /\ r.since + 1 \in Int
    BY <1>2 DEF Lesser
  <2> QED BY <1>2, <2>1, Least
<1>5. b \in Nat /\ b <= r.left /\ (r.phase = "running" /\ b > 0 => b = r.left - 1)
  BY <1>2, <1>3
<1>6. c \in Nat
  BY <1>2, <1>4
<1> HIDE DEF b, c
<1>7. /\ Shaped(q) /\ q.phase = r.phase /\ q.node = r.node /\ q.image = r.image
      /\ q.ready = r.ready /\ q.left = b
  BY <1>1, <1>5, <1>6 DEF Shaped
<1> QED BY <1>5, <1>7, Zenon

\* A replica that is created, and one that is gone.
Placed(n, i) ==
    [phase |-> "running", node |-> n, image |-> i, ready |-> TRUE, left |-> TTL, since |-> 0]

LEMMA PlacedForms ==
    ASSUME NEW n, NEW i, NEW q, q = Placed(n, i)
    PROVE  /\ Shaped(q) /\ q.phase = "running" /\ q.node = n /\ q.left = TTL /\ q.since = 0
<1> DEFINE yes == TRUE
<1>1. q = [phase |-> "running", node |-> n, image |-> i, ready |-> yes, left |-> TTL,
           since |-> 0]
  BY Zenon DEF Placed
<1> HIDE DEF yes
<1> QED BY <1>1, TrafficAssumption DEF Shaped

LEMMA AbsentForms == Shaped(Absent) /\ ~Absent.ready /\ Absent.phase = "absent"
<1> DEFINE no == FALSE
<1>1. Absent = [phase |-> "absent", node |-> None, image |-> None, ready |-> no,
                left |-> 0, since |-> 0]
  BY Zenon DEF Absent
<1>2. ~no
  BY Zenon
<1> HIDE DEF no
<1>3. Shaped(Absent) /\ Absent.ready = no /\ Absent.phase = "absent"
  BY <1>1, Zenon DEF Shaped
<1> QED BY <1>2, <1>3, Zenon

\* A replica that StartRound measures.
Remeasured(s) ==
    /\ Shaped(alloc'[s]) /\ alloc[s].phase = "running" /\ alloc'[s].phase = "running"
    /\ alloc'[s].node = alloc[s].node /\ alloc[s].node \in connected
    /\ alloc'[s].image = alloc[s].image /\ (alloc'[s].ready <=> s \in up)
    /\ alloc'[s].left = (IF s \in up THEN TTL ELSE 0)
    /\ ~ReadyAt(s) => alloc'[s].since = 0

LEMMA RoundMeasures ==
    ASSUME Sound, StartRound
    PROVE  /\ alloc' = [s \in Slots |-> alloc'[s]]
           /\ \A s \in Slots : alloc'[s] = alloc[s] \/ Remeasured(s)
<1>1. alloc' = [s \in Slots |-> IF s \in Refreshed(run) THEN Observed(s, s \in up)
                               ELSE alloc[s]]
  BY Zenon DEF StartRound
<1>2. ASSUME NEW s \in Slots, s \in Refreshed(run)
      PROVE  Remeasured(s)
  <2> DEFINE a == (s \in up)
  <2>1. alloc'[s] = Observed(s, a) /\ (a <=> s \in up)
    BY <1>1, <1>2, Zenon
  <2>2. Shaped(alloc[s]) /\ alloc[s].phase = "running" /\ alloc[s].node \in connected
    BY <1>2, Zenon DEF Sound, Refreshed
  <2> HIDE DEF a
  <2>3. /\ Shaped(alloc'[s]) /\ alloc'[s].phase = alloc[s].phase
        /\ alloc'[s].node = alloc[s].node /\ alloc'[s].image = alloc[s].image
        /\ alloc'[s].ready = a /\ alloc'[s].left = (IF a THEN TTL ELSE 0)
        /\ alloc'[s].since = IF a /\ ReadyAt(s) THEN alloc[s].since ELSE 0
    BY <2>1, <2>2, ObservedForms
  <2> QED BY <2>1, <2>2, <2>3, Zenon DEF Remeasured
<1>3. ASSUME NEW s \in Slots, s \notin Refreshed(run)
      PROVE  alloc'[s] = alloc[s]
  BY <1>1, <1>3, Zenon
<1>4. alloc' = [s \in Slots |-> alloc'[s]]
  BY <1>1, Zenon
<1> QED BY <1>2, <1>3, <1>4, Zenon

LEMMA TickAges ==
    ASSUME Sound, Tick
    PROVE  /\ alloc' = [s \in Slots |-> alloc'[s]]
           /\ \A s \in Slots :
                /\ Shaped(alloc'[s]) /\ alloc'[s].phase = alloc[s].phase
                /\ alloc'[s].node = alloc[s].node /\ alloc'[s].image = alloc[s].image
                /\ alloc'[s].ready = alloc[s].ready /\ alloc'[s].left <= alloc[s].left
                /\ alloc[s].phase = "running" /\ alloc'[s].left > 0
                      => alloc'[s].left = alloc[s].left - 1
<1>1. alloc' = [s \in Slots |-> Ticked(alloc[s])]
  BY Zenon DEF Tick, Ticked
<1>2. \A s \in Slots : alloc'[s] = Ticked(alloc[s]) /\ Shaped(alloc[s])
  BY <1>1, Zenon DEF Sound
<1>3. alloc' = [s \in Slots |-> alloc'[s]]
  BY <1>1, Zenon
<1> QED BY <1>2, <1>3, TickedForms

LEMMA PlaceAdds ==
    ASSUME Sound, NEW s \in Slots, NEW n \in Nodes, Place(s, n)
    PROVE  /\ alloc' = [t \in Slots |-> alloc'[t]]
           /\ \A t \in Slots \ {s} : alloc'[t] = alloc[t]
           /\ Shaped(alloc'[s]) /\ alloc'[s].phase = "running" /\ alloc'[s].node = n
           /\ alloc'[s].left = TTL /\ alloc'[s].since = 0
<1>1. alloc' = [alloc EXCEPT ![s] = Placed(n, asked)]
  BY Zenon DEF Place, Placed
<1>2. alloc'[s] = Placed(n, asked) /\ alloc' = [t \in Slots |-> alloc'[t]]
      /\ \A t \in Slots \ {s} : alloc'[t] = alloc[t]
  BY <1>1, Zenon DEF Sound
<1> QED BY <1>2, PlacedForms

LEMMA RetireRemoves ==
    ASSUME Sound, NEW s \in Slots, Retire(s)
    PROVE  /\ alloc' = [t \in Slots |-> alloc'[t]] /\ alloc'[s] = Absent
           /\ \A t \in Slots \ {s} : alloc'[t] = alloc[t]
BY Zenon DEF Sound, Retire

\* The steps that leave the replicas' records.
LEMMA Untouched ==
    ASSUME Next
    PROVE  \/ StartRound \/ Tick \/ (\E s \in Slots, n \in Nodes : Place(s, n))
           \/ (\E s \in Slots : Retire(s)) \/ UNCHANGED alloc
BY ZenonT(30)
   DEF Next, Loop, Recover, StartPass, StartRun, Turn, ApplyPolicy, PublishZone, PublishRoute,
       Undelivered, Revive, Reconnect, Die, Disconnect, Restart, Approve, Submit

LEMMA CaseStays ==
    ASSUME Next
    PROVE  case' = case /\ Slots' = Slots /\ Nodes' = Nodes
<1>1. case' = case
  BY ZenonT(30)
     DEF Next, Loop, Recover, StartPass, StartRun, StartRound, Tick, Place, Retire, Turn,
         ApplyPolicy, PublishZone, PublishRoute, Undelivered, Revive, Reconnect, Die,
         Disconnect, Restart, Approve, Submit, budgets
<1> QED BY <1>1, Zenon DEF Slots, Nodes

LEMMA ConnectedNodes ==
    ASSUME Sound, Next
    PROVE  connected' \subseteq Nodes
BY DEF Sound, Next, Loop, Recover, StartPass, StartRun, StartRound, Tick, Place, Retire, Turn,
       ApplyPolicy, PublishZone, PublishRoute, Undelivered, Revive, Reconnect, Die,
       Disconnect, Restart, Approve, Submit

LEMMA NextSound ==
    ASSUME Sound, Next
    PROVE  Sound'
<1>1. case' \in Cases /\ connected' \subseteq Nodes' /\ Slots' = Slots /\ Nodes' = Nodes
  BY CaseStays, ConnectedNodes, Zenon DEF Sound
<1> DEFINE Fine == /\ alloc' = [s \in Slots |-> alloc'[s]]
                   /\ \A s \in Slots :
                        /\ Shaped(alloc'[s])
                        /\ alloc'[s].ready => alloc'[s].phase = "running"
                                              /\ alloc'[s].node \in Nodes
<1>2. CASE StartRound
  <2>1. \A s \in Slots : Remeasured(s) =>
            /\ Shaped(alloc'[s])
            /\ alloc'[s].phase = "running" /\ alloc'[s].node \in Nodes
    BY Zenon DEF Remeasured, Sound
  <2>2. Fine
    BY <1>2, <2>1, RoundMeasures, Zenon DEF Sound
  <2> QED BY <1>1, <2>2, Zenon DEF Sound, Shaped
<1>3. CASE Tick
  <2>1. Fine
    BY <1>3, TickAges, Zenon DEF Sound
  <2> QED BY <1>1, <2>1, Zenon DEF Sound, Shaped
<1>4. ASSUME NEW s \in Slots, NEW n \in Nodes, Place(s, n) PROVE Sound'
  <2>1. Fine
    BY <1>4, PlaceAdds DEF Sound
  <2> QED BY <1>1, <2>1, Zenon DEF Sound, Shaped
<1>5. ASSUME NEW s \in Slots, Retire(s) PROVE Sound'
  <2>1. Fine
    BY <1>5, RetireRemoves, AbsentForms DEF Sound
  <2> QED BY <1>1, <2>1, Zenon DEF Sound, Shaped
<1>6. CASE UNCHANGED alloc
  BY <1>1, <1>6, Zenon DEF Sound, Shaped
<1> QED BY <1>2, <1>3, <1>4, <1>5, <1>6, Untouched, Zenon

LEMMA InitSound ==
    ASSUME Init
    PROVE  Sound
BY AbsentForms, Zenon DEF Init, Sound

LEMMA SoundStep ==
    ASSUME Sound, [Next]_vars
    PROVE  Sound'
<1>1. CASE UNCHANGED vars
  BY <1>1, Zenon DEF vars, budgets, Sound, Shaped, Slots, Nodes
<1> QED BY <1>1, NextSound, Zenon

-----------------------------------------------------------------------------
(* The weights of a route.                                                  *)

\* What is used of finite sets, a set being finite when a sequence lists it; it is
\* proved at the end of the module.
Listable(S) == \E seq \in Seq(S) : \A s \in S : \E n \in 1 .. Len(seq) : seq[n] = s
Tally(S) ==
    LET CS[T \in SUBSET S] == IF T = {} THEN 0 ELSE 1 + CS[T \ {CHOOSE x : x \in T}]
    IN  CS[S]

Counting ==
    /\ LeastMembers
    /\ Tally({}) = 0
    /\ \A S : Listable(S) =>
          /\ Tally(S) \in Nat
          /\ \A T \in SUBSET S : Listable(T) /\ Tally(T) <= Tally(S)
          /\ \A x \in S : Tally(S \ {x}) = Tally(S) - 1

\* That is what FiniteSets says of being finite and of the number of elements.
LEMMA Finite ==
    ASSUME NEW S
    PROVE  (IsFiniteSet(S) <=> Listable(S)) /\ Cardinality(S) = Tally(S)
<1>1. IsFiniteSet(S) <=> Listable(S)
  BY Zenon DEF IsFiniteSet, Listable
<1>2. Cardinality(S) = Tally(S)
  BY Zenon DEF Cardinality, Tally
<1> QED BY <1>1, <1>2, Zenon

\* A part of a finite set is finite, and without one of its members it has one fewer.
LEMMA Parts ==
    ASSUME Counting, NEW S, IsFiniteSet(S), NEW T \in SUBSET S
    PROVE  /\ IsFiniteSet(T) /\ Cardinality(T) \in Nat /\ Cardinality(T) <= Cardinality(S)
           /\ \A x \in T : /\ IsFiniteSet(T \ {x})
                           /\ Cardinality(T \ {x}) = Cardinality(T) - 1
<1>1. Listable(T) /\ Tally(T) \in Nat /\ Tally(T) <= Tally(S)
  BY Finite, Zenon DEF Counting
<1>2. ASSUME NEW x \in T PROVE Listable(T \ {x}) /\ Tally(T \ {x}) = Tally(T) - 1
  <2>1. T \ {x} \in SUBSET T
    BY Zenon
  <2> QED BY <1>1, <2>1, Zenon DEF Counting
<1> QED BY <1>1, <1>2, Finite, Zenon

\* The sum of f over a set, one member after the other.
Total(f, S) ==
    LET iter[s \in SUBSET S] ==
            IF s = {} THEN 0
            ELSE f[CHOOSE x \in s : TRUE] + iter[s \ {CHOOSE x \in s : TRUE}]
    IN  iter[S]

\* h gives for each part of S what its members add up to.
Sums(h, f, S) ==
    /\ h[{}] = 0 /\ \A x \in S : f[x] \in Int
    /\ \A s \in SUBSET S : h[s] \in Int /\ \A x \in s : h[s] = f[x] + h[s \ {x}]

\* A sum is known by what each member adds to it.
LEMMA SumIs ==
    ASSUME Counting, NEW S, IsFiniteSet(S), NEW f, NEW h, Sums(h, f, S)
    PROVE  Total(f, S) = h[S]
<1>0. h[{}] = 0 /\ \A s \in SUBSET S : \A x \in s : h[s] = f[x] + h[s \ {x}]
  BY Zenon DEF Sums
<1> DEFINE One(s) == CHOOSE x \in s : TRUE
           Solves(g) == g = [s \in SUBSET S |->
                             IF s = {} THEN 0 ELSE f[One(s)] + g[s \ {One(s)}]]
           iter == CHOOSE g : Solves(g)
           bad == {Cardinality(s) : s \in {s \in SUBSET S : iter[s] # h[s]}}
<1>1. ASSUME NEW s \in SUBSET S, s # {} PROVE One(s) \in s /\ s \ {One(s)} \in SUBSET S
  BY <1>1, Zenon
<1> HIDE DEF One
<1>2. Solves([s \in SUBSET S |-> h[s]])
  <2> DEFINE g == [s \in SUBSET S |-> h[s]]
  <2>1. ASSUME NEW s \in SUBSET S
        PROVE  g[s] = IF s = {} THEN 0 ELSE f[One(s)] + g[s \ {One(s)}]
    BY <1>0, <1>1, <2>1, Zenon
  <2> QED BY <2>1, Zenon
<1>3. Solves(iter)
  <2> HIDE DEF Solves
  <2> QED BY <1>2, Zenon
<1>4. Total(f, S) = iter[S]
  BY Zenon DEF Total, One
<1> HIDE DEF iter
<1>5. ASSUME NEW s \in SUBSET S
      PROVE  iter[s] = IF s = {} THEN 0 ELSE f[One(s)] + iter[s \ {One(s)}]
  BY <1>3, Zenon
<1>6. bad \in SUBSET Nat
  BY Parts, Zenon
<1>7. ASSUME bad # {} PROVE FALSE
  <2>1. PICK n \in bad : \A m \in bad : n <= m
    BY <1>6, <1>7, Zenon DEF Counting, LeastMembers
  <2>2. PICK s \in SUBSET S : iter[s] # h[s] /\ n = Cardinality(s)
    BY <2>1, Zenon
  <2>3. s # {}
    BY <1>0, <1>5, <2>2, Zenon
  <2>4. One(s) \in s /\ s \ {One(s)} \in SUBSET S
    BY <1>1, <2>3, Zenon
  <2>5. Cardinality(s \ {One(s)}) = n - 1 /\ n \in Nat
    BY <2>2, <2>4, Parts, Zenon
  <2>6. n - 1 \notin bad
    BY <1>6, <2>1, <2>5
  <2>7. iter[s \ {One(s)}] = h[s \ {One(s)}]
    BY <2>4, <2>5, <2>6, Zenon
  <2> QED BY <1>0, <1>5, <2>2, <2>3, <2>4, <2>7, Zenon
<1>8. iter[S] = h[S]
  BY <1>7, Zenon
<1> QED BY <1>4, <1>8, Zenon

\* A sum does not tell apart functions that agree on the set.
LEMMA SumsSame ==
    ASSUME NEW S, NEW f, NEW h, Sums(h, f, S), NEW e, \A x \in S : e[x] = f[x]
    PROVE  Sums(h, e, S)
BY Zenon DEF Sums

\* The sum over two sets that have nothing in common is the sum of their sums.
LEMMA SumOfBoth ==
    ASSUME Counting, NEW A, NEW B, A \cap B = {}, IsFiniteSet(A \cup B), NEW f,
           NEW h, Sums(h, f, A), NEW g, Sums(g, f, B)
    PROVE  Total(f, A \cup B) = h[A] + g[B]
<1> DEFINE S == A \cup B
           both == [s \in SUBSET S |-> h[s \cap A] + g[s \cap B]]
<1>1. both[{}] = 0
  <2>1. {} \cap A = {} /\ {} \cap B = {} /\ {} \in SUBSET S
    BY Zenon
  <2>2. h[{}] = 0 /\ g[{}] = 0
    BY Zenon DEF Sums
  <2> QED BY <2>1, <2>2
<1>2. both[S] = h[A] + g[B]
  <2>1. S \cap A = A /\ S \cap B = B /\ S \in SUBSET S
    BY Zenon
  <2> HIDE DEF S
  <2> QED BY <2>1, Zenon
<1>3. \A x \in S : f[x] \in Int
  BY Zenon DEF Sums
<1>4. ASSUME NEW s \in SUBSET S
      PROVE  both[s] \in Int /\ \A x \in s : both[s] = f[x] + both[s \ {x}]
  <2> DEFINE u == s \cap A
             v == s \cap B
  <2>1. u \in SUBSET A /\ v \in SUBSET B
    BY Zenon
  <2>2. both[s] = h[u] + g[v] /\ h[u] \in Int /\ g[v] \in Int
    BY <2>1, Zenon DEF Sums
  <2>3. ASSUME NEW x \in s PROVE both[s] = f[x] + both[s \ {x}]
    <3>1. both[s \ {x}] = h[(s \ {x}) \cap A] + g[(s \ {x}) \cap B] /\ f[x] \in Int
      BY <1>3, Zenon
    <3>2. CASE x \in A
      <4>1. x \in u /\ (s \ {x}) \cap A = u \ {x} /\ (s \ {x}) \cap B = v
            /\ u \ {x} \in SUBSET A
        BY <3>2, Zenon
      <4>2. h[u] = f[x] + h[u \ {x}] /\ h[u \ {x}] \in Int
        BY <2>1, <4>1, Zenon DEF Sums
      <4> HIDE DEF both, u, v
      <4>3. both[s \ {x}] = h[u \ {x}] + g[v]
        BY <3>1, <4>1, Zenon
      <4> QED BY <2>2, <3>1, <4>2, <4>3
    <3>3. CASE x \in B
      <4>1. x \in v /\ (s \ {x}) \cap A = u /\ (s \ {x}) \cap B = v \ {x}
            /\ v \ {x} \in SUBSET B
        BY <3>3, Zenon
      <4>2. g[v] = f[x] + g[v \ {x}] /\ g[v \ {x}] \in Int
        BY <2>1, <4>1, Zenon DEF Sums
      <4> HIDE DEF both, u, v
      <4>3. both[s \ {x}] = h[u] + g[v \ {x}]
        BY <3>1, <4>1, Zenon
      <4> QED BY <2>2, <3>1, <4>2, <4>3
    <3> QED BY <3>2, <3>3, Zenon
  <2>4. both[s] \in Int
    BY <2>2
  <2> HIDE DEF both
  <2> QED BY <2>3, <2>4, Zenon
<1> HIDE DEF both, S
<1>5. Sums(both, f, S)
  BY <1>1, <1>3, <1>4, Zenon DEF Sums
<1>6. Total(f, S) = both[S]
  BY <1>5, SumIs, Zenon DEF S
<1> QED BY <1>2, <1>6, Zenon DEF S

\* How many endpoints come before one in the order of the names.
Before(ends, s) == Cardinality({e \in ends : e[2] < s[2]})

\* The first r of the endpoints are r, for every r up to their number.
LEMMA FirstOnes ==
    ASSUME Counting, NEW w, NEW E \in SUBSET ({w} \X Nat), IsFiniteSet(E),
           NEW r \in Nat, r <= Cardinality(E)
    PROVE  Cardinality({s \in E : Before(E, s) < r}) = r
<1> DEFINE Wrong(ends, k) ==
              /\ ends \in SUBSET E /\ k \in Nat /\ k <= Cardinality(ends)
              /\ Cardinality({s \in ends : Before(ends, s) < k}) # k
           bad == {n \in Nat : \E ends \in SUBSET E : \E k \in Nat :
                      Wrong(ends, k) /\ n = Cardinality(ends)}
<1>1. ASSUME bad # {} PROVE FALSE
  <2>1. PICK n \in bad : \A m \in bad : n <= m
    <3>1. bad \in SUBSET Nat
      BY Zenon
    <3> HIDE DEF bad
    <3> QED BY <1>1, <3>1, Zenon DEF Counting, LeastMembers
  <2>2. PICK ends \in SUBSET E, k \in Nat : Wrong(ends, k) /\ n = Cardinality(ends)
    BY <2>1, Zenon
  <2>3. n \in Nat /\ IsFiniteSet(ends) /\ k <= n
    BY <2>2, Parts, Zenon
  <2>4. k # 0
    <3>1. ASSUME NEW s \in ends PROVE ~(Before(ends, s) < 0)
      <4>1. {e \in ends : e[2] < s[2]} \in SUBSET ends
        BY Zenon
      <4>2. Before(ends, s) \in Nat
        BY <2>3, <4>1, Parts, Zenon DEF Before
      <4> QED BY <4>2
    <3>2. k = 0 => {s \in ends : Before(ends, s) < k} = {}
      BY <3>1, Zenon
    <3>3. Cardinality({}) = 0
      BY Finite, Zenon DEF Counting
    <3> QED BY <2>2, <3>2, <3>3, Zenon
  <2>5. ends # {}
    <3>1. Cardinality({}) = 0
      BY Finite, Zenon DEF Counting
    <3> QED BY <2>2, <2>3, <2>4, <3>1
  <2>6. \A s \in ends : s = <<w, s[2]>> /\ s[2] \in Nat
    <3>1. ends \subseteq {w} \X Nat
      BY Zenon
    <3> QED BY <3>1
  <2>7. PICK t \in ends : \A s \in ends : t[2] <= s[2]
    <3> DEFINE I == {s[2] : s \in ends}
    <3>1. I \in SUBSET Nat /\ I # {}
      BY <2>5, <2>6, Zenon
    <3>2. PICK i \in I : \A j \in I : i <= j
      <4> HIDE DEF I
      <4> QED BY <3>1, Zenon DEF Counting, LeastMembers
    <3> QED BY <3>2, Zenon
  <2> DEFINE rest == ends \ {t}
  <2>8. rest \in SUBSET E /\ IsFiniteSet(rest) /\ Cardinality(rest) = n - 1
    BY <2>2, <2>3, Parts, Zenon
  <2>9. Before(ends, t) = 0
    <3>1. {e \in ends : e[2] < t[2]} = {}
      BY <2>6, <2>7
    <3>2. Cardinality({}) = 0
      BY Finite, Zenon DEF Counting
    <3> QED BY <3>1, <3>2, Zenon DEF Before
  <2>10. ASSUME NEW s \in rest PROVE Before(rest, s) = Before(ends, s) - 1
    <3> DEFINE B == {e \in ends : e[2] < s[2]}
    <3>1. t[2] < s[2]
      <4>1. s[2] # t[2]
        BY <2>6, <2>10, Zenon
      <4> QED BY <2>6, <2>7, <4>1
    <3>2. t \in B /\ B \in SUBSET ends /\ {e \in rest : e[2] < s[2]} = B \ {t}
      BY <3>1, Zenon
    <3>3. Cardinality(B \ {t}) = Cardinality(B) - 1
      BY <2>3, <3>2, Parts, Zenon
    <3> QED BY <3>2, <3>3, Zenon DEF Before
  <2>11. ASSUME NEW s \in ends PROVE Before(ends, s) \in Nat
    <3>1. {e \in ends : e[2] < s[2]} \in SUBSET ends
      BY Zenon
    <3> QED BY <2>3, <3>1, Parts, Zenon DEF Before
  <2> DEFINE A == {s \in ends : Before(ends, s) < k}
  <2>12. t \in A /\ A \in SUBSET ends
    BY <2>4, <2>9
  <2>13. A \ {t} = {s \in rest : Before(rest, s) < k - 1}
    <3>1. ASSUME NEW s \in rest PROVE Before(ends, s) < k <=> Before(rest, s) < k - 1
      <4>1. s \in ends /\ Before(ends, s) \in Nat
        BY <2>11, Zenon
      <4>2. Before(rest, s) = Before(ends, s) - 1
        BY <2>10, Zenon
      <4> HIDE DEF rest
      <4> QED BY <4>1, <4>2
    <3> QED BY <3>1, Zenon
  <2>14. Cardinality({s \in rest : Before(rest, s) < k - 1}) = k - 1
    <3>1. n - 1 \notin bad
      <4> HIDE DEF bad
      <4> QED BY <2>1, <2>3
    <3>2. n - 1 \in Nat /\ k - 1 \in Nat /\ k - 1 <= n - 1
      BY <2>3, <2>4
    <3>3. ~Wrong(rest, k - 1)
      BY <2>8, <3>1, <3>2, Zenon
    <3> QED BY <2>8, <3>2, <3>3, Zenon
  <2>15. Cardinality(A \ {t}) = Cardinality(A) - 1 /\ Cardinality(A) \in Nat
    <3> HIDE DEF A
    <3> QED BY <2>3, <2>12, Parts, Zenon
  <2>16. Cardinality(A) = k
    <3> HIDE DEF A, rest
    <3>1. Cardinality(A \ {t}) = k - 1
      BY <2>13, <2>14, Zenon
    <3> QED BY <2>15, <3>1
  <2> QED BY <2>2, <2>16, Zenon
<1>2. ~Wrong(E, r)
  <2>1. Cardinality(E) \in Nat
    BY Parts, Zenon
  <2> QED BY <1>1, <2>1, Zenon
<1> QED BY <1>2, Zenon

\* A share at least as large as the number of endpoints is given out whole.
LEMMA ShareGivenOut ==
    ASSUME Counting, NEW w, NEW ends \in SUBSET ({w} \X Nat), IsFiniteSet(ends), ends # {},
           NEW share \in Nat, Cardinality(ends) <= share
    PROVE  /\ DOMAIN ShareAcross(ends, share) = ends
           /\ \E h : Sums(h, ShareAcross(ends, share), ends) /\ h[ends] = share
<1> DEFINE n == Cardinality(ends)
           each == share \div n
           rem == share % n
           Extra(s) == {x \in s : Before(ends, x) < rem}
           h == [s \in SUBSET ends |-> each * Cardinality(s) + Cardinality(Extra(s))]
<1>1. n \in Nat \ {0}
  <2>1. PICK x \in ends : TRUE
    BY Zenon
  <2>2. Cardinality(ends \ {x}) = n - 1 /\ n \in Nat /\ Cardinality(ends \ {x}) \in Nat
    BY <2>1, Parts, Zenon
  <2> QED BY <2>2
<1>2. n <= share /\ share \in Nat
  BY Zenon
<1>3. each \in Nat \ {0} /\ rem \in 0 .. n - 1 /\ share = each * n + rem
  <2> HIDE DEF n
  <2> QED BY <1>1, <1>2
<1>4. DOMAIN ShareAcross(ends, share) = ends
  <2>1. share > 0
    <3> HIDE DEF n
    <3> QED BY <1>1, <1>2
  <2> QED BY <2>1 DEF ShareAcross
<1>5. ASSUME NEW x \in ends
      PROVE  ShareAcross(ends, share)[x] = each + IF Before(ends, x) < rem THEN 1 ELSE 0
  <2> DEFINE extra == IF Before(ends, x) < rem THEN 1 ELSE 0
  <2>1. ShareAcross(ends, share)[x] = Max({1, each + extra})
    BY <1>4, Zenon DEF ShareAcross, Before
  <2>2. extra \in {0, 1} /\ each + extra \in Nat /\ each + extra >= 1
    <3> HIDE DEF each, rem
    <3> QED BY <1>3
  <2> HIDE DEF extra
  <2>3. Max({1, each + extra}) = Greater(1, each + extra)
    BY Zenon DEF Greater
  <2>4. Greater(1, each + extra) = each + extra
    <3> HIDE DEF each
    <3> QED BY <2>2, Least
  <2> QED BY <2>1, <2>3, <2>4, Zenon DEF extra
<1> HIDE DEF each, rem
<1>6. ASSUME NEW s \in SUBSET ends
      PROVE  /\ Cardinality(s) \in Nat /\ Cardinality(Extra(s)) \in Nat /\ h[s] \in Int
             /\ h[s] = each * Cardinality(s) + Cardinality(Extra(s))
  <2>1. Extra(s) \in SUBSET ends
    BY Zenon
  <2>2. Cardinality(s) \in Nat /\ Cardinality(Extra(s)) \in Nat
    <3> HIDE DEF Extra
    <3> QED BY <2>1, Parts, Zenon
  <2>3. h[s] = each * Cardinality(s) + Cardinality(Extra(s))
    BY Zenon
  <2> QED BY <1>3, <2>2, <2>3
<1>7. ASSUME NEW s \in SUBSET ends, NEW x \in s
      PROVE  h[s] = ShareAcross(ends, share)[x] + h[s \ {x}]
  <2> DEFINE extra == IF Before(ends, x) < rem THEN 1 ELSE 0
  <2>1. Cardinality(s \ {x}) = Cardinality(s) - 1 /\ s \ {x} \in SUBSET ends
    BY Parts, Zenon
  <2>2. Cardinality(Extra(s \ {x})) = Cardinality(Extra(s)) - extra
    <3>1. CASE Before(ends, x) < rem
      <4>1. x \in Extra(s) /\ Extra(s) \in SUBSET ends /\ Extra(s \ {x}) = Extra(s) \ {x}
        BY <3>1, Zenon
      <4>2. Cardinality(Extra(s) \ {x}) = Cardinality(Extra(s)) - 1
        <5> HIDE DEF Extra
        <5> QED BY <4>1, Parts, Zenon
      <4> QED BY <3>1, <4>1, <4>2, Zenon
    <3>2. CASE ~(Before(ends, x) < rem)
      <4>1. Extra(s \ {x}) = Extra(s)
        BY <3>2, Zenon
      <4>2. Cardinality(Extra(s)) \in Nat
        BY <1>6, Zenon
      <4> HIDE DEF Extra
      <4> QED BY <3>2, <4>1, <4>2
    <3> QED BY <3>1, <3>2, Zenon
  <2>3. h[s \ {x}] = each * (Cardinality(s) - 1) + (Cardinality(Extra(s)) - extra)
    <3> HIDE DEF h, Extra, extra
    <3> QED BY <1>6, <2>1, <2>2, Zenon
  <2>4. h[s] = each * Cardinality(s) + Cardinality(Extra(s))
    BY <1>6, Zenon
  <2>5. Cardinality(s) \in Nat /\ Cardinality(Extra(s)) \in Nat /\ extra \in Int
    <3>1. Cardinality(s) \in Nat /\ Cardinality(Extra(s)) \in Nat
      BY <1>6, Zenon
    <3> QED BY <3>1
  <2>6. ShareAcross(ends, share)[x] = each + extra
    BY <1>5, Zenon
  <2> DEFINE c == Cardinality(s)
             d == Cardinality(Extra(s))
  <2> HIDE DEF h, Extra, extra, c, d
  <2>7. each * c + d = (each + extra) + (each * (c - 1) + (d - extra))
    BY <1>3, <2>5 DEF c, d
  <2> QED BY <2>3, <2>4, <2>6, <2>7, Zenon DEF c, d
<1>8. h[{}] = 0
  <2>1. Cardinality({}) = 0 /\ Extra({}) = {} /\ {} \in SUBSET ends
    BY Finite, Zenon DEF Counting
  <2>2. h[{}] = each * 0 + 0
    BY <1>6, <2>1, Zenon
  <2> QED BY <1>3, <2>2
<1>9. h[ends] = share
  <2>1. rem \in Nat /\ rem <= n
    <3> HIDE DEF n
    <3> QED BY <1>1, <1>3
  <2>2. Cardinality(Extra(ends)) = rem
    BY <2>1, FirstOnes, Zenon
  <2>3. h[ends] = each * n + rem
    <3> HIDE DEF h, Extra
    <3> QED BY <1>6, <2>2, Zenon
  <2> QED BY <1>3, <2>3, Zenon
<1>10. Sums(h, ShareAcross(ends, share), ends)
  <2>1. ASSUME NEW x \in ends PROVE ShareAcross(ends, share)[x] \in Int
    BY <1>3, <1>5
  <2> HIDE DEF h
  <2> QED BY <1>6, <1>7, <1>8, <2>1, Zenon DEF Sums
<1> HIDE DEF h
<1> QED BY <1>4, <1>9, <1>10, Zenon

\* The endpoints of a workload: finitely many, told apart by their numbers.
LEMMA EndpointsFinite ==
    ASSUME Counting, Sound, NEW w \in case.workloads
    PROVE  IsFiniteSet(BuildDirectory(w)) /\ BuildDirectory(w) \in SUBSET ({w} \X Nat)
<1> DEFINE n == case.replicas
           all == {w} \X (1 .. n)
           seq == [i \in 1 .. n |-> <<w, i>>]
<1>1. n \in Nat
  BY TrafficAssumption DEF Sound
<1> HIDE DEF n
<1>2. BuildDirectory(w) \in SUBSET all
  <2>1. ASSUME NEW s \in Slots, s[1] = w PROVE s \in all
    BY <2>1, Zenon DEF Slots, n
  <2> QED BY <2>1, Zenon DEF BuildDirectory, Of
<1>3. Listable(all)
  <2>1. seq \in Seq(all) /\ Len(seq) = n
    BY <1>1
  <2>2. ASSUME NEW s \in all PROVE \E i \in 1 .. n : seq[i] = s
    <3>1. s[2] \in 1 .. n /\ s = <<w, s[2]>>
      OBVIOUS
    <3> QED BY <3>1, Zenon
  <2> HIDE DEF seq, all
  <2> QED BY <2>1, <2>2, Zenon DEF Listable
<1>4. all \in SUBSET ({w} \X Nat)
  BY <1>1
<1> HIDE DEF all
<1> QED BY <1>2, <1>3, <1>4, Finite, Parts, Zenon

\* A member of a list.
LEMMA Listed ==
    ASSUME NEW S, NEW seq \in Seq(S), NEW i \in 1 .. Len(seq)
    PROVE  seq[i] \in S
OBVIOUS

\* The last step the healthy share allows, and the one reached in the time served.
Allowed(ready, target) ==
    Max({1} \cup {i \in DOMAIN Steps :
                    Steps[i] <= (Cardinality(target) * 100) \div Cardinality(ready)})
Reached(ready, target) ==
    IF Hold > 0 THEN Min({Allowed(ready, target), Held(target) \div Hold + 1})
    ELSE Allowed(ready, target)

\* While both versions serve, the authorized share is that step's.
LEMMA CanaryForms ==
    ASSUME NEW w, NEW ready, ready = BuildDirectory(w),
           NEW target, target = {s \in ready : alloc[s].image = goal[w]},
           target # {}, target # ready
    PROVE  EvaluateCanary(w) = Steps[Reached(ready, target)]
BY Zenon DEF EvaluateCanary, Reached, Allowed

LEMMA StepsForms ==
    /\ Len(Steps) \in Nat \ {0} /\ DOMAIN Steps = 1 .. Len(Steps) /\ 1 \in 1 .. Len(Steps)
    /\ \A i \in 1 .. Len(Steps) : Steps[i] \in 1 .. 100
<1>1. Steps \in Seq(1 .. 100) /\ Steps # <<>>
  BY TrafficAssumption, Zenon
<1>2. Len(Steps) \in Nat \ {0} /\ DOMAIN Steps = 1 .. Len(Steps) /\ 1 \in 1 .. Len(Steps)
  BY <1>1
<1>3. ASSUME NEW i \in 1 .. Len(Steps) PROVE Steps[i] \in 1 .. 100
  BY <1>1, Listed, Zenon
<1> QED BY <1>2, <1>3, Zenon

LEMMA AllowedIsStep ==
    ASSUME LeastMembers, NEW ready, NEW target
    PROVE  Allowed(ready, target) \in 1 .. Len(Steps)
<1> DEFINE last == Len(Steps)
           x == (Cardinality(target) * 100) \div Cardinality(ready)
           I == {1} \cup {i \in DOMAIN Steps : Steps[i] <= x}
<1>1. Allowed(ready, target) = Max(I)
  BY Zenon DEF Allowed
<1>2. last \in Nat /\ I \in SUBSET (1 .. last) /\ I # {}
  <2>1. last \in Nat /\ 1 \in 1 .. last /\ DOMAIN Steps = 1 .. last
    BY StepsForms
  <2> HIDE DEF last, x
  <2> QED BY <2>1, Zenon
<1> HIDE DEF I, last
<1>3. Max(I) \in I
  BY <1>2, MaximumOf, Zenon
<1> QED BY <1>1, <1>2, <1>3, Zenon DEF last

\* The time all of some replicas have served.
LEMMA HeldIsTime ==
    ASSUME LeastMembers, Sound, NEW w, NEW target \in SUBSET BuildDirectory(w), target # {}
    PROVE  /\ Held(target) \in Nat
           /\ \A t \in target : alloc[t].since = 0 => Held(target) = 0
<1> DEFINE T == {ReadyFor(s) : s \in target}
<1>1. Held(target) = Min(T)
  BY Zenon DEF Held
<1>2. ASSUME NEW s \in target
      PROVE  ReadyFor(s) \in Nat /\ (alloc[s].since = 0 => ReadyFor(s) = 0)
  <2>1. s \in Slots
    BY Zenon DEF BuildDirectory, Of
  <2>2. alloc[s].since \in Nat
    BY <2>1, Zenon DEF Sound, Shaped
  <2> QED BY <2>2 DEF ReadyFor
<1>3. T \in SUBSET Nat /\ T # {} /\ \A t \in target : alloc[t].since = 0 => 0 \in T
  BY <1>2
<1> HIDE DEF T
<1>4. Min(T) \in T /\ \A x \in T : Min(T) <= x
  BY <1>3, MinimumOf, Zenon
<1>5. Min(T) \in Nat
  BY <1>3, <1>4, Zenon
<1>6. ASSUME NEW t \in target, alloc[t].since = 0 PROVE Held(target) = 0
  <2>1. Min(T) <= 0
    BY <1>3, <1>4, <1>6, Zenon
  <2> QED BY <1>1, <1>5, <2>1
<1> QED BY <1>1, <1>5, <1>6, Zenon

\* While both versions serve, the authorized share is one of the steps.
LEMMA ShareIsStep ==
    ASSUME LeastMembers, Sound, NEW w \in case.workloads,
           NEW ready, ready = BuildDirectory(w),
           NEW target, target = {s \in ready : alloc[s].image = goal[w]},
           target \notin {{}, ready}
    PROVE  EvaluateCanary(w) \in 1 .. 100
<1> DEFINE index == Allowed(ready, target)
           held == Held(target) \div Hold + 1
           last == Len(Steps)
<1>1. EvaluateCanary(w) = Steps[Reached(ready, target)]
  BY CanaryForms
<1>2. index \in 1 .. last /\ last \in Nat
  BY AllowedIsStep, StepsForms, Zenon
<1>3. Hold > 0 => held \in Nat /\ held >= 1
  <2>1. target \in SUBSET BuildDirectory(w) /\ target # {}
    BY Zenon
  <2>2. Held(target) \in Nat
    BY <2>1, HeldIsTime, Zenon
  <2>3. Hold \in Nat
    BY TrafficAssumption, Zenon
  <2> QED BY <2>2, <2>3
<1> HIDE DEF index, held, last
<1>4. ASSUME Hold > 0 PROVE Lesser(index, held) \in 1 .. last
  <2>1. index \in Int /\ held \in Nat /\ held >= 1
    BY <1>2, <1>3, <1>4
  <2> DEFINE l == Lesser(index, held)
  <2>2. l \in {index, held} /\ l <= index
    BY <2>1, Least
  <2> HIDE DEF l
  <2>3. l \in Int /\ l >= 1 /\ l <= last
    BY <1>2, <2>1, <2>2
  <2>4. l \in 1 .. last
    BY <1>2, <2>3
  <2> QED BY <2>4, Zenon DEF l
<1>5. Reached(ready, target) \in 1 .. last
  BY <1>2, <1>4, Zenon DEF Reached, Lesser, index, held
<1> QED BY <1>1, <1>5, StepsForms, Zenon DEF last

\* What WeightsExact says of one workload.
Exact(w) ==
    LET ends == BuildDirectory(w)
        target == {s \in ends : alloc[s].image = goal[w]}
        step == EvaluateCanary(w)
    IN  /\ target \notin {{}, ends}
        /\ Cardinality(target) <= step /\ Cardinality(ends \ target) <= 100 - step
        => /\ DOMAIN WeightEndpoints(w) = ends
           /\ Total(WeightEndpoints(w), target) = step
           /\ Total(WeightEndpoints(w), ends) = 100

\* Whatever replicas serve, the weights of the two versions are the step and the
\* rest of a hundred.
LEMMA WeightsSum ==
    ASSUME Counting, Sound, NEW w \in case.workloads
    PROVE  Exact(w)
<1> SUFFICES ASSUME NEW ends, ends = BuildDirectory(w),
                    NEW target, target = {s \in ends : alloc[s].image = goal[w]},
                    NEW step, step = EvaluateCanary(w), target \notin {{}, ends},
                    Cardinality(target) <= step, Cardinality(ends \ target) <= 100 - step,
                    NEW W, W = WeightEndpoints(w)
             PROVE  DOMAIN W = ends /\ Total(W, target) = step /\ Total(W, ends) = 100
  BY DEF Exact
<1> DEFINE others == ends \ target
           new == ShareAcross(target, step)
           old == ShareAcross(others, 100 - step)
<1>1. step \in 1 .. 100
  <2>1. LeastMembers
    BY Zenon DEF Counting
  <2>2. EvaluateCanary(w) \in 1 .. 100
    BY <2>1, ShareIsStep
  <2> QED BY <2>2, Zenon
<1>2. /\ IsFiniteSet(ends) /\ IsFiniteSet(target) /\ IsFiniteSet(others)
      /\ target \in SUBSET ({w} \X Nat) /\ others \in SUBSET ({w} \X Nat)
      /\ target # {} /\ others # {}
  <2>1. IsFiniteSet(ends) /\ ends \in SUBSET ({w} \X Nat)
    BY EndpointsFinite, Zenon
  <2>2. target \in SUBSET ends /\ others \in SUBSET ends /\ target # {} /\ others # {}
    BY Zenon
  <2> HIDE DEF others
  <2> QED BY <2>1, <2>2, Parts, Zenon
<1>3. step \in Nat /\ 100 - step \in Nat
  BY <1>1
<1>4. Cardinality(target) <= step /\ Cardinality(others) <= 100 - step
  BY Zenon
<1> HIDE DEF others
<1>5. DOMAIN new = target /\ \E h : Sums(h, new, target) /\ h[target] = step
  BY <1>2, <1>3, <1>4, ShareGivenOut, Zenon
<1>6. DOMAIN old = others /\ \E h : Sums(h, old, others) /\ h[others] = 100 - step
  BY <1>2, <1>3, <1>4, ShareGivenOut, ZenonT(30)
<1>7. W = [s \in ends |-> IF s \in target THEN new[s] ELSE old[s]]
  <2>1. W = [s \in DOMAIN new \cup DOMAIN old |-> IF s \in target THEN new[s] ELSE old[s]]
    BY Zenon DEF WeightEndpoints, others
  <2>2. DOMAIN new \cup DOMAIN old = ends
    BY <1>5, <1>6, Zenon DEF others
  <2> QED BY <2>1, <2>2, Zenon
<1> HIDE DEF new, old
<1>8. PICK h : Sums(h, new, target) /\ h[target] = step
  BY <1>5, Zenon
<1>9. PICK g : Sums(g, old, others) /\ g[others] = 100 - step
  BY <1>6, Zenon
<1>10. Sums(h, W, target) /\ Sums(g, W, others)
  <2>1. (\A x \in target : W[x] = new[x]) /\ (\A x \in others : W[x] = old[x])
    BY <1>7, Zenon DEF others
  <2> QED BY <1>8, <1>9, <2>1, SumsSame
<1>11. Total(W, target) = step
  BY <1>2, <1>8, <1>10, SumIs, Zenon
<1>12. Total(W, ends) = 100
  <2>1. ends = target \cup others /\ target \cap others = {}
    BY Zenon DEF others
  <2>2. Total(W, target \cup others) = h[target] + g[others]
    BY <1>2, <1>10, <2>1, SumOfBoth
  <2>3. Total(W, ends) = step + (100 - step)
    BY <1>8, <1>9, <2>1, <2>2, Zenon
  <2> QED BY <1>3, <2>3
<1> QED BY <1>7, <1>11, <1>12, Zenon

\* For all workloads, and with the sum as the property takes it.
LEMMA WeightsAreExact ==
    ASSUME Counting, Sound
    PROVE  WeightsExact
<1>1. (\A w \in case.workloads : Exact(w)) => WeightsExact
  BY Zenon DEF WeightsExact, Exact, Total, MapThenSumSet, MapThenFoldSet
<1> QED BY <1>1, WeightsSum, Zenon

-----------------------------------------------------------------------------
(* The age of what traffic is sent to.                                      *)

\* What is left of an observation and the time its replica has not served add up
\* to no more than an observation lasts.
Fresh ==
    /\ down \in [Slots -> Nat]
    /\ \A s \in Slots : /\ s \in up => down[s] = 0
                        /\ ReadyAt(s) => alloc[s].left + down[s] <= TTL

LEMMA FreshKept ==
    ASSUME Fresh, Slots' = Slots, UNCHANGED <<alloc, up, down>>
    PROVE  Fresh'
BY Zenon DEF Fresh, ReadyAt

LEMMA NextFresh ==
    ASSUME Sound, Fresh, Next
    PROVE  Fresh'
<1>0. Slots' = Slots /\ TTL \in Nat
  BY CaseStays, TrafficAssumption, Zenon
<1>1. CASE StartRound
  <2>1. UNCHANGED <<up, down>>
    BY <1>1, Zenon DEF StartRound
  <2>2. ASSUME NEW s \in Slots, alloc'[s].ready, alloc'[s].left > 0
        PROVE  alloc'[s].left + down[s] <= TTL
    <3>1. CASE alloc'[s] = alloc[s]
      BY <2>2, <3>1, Zenon DEF Fresh, ReadyAt
    <3>2. CASE Remeasured(s)
      <4>1. s \in up /\ alloc'[s].left = TTL
        BY <2>2, <3>2, Zenon DEF Remeasured
      <4> QED BY <1>0, <4>1 DEF Fresh
    <3> QED BY <1>1, <3>1, <3>2, RoundMeasures, Zenon
  <2> QED BY <1>0, <2>1, <2>2, Zenon DEF Fresh, ReadyAt
<1>2. CASE Tick
  <2>1. /\ up' = up
        /\ down' = [s \in Slots |-> IF s \in up THEN 0 ELSE Min({down[s] + 1, TTL})]
    BY <1>2, Zenon DEF Tick
  <2>2. ASSUME NEW s \in Slots
        PROVE  /\ down'[s] \in Nat /\ (s \in up => down'[s] = 0)
               /\ down'[s] <= down[s] + 1
    <3>1. down[s] \in Nat
      BY Zenon DEF Fresh
    <3>2. Min({down[s] + 1, TTL}) = Lesser(down[s] + 1, TTL)
      BY Zenon DEF Lesser
    <3>3. Lesser(down[s] + 1, TTL) \in Nat /\ Lesser(down[s] + 1, TTL) <= down[s] + 1
      BY <1>0, <3>1, Least
    <3>4. s \notin up => down'[s] = Lesser(down[s] + 1, TTL)
      BY <2>1, <3>2, Zenon
    <3>5. s \in up => down'[s] = 0
      BY <2>1, Zenon
    <3> QED BY <3>1, <3>3, <3>4, <3>5
  <2>3. ASSUME NEW s \in Slots, alloc'[s].ready, alloc'[s].left > 0
        PROVE  alloc'[s].left + down'[s] <= TTL
    <3>1. alloc[s].ready /\ alloc[s].phase = "running" /\ alloc'[s].left = alloc[s].left - 1
      BY <1>2, <2>3, TickAges, Zenon DEF Sound
    <3>2. alloc[s].left \in Nat /\ down[s] \in Nat
      BY Zenon DEF Sound, Shaped, Fresh
    <3>3. alloc[s].left + down[s] <= TTL
      BY <2>3, <3>1, <3>2 DEF Fresh, ReadyAt
    <3> QED BY <1>0, <2>2, <3>1, <3>2, <3>3
  <2>4. down' \in [Slots -> Nat]
    BY <2>1, <2>2, Zenon
  <2> QED BY <1>0, <2>1, <2>2, <2>3, <2>4, Zenon DEF Fresh, ReadyAt
<1>3. ASSUME NEW s \in Slots, NEW n \in Nodes, Place(s, n) PROVE Fresh'
  <2>1. up' = up \cup {s} /\ down' = [down EXCEPT ![s] = 0]
    BY <1>3, Zenon DEF Place
  <2>2. alloc'[s].left = TTL /\ \A t \in Slots \ {s} : alloc'[t] = alloc[t]
    BY <1>3, PlaceAdds, Zenon
  <2> QED BY <1>0, <2>1, <2>2 DEF Fresh, ReadyAt
<1>4. ASSUME NEW s \in Slots, Retire(s) PROVE Fresh'
  <2>1. up' = up \ {s} /\ down' = [down EXCEPT ![s] = TTL]
    BY <1>4, Zenon DEF Retire
  <2>2. ~alloc'[s].ready /\ \A t \in Slots \ {s} : alloc'[t] = alloc[t]
    BY <1>4, RetireRemoves, AbsentForms, Zenon
  <2> QED BY <1>0, <2>1, <2>2, Zenon DEF Fresh, ReadyAt
<1>5. ASSUME NEW s \in Slots, Die(s) PROVE Fresh'
  BY <1>0, <1>5, Zenon DEF Die, Fresh, ReadyAt
<1>6. ASSUME NEW s \in Slots, Revive(s) PROVE Fresh'
  <2>1. UNCHANGED alloc /\ up' = up \cup {s} /\ down' = [down EXCEPT ![s] = 0]
    BY <1>6, Zenon DEF Revive
  <2>2. ReadyAt(s) => alloc[s].left + 0 <= TTL
    BY <1>0 DEF Fresh, Sound, Shaped
  <2> QED BY <1>0, <2>1, <2>2, Zenon DEF Fresh, ReadyAt
<1>7. CASE UNCHANGED <<alloc, up, down>>
  BY <1>0, <1>7, FreshKept, Zenon
<1> QED BY <1>1, <1>2, <1>3, <1>4, <1>5, <1>6, <1>7, Zenon
        DEF Next, Loop, Recover, StartPass, StartRun, Turn, ApplyPolicy, PublishZone,
            PublishRoute, Undelivered, Reconnect, Disconnect, Restart, Approve, Submit

\* Only endpoints that are ready have a weight.
LEMMA WeightedReady ==
    ASSUME NEW w
    PROVE  DOMAIN WeightEndpoints(w) \subseteq BuildDirectory(w)
<1> DEFINE ends == BuildDirectory(w)
           target == {s \in ends : alloc[s].image = goal[w]}
           new == ShareAcross(target, EvaluateCanary(w))
           old == ShareAcross(ends \ target, 100 - EvaluateCanary(w))
<1>1. DOMAIN new \subseteq target /\ DOMAIN old \subseteq ends \ target
  BY Zenon DEF ShareAcross
<1>2. WeightEndpoints(w) =
        IF target \in {{}, ends} THEN [s \in ends |-> 1]
        ELSE [s \in DOMAIN new \cup DOMAIN old |-> IF s \in target THEN new[s] ELSE old[s]]
  BY Zenon DEF WeightEndpoints
<1>3. target \subseteq ends
  BY Zenon
<1> HIDE DEF ends, target, new, old
<1>4. DOMAIN WeightEndpoints(w) \subseteq ends
  BY <1>1, <1>2, <1>3, Zenon
<1> QED BY <1>4, Zenon DEF ends

\* No traffic is weighted to a replica that has not served for as long as an
\* observation lasts, whatever processes end, nodes leave and rounds take their
\* time (BuildDirectory, WeightEndpoints, applyReadiness).
THEOREM TrafficIsMeasured == Spec => []Measured
<1>1. Init => Sound /\ Fresh
  <2>1. Init => Fresh
    <3>1. TTL \in Nat
      BY TrafficAssumption, Zenon
    <3>2. Init => down = [s \in Slots |-> TTL] /\ up = {} /\ \A s \in Slots : alloc[s] = Absent
      BY Zenon DEF Init
    <3> QED BY <3>1, <3>2, AbsentForms, Zenon DEF Fresh, ReadyAt
  <2> QED BY <2>1, InitSound, Zenon
<1>2. Sound /\ Fresh /\ [Next]_vars => (Sound /\ Fresh)'
  <2>1. ASSUME Fresh, UNCHANGED vars PROVE Fresh'
    BY <2>1, FreshKept, Zenon DEF vars, budgets, Slots
  <2> QED BY <2>1, SoundStep, NextFresh, Zenon
<1>3. Sound /\ Fresh => Measured
  <2>1. ASSUME Sound, Fresh, NEW w \in case.workloads, NEW s \in DOMAIN WeightEndpoints(w)
        PROVE  down[s] < TTL
    <3>1. s \in Slots /\ ReadyAt(s)
      BY <2>1, WeightedReady, Zenon DEF BuildDirectory, Of
    <3>2. alloc[s].left \in Nat /\ down[s] \in Nat /\ TTL \in Nat
      BY <2>1, <3>1, TrafficAssumption DEF Sound, Shaped, Fresh
    <3> QED BY <2>1, <3>1, <3>2 DEF Fresh, ReadyAt
  <2> QED BY <2>1, Zenon DEF Measured
<1> QED BY <1>1, <1>2, <1>3, PTL DEF Spec

-----------------------------------------------------------------------------
(* The rules that are in force.                                             *)

Ruled(r) == r = [healthy |-> r.healthy, zone |-> r.zone, policy |-> r.policy]

\* What the world believes a node enforces, and what its daemon remembers to have
\* applied, is the table, unless the node was killed while it applied rules.
Enforced ==
    /\ node = [n \in Nodes |-> node[n]] /\ \A n \in Nodes : Ruled(node[n])
    /\ table = [n \in Nodes |-> table[n]] /\ applied = [n \in Nodes |-> applied[n]]
    /\ \A n \in Nodes \ unheard :
        /\ node[n].policy # None => table[n] = node[n].policy
        /\ applied[n] # None => table[n] = applied[n]

LEMMA RuledForms ==
    ASSUME NEW r, Ruled(r), NEW x
    PROVE  /\ Ruled([r EXCEPT !.zone = x]) /\ [r EXCEPT !.zone = x].policy = r.policy
           /\ [r EXCEPT !.zone = x].healthy = r.healthy
           /\ Ruled([r EXCEPT !.policy = x]) /\ [r EXCEPT !.policy = x].policy = x
<1>2. [r EXCEPT !.zone = x] = [healthy |-> r.healthy, zone |-> x, policy |-> r.policy]
  BY DEF Ruled
<1>3. [r EXCEPT !.policy = x] = [healthy |-> r.healthy, zone |-> r.zone, policy |-> x]
  BY DEF Ruled
<1>5. /\ Ruled([r EXCEPT !.zone = x]) /\ [r EXCEPT !.zone = x].policy = r.policy
      /\ [r EXCEPT !.zone = x].healthy = r.healthy
  BY <1>2, Zenon DEF Ruled
<1>6. Ruled([r EXCEPT !.policy = x]) /\ [r EXCEPT !.policy = x].policy = x
  BY <1>3, Zenon DEF Ruled
<1> QED BY <1>5, <1>6, Zenon

LEMMA HealthForms ==
    ASSUME NEW r, Ruled(r), NEW x, NEW q, q = [r EXCEPT !.healthy = x]
    PROVE  Ruled(q) /\ q.policy = r.policy
<1>1. q = [healthy |-> x, zone |-> r.zone, policy |-> r.policy]
  BY Zenon DEF Ruled
<1> QED BY <1>1, Zenon DEF Ruled

LEMMA PassHealth ==
    ASSUME Enforced, StartPass
    PROVE  /\ node' = [n \in Nodes |-> node'[n]]
           /\ \A n \in Nodes : Ruled(node'[n]) /\ node'[n].policy = node[n].policy
<1>1. node' = [n \in Nodes |-> [node[n] EXCEPT !.healthy = n \in connected]]
  BY Zenon DEF StartPass
<1>2. ASSUME NEW n \in Nodes
      PROVE  Ruled(node'[n]) /\ node'[n].policy = node[n].policy
  <2> DEFINE x == (n \in connected)
  <2>1. node'[n] = [node[n] EXCEPT !.healthy = x] /\ Ruled(node[n])
    BY <1>1, Zenon DEF Enforced
  <2> HIDE DEF x
  <2> QED BY <2>1, HealthForms
<1> QED BY <1>1, <1>2, Zenon

LEMMA ZoneNoted ==
    ASSUME Enforced, NEW n \in Nodes, PublishZone(n)
    PROVE  /\ node' = [m \in Nodes |-> node'[m]]
           /\ \A m \in Nodes : /\ Ruled(node'[m]) /\ node'[m].policy = node[m].policy
                              /\ node'[m].healthy = node[m].healthy
<1> DEFINE r == [node[n] EXCEPT !.zone = Head(plan).data]
<1>1. node' = [node EXCEPT ![n] = r]
  BY Zenon DEF PublishZone
<1>2. Ruled(r) /\ r.policy = node[n].policy /\ r.healthy = node[n].healthy
  BY RuledForms, Zenon DEF Enforced
<1> HIDE DEF r
<1> QED BY <1>1, <1>2, Zenon DEF Enforced

LEMMA EnforcedKept ==
    ASSUME Enforced, Nodes' = Nodes, unheard \subseteq unheard', UNCHANGED <<table, applied>>,
           node' = [n \in Nodes |-> node'[n]],
           \A n \in Nodes : Ruled(node'[n]) /\ node'[n].policy = node[n].policy
    PROVE  Enforced'
BY Zenon DEF Enforced, Ruled

LEMMA PolicyEnforced ==
    ASSUME Enforced, NEW n \in Nodes, ApplyPolicy(n), Nodes' = Nodes
    PROVE  Enforced'
<1> DEFINE rules == Head(plan).data
           r == [node[n] EXCEPT !.policy = rules]
<1>1. Ruled(r) /\ r.policy = rules
  <2>1. Ruled(node[n])
    BY Zenon DEF Enforced
  <2> HIDE DEF rules
  <2> QED BY <2>1, RuledForms
<1>2. CASE /\ UNCHANGED unheard
           /\ table' = [table EXCEPT ![n] = IF applied[n] = rules THEN table[n] ELSE rules]
           /\ applied' = [applied EXCEPT ![n] = rules]
           /\ node' = [node EXCEPT ![n] = r]
  <2> HIDE DEF r, rules
  <2>1. /\ \A m \in Nodes \ {n} : /\ table'[m] = table[m] /\ applied'[m] = applied[m]
                                 /\ node'[m] = node[m]
        /\ applied'[n] = rules /\ node'[n] = r
        /\ table'[n] = IF applied[n] = rules THEN table[n] ELSE rules
    BY <1>2, Zenon DEF Enforced
  <2>2. /\ node' = [m \in Nodes |-> node'[m]] /\ table' = [m \in Nodes |-> table'[m]]
        /\ applied' = [m \in Nodes |-> applied'[m]]
    BY <1>2, Zenon DEF Enforced
  <2>3. n \notin unheard /\ rules # None => table'[n] = rules
    BY <2>1, Zenon DEF Enforced
  <2> QED BY <1>1, <1>2, <2>1, <2>2, <2>3 DEF Enforced, Ruled
<1>3. CASE /\ UNCHANGED <<node, table, unheard>>
           /\ applied' = [applied EXCEPT ![n] = applied[n]]
  BY <1>3, Zenon DEF Enforced, Ruled
<1>4. CASE /\ UNCHANGED node /\ unheard' = unheard \cup {n}
           /\ applied' = [applied EXCEPT ![n] = applied[n]]
           /\ table' = [table EXCEPT ![n] = rules]
  <2> HIDE DEF rules
  <2> QED BY <1>4, Zenon DEF Enforced, Ruled
<1> QED BY <1>2, <1>3, <1>4, Zenon DEF ApplyPolicy, Remembered

LEMMA NextEnforced ==
    ASSUME Enforced, Next
    PROVE  Enforced'
<1>0. Nodes' = Nodes
  BY CaseStays, Zenon
<1>1. CASE StartPass
  BY <1>0, <1>1, PassHealth, EnforcedKept, Zenon DEF StartPass, capabilities
<1>2. ASSUME NEW n \in Nodes, ApplyPolicy(n) PROVE Enforced'
  BY <1>0, <1>2, PolicyEnforced, Zenon
<1>3. ASSUME NEW n \in Nodes, PublishZone(n) PROVE Enforced'
  BY <1>0, <1>3, ZoneNoted, EnforcedKept, Zenon DEF PublishZone
<1>4. ASSUME NEW n \in Nodes, Restart(n) PROVE Enforced'
  BY <1>0, <1>4, Zenon DEF Restart, Enforced, Ruled
<1>5. CASE unheard \subseteq unheard' /\ UNCHANGED <<node, table, applied>>
  BY <1>0, <1>5, EnforcedKept, ZenonT(30) DEF Enforced
<1>6. CASE \/ (\E w \in case.workloads : StartRun(w) \/ Approve(w) \/ \E i \in Images : Submit(w, i))
           \/ StartRound \/ Turn \/ Undelivered \/ Tick
           \/ (\E s \in Slots : Retire(s) \/ Die(s) \/ Revive(s) \/ \E n \in Nodes : Place(s, n))
           \/ (\E n \in Nodes : PublishRoute(n) \/ Reconnect(n) \/ Disconnect(n))
  BY <1>5, <1>6, ZenonT(30)
     DEF StartRun, Approve, Submit, StartRound, Turn, Undelivered, Tick, Retire, Die,
        Revive, Place, PublishRoute, Reconnect, Disconnect, capabilities
<1> QED BY <1>1, <1>2, <1>3, <1>4, <1>6, Zenon DEF Next, Loop, Recover

LEMMA EnforcedStep ==
    ASSUME Enforced, [Next]_vars
    PROVE  Enforced'
<1>1. CASE UNCHANGED vars
  BY <1>1, EnforcedKept, Zenon DEF vars, capabilities, budgets, Nodes, Enforced
<1> QED BY <1>1, NextEnforced, Zenon

LEMMA InitEnforced ==
    ASSUME Init
    PROVE  Enforced
<1> DEFINE yes == TRUE
           fresh == [healthy |-> yes, zone |-> None, policy |-> None]
<1>1. node = [n \in Nodes |-> fresh]
  BY Zenon DEF Init
<1> HIDE DEF yes
<1>2. Ruled(fresh) /\ fresh.policy = None
  BY Zenon DEF Ruled
<1> HIDE DEF fresh
<1> QED BY <1>1, <1>2, Zenon DEF Init, Enforced

\* The rules the world believes a node enforces are in force there, however the
\* goals replace each other's rules and whatever is refused, repeated or
\* restarted (Firewall.Execute, applyNetworkPolicy).
THEOREM RulesAreEnforced == Spec => []EnforcedAsBelieved
<1>1. Init => Enforced
  BY InitEnforced, Zenon
<1>2. Enforced /\ [Next]_vars => Enforced'
  BY EnforcedStep, Zenon
<1>3. Enforced => EnforcedAsBelieved
  BY Zenon DEF Enforced, EnforcedAsBelieved
<1> QED BY <1>1, <1>2, <1>3, PTL DEF Spec

-----------------------------------------------------------------------------
(* The plan that is executed.                                               *)

\* The rules cover what a zone names, but for nodes that are not healthy or were
\* killed while they applied rules.
Covered(z) ==
    \A e \in z.ends :
        /\ e.node \in Nodes
        /\ z.name \in case.policies /\ node[e.node].healthy /\ e.node \notin unheard
              => table[e.node] # None /\ e.slot \in table[e.node]

\* Rules are sent alone, a route is a goal's, and a zone is covered.
Fitting(p, x) ==
    /\ x.kind = "policy" => Len(p) = 1
    /\ x.kind = "route" => x.data \in case.workloads
    /\ x.kind = "zone" => Covered(x.data)

Planned ==
    /\ \E S : plan \in Seq(S)
    /\ (pc = "execute") <=> (plan # <<>>)
    /\ pc # "idle" => run \in case.workloads
    /\ \A i \in 1 .. Len(plan) : Fitting(plan, plan[i])

LEMMA RulesForms ==
    ASSUME NEW w, Rules(w) # <<>>
    PROVE  /\ Len(Rules(w)) = 1 /\ Rules(w)[1].kind = "policy" /\ \E S : Rules(w) \in Seq(S)
<1>1. PICK n, d : Rules(w) = <<[kind |-> "policy", node |-> n, data |-> d]>>
  BY Zenon DEF Rules, OneNode, Act
<1> DEFINE a == [kind |-> "policy", node |-> n, data |-> d]
<1>2. a.kind = "policy" /\ Rules(w) = <<a>>
  BY <1>1, Zenon
<1> HIDE DEF a
<1>3. Rules(w) \in Seq({a}) /\ Len(Rules(w)) = 1 /\ Rules(w)[1] = a
  BY <1>2
<1>4. \E S : Rules(w) \in Seq(S)
  BY <1>3, Zenon
<1> QED BY <1>2, <1>3, <1>4, Zenon

LEMMA NamesForms ==
    ASSUME LeastMembers, Sound, NEW w, Names(w) # <<>>
    PROVE  \E n, a : /\ Names(w) = <<a>> /\ a.kind = "zone" /\ a.data = Zone(w, n)
                     /\ Zone(w, n) # None
<1> DEFINE m == Min(StaleZones(w))
<1>1. StaleZones(w) # {} /\ Names(w) = <<Act("zone", m, Zone(w, m))>>
  BY Zenon DEF Names, OneNode
<1>2. \A n \in StaleZones(w) : Zone(w, n) # None
  BY Zenon DEF StaleZones
<1>3. m \in StaleZones(w)
  BY <1>1, MinimumOf, TrafficAssumption, Zenon DEF StaleZones, Nodes, Sound
<1> DEFINE z == Zone(w, m)
           a == Act("zone", m, z)
<1> HIDE DEF z
<1>4. a.kind = "zone" /\ a.data = z
  BY Zenon DEF Act
<1> HIDE DEF a
<1>5. Names(w) = <<a>>
  BY <1>1, Zenon DEF a, z
<1> QED BY <1>2, <1>3, <1>4, <1>5, Zenon DEF z

LEMMA RouteForms ==
    ASSUME NEW w
    PROVE  Route(w) = <<>> \/ \E a : Route(w) = <<a>> /\ a.kind = "route" /\ a.data = w
<1>1. CASE Route(w) # <<>>
  <2>1. Route(w) = <<[kind |-> "route", node |-> RouteNode(w), data |-> w]>>
    BY <1>1, Zenon DEF Route, Act
  <2> DEFINE a == [kind |-> "route", node |-> RouteNode(w), data |-> w]
  <2>2. a.kind = "route" /\ a.data = w
    BY Zenon
  <2> QED BY <2>1, <2>2, Zenon
<1> QED BY <1>1, Zenon

\* The network agent proposes names only when every healthy node with a replica
\* has the rules for it.
LEMMA ZoneCovered ==
    ASSUME Sound, Enforced, NEW w \in case.workloads, NEW n, Rules(w) = <<>>,
           Zone(w, n) # None
    PROVE  Covered(Zone(w, n))
<1>1. StalePolicies(w) = {}
  BY Zenon DEF Rules, OneNode
<1> DEFINE there == {[slot |-> s, node |-> alloc[s].node] : s \in Resolve(w, n)}
<1>2. Zone(w, n).name = w /\ Zone(w, n).ends = there
  <2>1. Zone(w, n) = [name |-> w, ends |-> there]
    BY Zenon DEF Zone
  <2> HIDE DEF there
  <2> QED BY <2>1
<1>3. ASSUME NEW e \in there
      PROVE  \E s \in Slots : /\ e.slot = s /\ e.node = alloc[s].node /\ s \in Of(w)
                             /\ alloc[s].phase = "running" /\ alloc[s].node \in Nodes
  <2>1. PICK s \in Resolve(w, n) : e = [slot |-> s, node |-> alloc[s].node]
    BY <1>3, Zenon
  <2>2. e.slot = s /\ e.node = alloc[s].node
    BY <2>1, Zenon
  <2>3. s \in Of(w) /\ s \in Slots /\ alloc[s].ready
    BY Zenon DEF Resolve, BuildDirectory, ReadyAt, Of
  <2> QED BY <2>2, <2>3, Zenon DEF Sound
<1>4. ASSUME NEW e \in there, w \in case.policies, node[e.node].healthy, e.node \notin unheard
      PROVE  table[e.node] # None /\ e.slot \in table[e.node]
  <2>1. PICK s \in Slots : /\ e.slot = s /\ e.node = alloc[s].node /\ s \in Of(w)
                           /\ alloc[s].phase = "running" /\ alloc[s].node \in Nodes
    BY <1>3, Zenon
  <2> DEFINE here == LocalAddresses(w, e.node)
  <2>2. s \in here
    BY <2>1, Zenon DEF LocalAddresses
  <2>3. here # None
    <3>1. here \in SUBSET (case.workloads \X (1 .. case.replicas))
      BY Zenon DEF LocalAddresses, Of, Slots
    <3> HIDE DEF here
    <3> QED BY <3>1, TrafficAssumption DEF Sound
  <2>4. node[e.node].policy = here
    BY <1>1, <1>4, <2>1, <2>2, Zenon DEF StalePolicies
  <2> HIDE DEF here
  <2>5. table[e.node] = here
    BY <1>4, <2>1, <2>3, <2>4, Zenon DEF Enforced
  <2> QED BY <2>1, <2>2, <2>3, <2>5, Zenon
<1>5. \A e \in there : e.node \in Nodes
  BY <1>3, Zenon
<1> HIDE DEF there
<1> QED BY <1>2, <1>4, <1>5, Zenon DEF Covered

LEMMA ProposalFits ==
    ASSUME LeastMembers, Sound, Enforced, NEW w \in case.workloads, NEW p, p = Propose(w), p # <<>>
    PROVE  (\E S : p \in Seq(S)) /\ \A i \in 1 .. Len(p) : Fitting(p, p[i])
<1>1. CASE Rules(w) # <<>>
  <2>1. p = Rules(w)
    BY <1>1, Zenon DEF Propose
  <2>2. Len(p) = 1 /\ p[1].kind = "policy" /\ \E S : p \in Seq(S)
    BY <1>1, <2>1, RulesForms, Zenon
  <2> QED BY <2>2 DEF Fitting
<1>2. CASE Rules(w) = <<>>
  <2>1. p = Names(w) \o Route(w)
    BY <1>2, Zenon DEF Propose
  <2>2. ASSUME NEW a, a.kind = "route", a.data = w PROVE Fitting(p, a)
    BY <2>2, Zenon DEF Fitting
  <2>3. ASSUME NEW n, NEW a, a.kind = "zone", a.data = Zone(w, n), Zone(w, n) # None
        PROVE  Fitting(p, a)
    BY <1>2, <2>3, ZoneCovered, Zenon DEF Fitting
  <2>4. \E S : /\ Names(w) \in Seq(S) /\ Route(w) \in Seq(S)
               /\ \A a \in S : Fitting(p, a)
    <3>1. \E S : Names(w) \in Seq(S) /\ \A a \in S : Fitting(p, a)
      <4>1. CASE Names(w) = <<>>
        <5>1. Names(w) \in Seq({})
          BY <4>1
        <5> QED BY <5>1
      <4>2. CASE Names(w) # <<>>
        <5>1. PICK n, a : /\ Names(w) = <<a>> /\ a.kind = "zone" /\ a.data = Zone(w, n)
                          /\ Zone(w, n) # None
          BY <4>2, NamesForms, Zenon
        <5>2. Names(w) \in Seq({a}) /\ Fitting(p, a)
          BY <2>3, <5>1
        <5> QED BY <5>2
      <4> QED BY <4>1, <4>2, Zenon
    <3>2. \E S : Route(w) \in Seq(S) /\ \A a \in S : Fitting(p, a)
      <4>1. CASE Route(w) = <<>>
        <5>1. Route(w) \in Seq({})
          BY <4>1
        <5> QED BY <5>1
      <4>2. CASE Route(w) # <<>>
        <5>1. PICK a : Route(w) = <<a>> /\ a.kind = "route" /\ a.data = w
          BY <4>2, RouteForms, Zenon
        <5>2. Route(w) \in Seq({a}) /\ Fitting(p, a)
          BY <2>2, <5>1
        <5> QED BY <5>2
      <4> QED BY <4>1, <4>2, Zenon
    <3>3. PICK S : Names(w) \in Seq(S) /\ \A a \in S : Fitting(p, a)
      BY <3>1, Zenon
    <3>4. PICK T : Route(w) \in Seq(T) /\ \A a \in T : Fitting(p, a)
      BY <3>2, Zenon
    <3>5. Names(w) \in Seq(S \cup T) /\ Route(w) \in Seq(S \cup T)
      BY <3>3, <3>4
    <3>6. \A a \in S \cup T : Fitting(p, a)
      BY <3>3, <3>4, Zenon
    <3> QED BY <3>5, <3>6, Zenon
  <2>5. PICK S : Names(w) \in Seq(S) /\ Route(w) \in Seq(S) /\ \A a \in S : Fitting(p, a)
    BY <2>4, Zenon
  <2>6. p \in Seq(S)
    BY <2>1, <2>5
  <2>7. \A i \in 1 .. Len(p) : p[i] \in S
    BY <2>6
  <2> QED BY <2>5, <2>6, <2>7, Zenon
<1> QED BY <1>1, <1>2, Zenon

\* What a step may do to the plan that is executed, and to what its zones need.
LEMMA PlanEnds ==
    ASSUME Planned, case' = case, plan' = <<>>, pc' # "execute",
           pc' # "idle" => run' \in case.workloads
    PROVE  Planned'
<1>1. plan' \in Seq({})
  OBVIOUS
<1> QED BY <1>1 DEF Planned

LEMMA PlanGoesOn ==
    ASSUME Planned, case' = case, UNCHANGED <<plan, pc, run, node, table>>,
           unheard \subseteq unheard'
    PROVE  Planned'
<1>1. \A x : Fitting(plan, x) => Fitting(plan, x)'
  BY Zenon DEF Fitting, Covered, Nodes
<1> QED BY <1>1, Zenon DEF Planned

LEMMA PlanShortens ==
    ASSUME Planned, pc = "execute", Len(plan) # 1, case' = case, plan' = Tail(plan),
           UNCHANGED <<pc, run, table, unheard>>,
           \A n \in Nodes : node'[n].healthy = node[n].healthy
    PROVE  Planned'
<1>1. PICK S : plan \in Seq(S)
  BY Zenon DEF Planned
<1>2. plan # <<>> /\ Len(plan) \in Nat /\ Len(plan) > 1
  <2>1. plan # <<>>
    BY Zenon DEF Planned
  <2>2. Len(plan) \in Nat \ {0}
    BY <1>1, <2>1
  <2> DEFINE n == Len(plan)
  <2>3. n \in Nat \ {0} /\ n # 1
    BY <2>2, Zenon
  <2> HIDE DEF n
  <2>4. n \in Nat /\ n > 1
    BY <2>3
  <2> QED BY <2>1, <2>4, Zenon DEF n
<1> DEFINE rest == Tail(plan)
<1>3. /\ rest \in Seq(S) /\ Len(rest) = Len(plan) - 1
      /\ \A i \in 1 .. Len(rest) : rest[i] = plan[i + 1]
  BY <1>1, <1>2
<1>4. plan' = rest
  BY Zenon
<1> HIDE DEF rest
<1>5. rest # <<>>
  BY <1>2, <1>3
<1>6. ASSUME NEW i \in 1 .. Len(plan'), NEW x, x = plan'[i] PROVE Fitting(plan, x)'
  <2>1. x = plan[i + 1] /\ i + 1 \in 1 .. Len(plan)
    BY <1>2, <1>3, <1>4, <1>6
  <2>2. Fitting(plan, x)
    BY <2>1, Zenon DEF Planned
  <2>3. x.kind # "policy"
    BY <2>2, Zenon DEF Fitting
  <2>4. x.kind = "route" => x.data \in case'.workloads
    BY <2>2, Zenon DEF Fitting
  <2>5. Covered(x.data) => Covered(x.data)'
    BY Zenon DEF Covered, Nodes
  <2> QED BY <2>2, <2>3, <2>4, <2>5, Zenon DEF Fitting
<1>7. \E T : plan' \in Seq(T)
  BY <1>3, <1>4, Zenon
<1>8. (pc' = "execute") <=> (plan' # <<>>)
  BY <1>4, <1>5, Zenon
<1>9. pc' # "idle" => run' \in case'.workloads
  BY Zenon DEF Planned
<1> QED BY <1>6, <1>7, <1>8, <1>9, Zenon DEF Planned

LEMMA RoundEnds ==
    ASSUME Planned, NEW moved, EndRound(moved), pc # "idle"
    PROVE  plan' = <<>> /\ pc' # "execute" /\ (pc' # "idle" => run' \in case.workloads)
BY Zenon DEF Planned, EndRound

LEMMA ActionDone ==
    ASSUME Planned, Advance, pc = "execute"
    PROVE  \/ /\ plan' = <<>> /\ pc' # "execute"
              /\ pc' # "idle" => run' \in case.workloads
           \/ Len(plan) # 1 /\ plan' = Tail(plan) /\ UNCHANGED <<pc, run>>
BY Zenon DEF Planned, Advance, EndRound

\* What a node is sent first is of its kind.
LEMMA HeadFits ==
    ASSUME Planned, pc = "execute", NEW x, x = Head(plan)
    PROVE  Fitting(plan, x)
<1>1. PICK S : plan \in Seq(S)
  BY Zenon DEF Planned
<1>2. plan # <<>>
  BY Zenon DEF Planned
<1>3. Len(plan) \in Nat \ {0}
  BY <1>1, <1>2
<1>4. Head(plan) = plan[1] /\ 1 \in 1 .. Len(plan)
  BY <1>1, <1>2, <1>3
<1> QED BY <1>4, Zenon DEF Planned

LEMMA TurnPlans ==
    ASSUME LeastMembers, Sound, Enforced, Planned, Turn, case' = case
    PROVE  Planned'
<1> DEFINE p == Propose(run)
<1>0. pc = "agents" /\ UNCHANGED <<node, table, unheard>> /\ run \in case.workloads
  BY Zenon DEF Turn, Planned, capabilities
<1>1. CASE EndRound(progress)
  BY <1>0, <1>1, RoundEnds, PlanEnds, Zenon
<1>2. CASE p # <<>> /\ pc' = "execute" /\ plan' = p /\ run' = run
  <2>1. (\E S : p \in Seq(S)) /\ \A i \in 1 .. Len(p) : Fitting(p, p[i])
    BY <1>0, <1>2, ProposalFits, Zenon
  <2>2. p = plan'
    BY <1>2, Zenon
  <2> HIDE DEF p
  <2>3. ASSUME NEW i \in 1 .. Len(plan'), NEW x, x = plan'[i] PROVE Fitting(plan, x)'
    <3>1. Fitting(p, x)
      BY <2>1, <2>2, <2>3, Zenon
    <3>2. Covered(x.data) => Covered(x.data)'
      BY <1>0, Zenon DEF Covered, Nodes
    <3> QED BY <2>2, <3>1, <3>2, Zenon DEF Fitting
  <2> QED BY <1>0, <1>2, <2>1, <2>2, <2>3, Zenon DEF Planned
<1> QED BY <1>1, <1>2, Zenon DEF Turn

LEMMA NextPlanned ==
    ASSUME LeastMembers, Sound, Enforced, Planned, Next
    PROVE  Planned'
<1>0. case' = case
  BY CaseStays, Zenon
<1>1. CASE StartPass
  BY <1>0, <1>1, PlanEnds, Zenon DEF StartPass, Planned
<1>2. ASSUME NEW w \in case.workloads, StartRun(w) PROVE Planned'
  BY <1>0, <1>2, PlanEnds, Zenon DEF StartRun, Planned
<1>3. CASE StartRound
  <2>1. CASE EndRun
    BY <1>0, <1>3, <2>1, RoundEnds, PlanEnds, Zenon DEF StartRound, EndRun
  <2>2. CASE pc' = "agents" /\ UNCHANGED <<run, plan>>
    BY <1>0, <1>3, <2>2, PlanEnds, Zenon DEF StartRound, Planned
  <2> QED BY <1>3, <2>1, <2>2, Zenon DEF StartRound
<1>4. CASE Turn
  BY <1>0, <1>4, TurnPlans, Zenon
<1>5. ASSUME NEW n \in Nodes, ApplyPolicy(n) PROVE Planned'
  <2>1. pc = "execute" /\ Head(plan).kind = "policy" /\ (Advance \/ EndRun)
    BY <1>5, Zenon DEF ApplyPolicy, Executes
  <2>2. Len(plan) = 1
    BY <2>1, HeadFits, Zenon DEF Fitting
  <2>3. EndRound(TRUE) \/ EndRound(FALSE)
    BY <2>1, <2>2, Zenon DEF Advance, EndRun
  <2> QED BY <1>0, <2>1, <2>3, RoundEnds, PlanEnds, Zenon
<1>6. ASSUME NEW n \in Nodes, PublishZone(n) PROVE Planned'
  <2>1. pc = "execute" /\ Advance /\ UNCHANGED <<table, unheard>>
    BY <1>6, Zenon DEF PublishZone, Executes
  <2>2. \A m \in Nodes : node'[m].healthy = node[m].healthy
    BY <1>6, ZoneNoted, Zenon
  <2>3. CASE /\ plan' = <<>> /\ pc' # "execute"
             /\ pc' # "idle" => run' \in case.workloads
    BY <1>0, <2>3, PlanEnds, Zenon
  <2>4. CASE Len(plan) # 1 /\ plan' = Tail(plan) /\ UNCHANGED <<pc, run>>
    <3>1. UNCHANGED <<pc, run, table, unheard>>
      BY <2>1, <2>4, Zenon
    <3> QED BY <1>0, <2>1, <2>2, <2>4, <3>1, PlanShortens, Zenon
  <2> QED BY <2>1, <2>3, <2>4, ActionDone, Zenon
<1>7. ASSUME NEW n \in Nodes, PublishRoute(n) PROVE Planned'
  <2>1. pc = "execute" /\ UNCHANGED node /\ UNCHANGED table
    BY <1>7, Zenon DEF PublishRoute, Executes
  <2>2. CASE EndRun
    BY <1>0, <2>1, <2>2, RoundEnds, PlanEnds, Zenon DEF EndRun
  <2>3. CASE Advance /\ UNCHANGED unheard
    BY <1>0, <2>1, <2>3, ActionDone, PlanEnds, PlanShortens, Zenon
  <2> QED BY <1>7, <2>2, <2>3, Zenon DEF PublishRoute
<1>8. CASE Undelivered
  <2>1. pc # "idle" /\ EndRound(FALSE)
    BY <1>8, Zenon DEF Undelivered, EndRun
  <2> QED BY <1>0, <2>1, RoundEnds, PlanEnds, Zenon
<1>9. CASE \/ Tick
           \/ (\E s \in Slots : Retire(s) \/ Die(s) \/ Revive(s) \/ \E n \in Nodes : Place(s, n))
           \/ (\E n \in Nodes : Reconnect(n) \/ Disconnect(n) \/ Restart(n))
           \/ (\E w \in case.workloads : Approve(w) \/ \E i \in Images : Submit(w, i))
  <2>1. UNCHANGED <<plan, pc, run, node, table, unheard>>
    BY <1>9, Zenon DEF Tick, Retire, Die, Revive, Place, Reconnect, Disconnect, Restart, Approve,
                Submit, capabilities, loop
  <2> QED BY <1>0, <2>1, PlanGoesOn, Zenon
<1> QED BY <1>1, <1>2, <1>3, <1>4, <1>5, <1>6, <1>7, <1>8, <1>9, Zenon DEF Next, Loop, Recover

-----------------------------------------------------------------------------
(* The routes.                                                              *)

\* A route the world holds was taken by some router, and what a router remembers
\* its gateway has.
Routed ==
    /\ routes = [n \in Nodes |-> routes[n]] /\ gateway = [n \in Nodes |-> gateway[n]]
    /\ \A w \in published :
         w \in case.workloads /\ \E n \in Nodes : n \in restarted \/ w \in routes[n]
    /\ \A n \in Nodes, w \in case.workloads :
         n \notin restarted /\ w \in routes[n] => gateway[n][w] # None

\* The upstreams of a route are a set, be it the empty one.
LEMMA UpstreamsThere ==
    ASSUME Sound, NEW v, NEW n
    PROVE  Upstreams(v, n) # None
<1>1. Upstreams(v, n) \in SUBSET (case.workloads \X (1 .. case.replicas))
  BY Zenon DEF Upstreams, Of, Slots
<1>2. case \in Cases
  BY Zenon DEF Sound
<1> HIDE DEF Upstreams
<1> QED BY <1>1, <1>2, TrafficAssumption

LEMMA RoutePublished ==
    ASSUME Sound, Planned, Routed, NEW n \in Nodes, PublishRoute(n), case' = case
    PROVE  Routed'
<1> DEFINE w == Head(plan).data
           known == routes[n] \cup {w}
           there == Snapshot(n, known, w)
<1>1. pc = "execute" /\ Head(plan).kind = "route" /\ restarted' = restarted /\ Nodes' = Nodes
  BY Zenon DEF PublishRoute, Executes, Nodes
<1>2. w \in case.workloads
  BY <1>1, HeadFits, Zenon DEF Fitting
<1>3. \A v \in case.workloads \cap known : there[v] # None
  BY UpstreamsThere, Zenon DEF Snapshot
<1>4. \/ /\ routes' = [routes EXCEPT ![n] = known] /\ gateway' = [gateway EXCEPT ![n] = there]
         /\ published' = published \cup {w}
      \/ UNCHANGED routes /\ UNCHANGED published /\ UNCHANGED gateway
      \/ /\ UNCHANGED routes /\ UNCHANGED published
         /\ gateway' = [gateway EXCEPT ![n] = there]
  BY Zenon DEF PublishRoute
<1>5. w \in known /\ routes[n] \subseteq known
  BY Zenon
<1> HIDE DEF w, known, there
<1>6. CASE /\ routes' = [routes EXCEPT ![n] = known] /\ gateway' = [gateway EXCEPT ![n] = there]
           /\ published' = published \cup {w}
  <2>1. /\ routes'[n] = known /\ gateway'[n] = there
        /\ \A m \in Nodes \ {n} : routes'[m] = routes[m] /\ gateway'[m] = gateway[m]
        /\ routes' = [m \in Nodes |-> routes'[m]] /\ gateway' = [m \in Nodes |-> gateway'[m]]
    BY <1>6, Zenon DEF Routed
  <2>2. \A m \in Nodes, v \in case.workloads :
          m \notin restarted /\ v \in routes'[m] => gateway'[m][v] # None
    BY <1>3, <2>1, Zenon DEF Routed
  <2>3. ASSUME NEW v \in published'
        PROVE  v \in case.workloads /\ \E m \in Nodes : m \in restarted \/ v \in routes'[m]
    <3>1. CASE v = w
      BY <1>2, <1>5, <2>1, <3>1, Zenon
    <3>2. CASE v \in published
      BY <1>5, <2>1, <3>2, Zenon DEF Routed
    <3> QED BY <1>6, <2>3, <3>1, <3>2, Zenon
  <2> QED BY <1>1, <2>1, <2>2, <2>3, Zenon DEF Routed
<1>7. CASE UNCHANGED routes /\ UNCHANGED published /\ UNCHANGED gateway
  BY <1>1, <1>7, Zenon DEF Routed
<1>8. CASE /\ UNCHANGED routes /\ UNCHANGED published
           /\ gateway' = [gateway EXCEPT ![n] = there]
  <2>1. /\ gateway'[n] = there /\ \A m \in Nodes \ {n} : gateway'[m] = gateway[m]
        /\ gateway' = [m \in Nodes |-> gateway'[m]]
    BY <1>8, Zenon DEF Routed
  <2>2. \A m \in Nodes, v \in case.workloads :
          m \notin restarted /\ v \in routes[m] => gateway'[m][v] # None
    BY <1>3, <1>5, <2>1, Zenon DEF Routed
  <2> QED BY <1>1, <1>8, <2>1, <2>2, Zenon DEF Routed
<1> QED BY <1>4, <1>6, <1>7, <1>8, Zenon

LEMMA NextRouted ==
    ASSUME Sound, Planned, Routed, Next
    PROVE  Routed'
<1>0. case' = case /\ Nodes' = Nodes
  BY CaseStays, Zenon
<1>1. ASSUME NEW n \in Nodes, PublishRoute(n) PROVE Routed'
  BY <1>0, <1>1, RoutePublished, Zenon
<1>2. ASSUME NEW n \in Nodes, Restart(n) PROVE Routed'
  <2>1. /\ restarted' = restarted \cup {n} /\ UNCHANGED published /\ UNCHANGED gateway
        /\ routes' = [routes EXCEPT ![n] = {}]
    BY <1>2, Zenon DEF Restart
  <2>2. /\ \A m \in Nodes \ {n} : routes'[m] = routes[m]
        /\ routes' = [m \in Nodes |-> routes'[m]]
    BY <2>1, Zenon DEF Routed
  <2> QED BY <1>0, <2>1, <2>2 DEF Routed
<1>3. CASE UNCHANGED <<routes, gateway, published, restarted>>
  BY <1>0, <1>3, Zenon DEF Routed
<1>4. \/ \E n \in Nodes : PublishRoute(n) \/ Restart(n)
      \/ UNCHANGED <<routes, gateway, published, restarted>>
  BY Zenon DEF Next, Loop, Recover, StartPass, StartRun, StartRound, Tick, Place, Retire, Turn,
         ApplyPolicy, PublishZone, Undelivered, Revive, Reconnect, Die, Disconnect, Approve,
         Submit, capabilities
<1> QED BY <1>1, <1>2, <1>3, <1>4, Zenon

-----------------------------------------------------------------------------
(* Numbers and sets, from the library.                                      *)

LOCAL INSTANCE FiniteSetTheorems

\* A set of natural numbers has a least one.
LEMMA LeastOf == LeastMembers
<1> SUFFICES ASSUME NEW S \in SUBSET Nat, S # {}
             PROVE  \E x \in S : \A y \in S : x <= y
  BY Zenon DEF LeastMembers
<1> DEFINE less == OpToRel(<, Nat)
<1>1. IsWellFoundedOn(less, Nat)
  BY NatLessThanWellFounded, Zenon
<1> HIDE DEF less
<1>2. PICK x \in S : \A y \in S : ~(<<y, x>> \in less)
  BY <1>1, WFMin, Zenon
<1>3. ASSUME NEW y \in S PROVE x <= y
  <2>1. x \in Nat /\ y \in Nat /\ <<y, x>> \in Nat \X Nat
    BY Zenon
  <2>2. y < x => <<y, x>> \in less
    BY <2>1, Zenon DEF OpToRel, less
  <2> QED BY <1>2, <2>1, <2>2
<1> QED BY <1>2, <1>3, Zenon

LEMMA CountingHolds == Counting
<1>1. ASSUME NEW S, IsFiniteSet(S)
      PROVE  /\ Cardinality(S) \in Nat
             /\ \A T \in SUBSET S : IsFiniteSet(T) /\ Cardinality(T) <= Cardinality(S)
             /\ \A x \in S : Cardinality(S \ {x}) = Cardinality(S) - 1
  BY <1>1, FS_CardinalityType, FS_Subset, FS_RemoveElement, Zenon
<1>2. Cardinality({}) = 0
  BY FS_EmptySet, Zenon
<1>3. \A S : (IsFiniteSet(S) <=> Listable(S)) /\ Cardinality(S) = Tally(S)
  <2>1. ASSUME NEW S PROVE IsFiniteSet(S) <=> Listable(S)
    BY Zenon DEF IsFiniteSet, Listable
  <2>2. ASSUME NEW S PROVE Cardinality(S) = Tally(S)
    BY Zenon DEF Cardinality, Tally
  <2> QED BY <2>1, <2>2, Zenon
<1>4. ASSUME NEW S, Listable(S)
      PROVE  /\ Tally(S) \in Nat
             /\ \A T \in SUBSET S : Listable(T) /\ Tally(T) <= Tally(S)
             /\ \A x \in S : Tally(S \ {x}) = Tally(S) - 1
  BY <1>1, <1>3, <1>4, Zenon
<1>5. Tally({}) = 0
  BY <1>2, <1>3, ZenonT(30)
<1> QED BY <1>4, <1>5, LeastOf, Zenon DEF Counting

\* canary.go "whole-number weights that sum to 100": while both versions serve, the
\* new one gets exactly its step and the old one the rest, for any number of
\* replicas no larger than their share, whatever the steps and the hold
\* (WeightEndpoints, shareAcross, EvaluateCanary).
THEOREM WeightsAddUp == Spec => []WeightsExact
<1>1. Init => Sound
  BY InitSound, Zenon
<1>2. Sound /\ [Next]_vars => Sound'
  BY SoundStep, Zenon
<1>3. Sound => WeightsExact
  BY CountingHolds, WeightsAreExact, Zenon
<1> QED BY <1>1, <1>2, <1>3, PTL DEF Spec

-----------------------------------------------------------------------------
(* Names come after rules, and routes are kept.                             *)

LEMMA PlannedAlways == Spec => [](Sound /\ Enforced /\ Planned)
<1>1. Init => Sound /\ Enforced /\ Planned
  <2>1. <<>> \in Seq({})
    OBVIOUS
  <2>2. Init => Planned
    BY <2>1 DEF Init, Planned
  <2> QED BY <2>2, InitSound, InitEnforced, Zenon
<1>2. Sound /\ Enforced /\ Planned /\ [Next]_vars => (Sound /\ Enforced /\ Planned)'
  <2>1. ASSUME Planned, UNCHANGED vars PROVE Planned'
    BY <2>1, PlanGoesOn, Zenon DEF vars, loop, capabilities, budgets
  <2> QED BY <2>1, SoundStep, EnforcedStep, NextPlanned, LeastOf, Zenon
<1> QED BY <1>1, <1>2, PTL DEF Spec

\* When a resolver is given a name, the rules for each of its endpoints on a
\* healthy node are in force there, although the goals replace each other's rules,
\* replicas move, and the daemons restart between the plan and its execution
\* (NetworkAgent.Propose, Firewall.Execute, Resolver.Apply).
THEOREM RulesComeFirst == Spec => PolicyFirst
<1> DEFINE Given == \A n \in Nodes : resolver'[n] \notin {None, resolver[n]} =>
          \A e \in resolver'[n].ends :
             (/\ resolver'[n].name \in case.policies
              /\ node[e.node].healthy /\ e.node \notin unheard)
             => table[e.node] # None /\ e.slot \in table[e.node]
           Functional == resolver = [n \in Nodes |-> resolver[n]]
<1>1. Init => Functional
  BY Zenon DEF Init
<1>2. Functional /\ [Next]_vars => Functional'
  <2>1. ASSUME Functional, Next PROVE Functional'
    <3>1. Nodes' = Nodes
      BY <2>1, CaseStays, Zenon
    <3>2. \/ UNCHANGED resolver
          \/ \E n \in Nodes : \E z : resolver' = [resolver EXCEPT ![n] = z]
      BY <2>1, Zenon DEF Next, Loop, Recover, StartPass, StartRun, StartRound, Tick, Place, Retire,
            Turn, ApplyPolicy, PublishZone, PublishRoute, Undelivered, Revive, Reconnect, Die,
            Disconnect, Restart, Approve, Submit, capabilities
    <3> QED BY <2>1, <3>1, <3>2, Zenon
  <2>2. ASSUME Functional, UNCHANGED vars PROVE Functional'
    BY <2>2, Zenon DEF vars, capabilities, budgets, Nodes
  <2> QED BY <2>1, <2>2, Zenon
<1>3. Functional /\ Sound /\ Enforced /\ Planned /\ [Next]_vars => [Given]_vars
  <2>1. ASSUME Functional, Planned, NEW n \in Nodes, PublishZone(n) PROVE Given
    <3> DEFINE a == Head(plan)
               z == a.data
    <3>1. pc = "execute" /\ a.kind = "zone" /\ resolver' = [resolver EXCEPT ![n] = z]
      BY <2>1, Zenon DEF PublishZone, Executes
    <3>2. Covered(z)
      BY <2>1, <3>1, HeadFits, Zenon DEF Fitting
    <3> HIDE DEF z
    <3>3. resolver'[n] = z /\ \A m \in Nodes \ {n} : resolver'[m] = resolver[m]
      BY <2>1, <3>1, Zenon
    <3> QED BY <3>2, <3>3, Zenon DEF Covered
  <2>2. ASSUME Functional, NEW n \in Nodes, Restart(n) PROVE Given
    <3>1. resolver' = [resolver EXCEPT ![n] = None]
      BY <2>2, Zenon DEF Restart
    <3>2. resolver'[n] = None /\ \A m \in Nodes \ {n} : resolver'[m] = resolver[m]
      BY <2>2, <3>1, Zenon
    <3> QED BY <3>2, Zenon
  <2>3. ASSUME UNCHANGED resolver PROVE Given
    BY <2>3, Zenon
  <2>4. ASSUME Next
        PROVE  \/ \E n \in Nodes : PublishZone(n) \/ Restart(n)
               \/ UNCHANGED resolver
    BY <2>4, Zenon DEF Next, Loop, Recover, StartPass, StartRun, StartRound, Tick, Place, Retire,
          Turn, ApplyPolicy, PublishRoute, Undelivered, Revive, Reconnect, Die,
          Disconnect, Approve, Submit, capabilities
  <2> HIDE DEF Given
  <2> QED BY <2>1, <2>2, <2>3, <2>4, Zenon
<1>4. Spec => [](Sound /\ Enforced /\ Planned)
  BY PlannedAlways, Zenon
<1> HIDE DEF Functional
<1>5. Spec => [][Given]_vars
  <2> HIDE DEF Given
  <2> QED BY <1>1, <1>2, <1>3, <1>4, PTL DEF Spec
<1> QED BY <1>5, Zenon DEF PolicyFirst

\* Every route the world holds is in the gateway of a node, or in that of a node
\* whose daemon has restarted, whatever pushes fail or fail only to answer
\* (Router.Execute, CaddyGateway.Apply): the route a push adds leaves the others'.
THEOREM RoutesAreKept == Spec => []RouteKept
<1>1. Init => Routed
  BY Zenon DEF Init, Routed
<1>2. Sound /\ Planned /\ Routed /\ [Next]_vars => Routed'
  <2>1. ASSUME Routed, UNCHANGED vars PROVE Routed'
    BY <2>1, Zenon DEF vars, capabilities, budgets, Routed, Nodes
  <2> QED BY <2>1, NextRouted, Zenon
<1>3. Routed => RouteKept
  BY Zenon DEF Routed, RouteKept
<1>4. Spec => [](Sound /\ Enforced /\ Planned)
  BY PlannedAlways, Zenon
<1> QED BY <1>1, <1>2, <1>3, <1>4, PTL DEF Spec

-----------------------------------------------------------------------------
(* The pace of a new version.                                               *)

\* A version one of whose ready replicas has just become so is at its first step.
AtFirst ==
    Sound => \A w \in case.workloads :
        LET ready == BuildDirectory(w)
            target == {s \in ready : alloc[s].image = goal[w]}
        IN  /\ Hold > 0 /\ target \notin {{}, ready}
            /\ \E s \in target : alloc[s].since = 0
            => EvaluateCanary(w) = Steps[1]

LEMMA NewStartsFirst == AtFirst
<1> SUFFICES ASSUME Sound, NEW w \in case.workloads, Hold > 0
             PROVE  LET ready == BuildDirectory(w)
                        target == {s \in ready : alloc[s].image = goal[w]}
                    IN  /\ target \notin {{}, ready}
                        /\ \E s \in target : alloc[s].since = 0
                        => EvaluateCanary(w) = Steps[1]
  BY Zenon DEF AtFirst
<1> DEFINE ready == BuildDirectory(w)
           target == {s \in ready : alloc[s].image = goal[w]}
<1> SUFFICES ASSUME target # {}, target # ready, NEW t \in target, alloc[t].since = 0
             PROVE  EvaluateCanary(w) = Steps[1]
  BY ZenonT(30)
<1>1. EvaluateCanary(w) = Steps[Reached(ready, target)]
  BY CanaryForms
<1>2. Held(target) = 0
  <2>1. target \in SUBSET BuildDirectory(w)
    BY Zenon
  <2> HIDE DEF target
  <2> QED BY <2>1, HeldIsTime, LeastOf, Zenon
<1> HIDE DEF target, ready
<1> DEFINE index == Allowed(ready, target)
<1>3. index \in Nat /\ index >= 1
  <2>1. index \in 1 .. Len(Steps) /\ Len(Steps) \in Nat
    BY AllowedIsStep, StepsForms, LeastOf, Zenon
  <2> HIDE DEF index
  <2> QED BY <2>1
<1>4. Held(target) \div Hold + 1 = 1
  <2>1. Hold \in Nat \ {0}
    BY TrafficAssumption
  <2>2. 0 \div Hold = 0
    BY <2>1
  <2> QED BY <1>2, <2>2, SMTT(30)
<1>5. Reached(ready, target) = Lesser(index, 1)
  BY <1>4, Zenon DEF Reached, Lesser
<1> HIDE DEF index
<1>6. Lesser(index, 1) = 1
  BY <1>3, Least
<1> QED BY <1>1, <1>5, <1>6, Zenon

LEMMA NewStartsFirstNext == AtFirst'
BY NewStartsFirst, PTL

\* A replica that becomes ready has been so for no time.
LEMMA NewlyReady ==
    ASSUME Sound, Next, NEW s \in Slots, ReadyAt(s)', ~ReadyAt(s)
    PROVE  alloc'[s].since = 0
<1>0. alloc'[s].ready /\ alloc'[s].left > 0
  BY Zenon DEF ReadyAt
<1>1. CASE StartRound
  <2>1. alloc'[s] # alloc[s]
    BY <1>0, Zenon DEF ReadyAt
  <2> QED BY <1>1, <2>1, RoundMeasures, Zenon DEF Remeasured
<1>2. CASE Tick
  <2>1. alloc'[s].ready = alloc[s].ready /\ alloc'[s].left <= alloc[s].left
        /\ Shaped(alloc'[s]) /\ Shaped(alloc[s])
    BY <1>2, TickAges, Zenon DEF Sound
  <2> QED BY <1>0, <2>1 DEF ReadyAt, Shaped
<1>3. ASSUME NEW t \in Slots, NEW n \in Nodes, Place(t, n) PROVE alloc'[s].since = 0
  <2>1. alloc'[s] # alloc[s]
    BY <1>0, Zenon DEF ReadyAt
  <2> QED BY <1>3, <2>1, PlaceAdds, Zenon
<1>4. ASSUME NEW t \in Slots, Retire(t) PROVE alloc'[s].since = 0
  <2>1. alloc'[s] # alloc[s]
    BY <1>0, Zenon DEF ReadyAt
  <2> QED BY <1>0, <1>4, <2>1, RetireRemoves, AbsentForms, Zenon
<1>5. CASE UNCHANGED alloc
  BY <1>0, <1>5, Zenon DEF ReadyAt
<1> QED BY <1>1, <1>2, <1>3, <1>4, <1>5, Untouched, Zenon

\* Whenever a replica of the new version becomes ready, or ready again, beside the
\* previous one, the new version is at its first step, for every list of steps,
\* hold and lifetime of an observation (EvaluateCanary, applyReadiness).
THEOREM NewcomersStartFirst == Spec => NewcomerRestartsHold
<1> DEFINE Restarts ==
          \A w \in case.workloads :
              LET ready == BuildDirectory(w)'
                  target == {s \in ready : alloc'[s].image = goal'[w]}
              IN  Hold > 0 /\ target \notin {{}, ready} /\ ~(target \subseteq BuildDirectory(w))
                  => EvaluateCanary(w)' = Steps[1]
<1>1. ASSUME Sound, Next PROVE Restarts
  <2> SUFFICES ASSUME NEW w \in case.workloads, Hold > 0,
                      NEW ready, ready = BuildDirectory(w)',
                      NEW target, target = {s \in ready : alloc'[s].image = goal'[w]},
                      target \notin {{}, ready},
                      NEW t \in target, t \notin BuildDirectory(w)
               PROVE  EvaluateCanary(w)' = Steps[1]
    BY Zenon
  <2>1. Sound' /\ case' = case /\ Slots' = Slots
    BY <1>1, NextSound, CaseStays, Zenon
  <2>2. t \in Slots /\ ReadyAt(t)' /\ ~ReadyAt(t)
    BY <2>1, Zenon DEF BuildDirectory, Of
  <2>3. alloc'[t].since = 0
    BY <1>1, <2>2, NewlyReady, Zenon
  <2> QED BY <2>1, <2>3, NewStartsFirstNext, Zenon DEF AtFirst
<1>2. Sound /\ [Next]_vars => [Restarts]_vars
  <2> HIDE DEF Restarts
  <2> QED BY <1>1, Zenon
<1>3. Spec => [][Restarts]_vars
  <2> HIDE DEF Restarts
  <2> QED BY <1>2, InitSound, SoundStep, PTL DEF Spec
<1> QED BY <1>3, PTL DEF NewcomerRestartsHold
=============================================================================
