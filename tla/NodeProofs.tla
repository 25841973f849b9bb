----------------------------- MODULE NodeProofs -----------------------------
(***************************************************************************)
(* What the server believes of a node's allocations is durable there, for  *)
(* any number of allocations, proposals, faults and restarts.              *)
(***************************************************************************)
EXTENDS Node, SequenceTheorems, TLAPS

\* The phase the server believes in while it sends an action: create only what
\* is absent, start what was created, stop what runs, delete what stopped.
Before(kind) ==
    CASE kind = "create" -> "absent"
      [] kind = "start"  -> "created"
      [] kind = "stop"   -> "running"
      [] kind = "delete" -> "stopped"

\* The action has left its intent in memory and in the file.  A deletion whose
\* write failed and that was repeated leaves the file as it was.
Left(kind, a) ==
    CASE kind = "start"  -> entries[a] = "running" /\ file[a] = "running"
      [] kind = "delete" -> TRUE
      [] OTHER           -> entries[a] = "stopped" /\ file[a] = "stopped"

\* The phase an action of the list meets in view v: what its predecessor on the
\* same allocation leaves, or what the view says.
Met(todo, v, i) ==
    IF i > 1 /\ todo[i - 1][2] = todo[i][2] THEN PhaseAfter(todo[i - 1][1])
    ELSE v[todo[i][2]]

\* A list of actions fits a view: each meets the phase it is for, and those on
\* one allocation stand next to each other, a start or a deletion second.
Fits(todo, v) ==
    /\ \A i \in DOMAIN todo : Before(todo[i][1]) = Met(todo, v, i)
    /\ \A i, j \in DOMAIN todo : i < j /\ todo[i][2] = todo[j][2] =>
        j = i + 1 /\ todo[j][1] \in {"start", "delete"}

\* The types the argument rests on.
Shape ==
    /\ revision \in Nat
    /\ view \in [Allocations -> {"absent", "created", "running", "stopped"}]
    /\ plan = [lease |-> plan.lease, based |-> plan.based, todo |-> plan.todo,
               open |-> plan.open]
    /\ plan.lease \in Nat /\ plan.based \in Nat /\ plan.todo \in Seq(Kinds \X Allocations)
    /\ disp \in [at : {"idle", "execute", "intend", "store", "reply"},
                 env : Envelopes \cup {NoEnvelope}]
    /\ entries \in [Allocations -> {"none", "stopped", "running"}]
    /\ file \in [Allocations -> {"none", "stopped", "running"}]
    /\ ledger \in [memory : SUBSET (Nat \X Kinds \X Allocations),
                   file : SUBSET (Nat \X Kinds \X Allocations)]

\* The action in flight is for the phase the server still believes in, the
\* allocation is unsure, and past its write the intent is there.
Flight ==
    disp.at # "idle" =>
        /\ service \in {"up", "cut"} /\ disp.env \in Envelopes
        /\ disp.env.target \in unsure
        /\ view[disp.env.target] = Before(disp.env.kind)
        /\ disp.env.based <= revision
        /\ disp.env.kind = "start" => disp.env.based < revision
        /\ disp.at \in {"store", "reply"} => Left(disp.env.kind, disp.env.target)
        /\ plan.open => plan.based = revision
        /\ service = "up" => ~plan.open /\ plan.based = disp.env.based

\* What the server will believe when the awaited answer arrives.
Expected ==
    IF Awaiting THEN [view EXCEPT ![disp.env.target] = PhaseAfter(disp.env.kind)]
    ELSE view

\* A proposal that runs, or will go on with an answer, fits that view; it begins
\* with a start only after its own creation.  What follows the action in flight
\* on its allocation is the start or the deletion.
Planned ==
    /\ plan.based <= revision
    /\ plan.open \/ Awaiting => Fits(plan.todo, Expected)
    /\ plan.open /\ plan.todo # <<>> /\ plan.todo[1][1] = "start" => plan.based < revision
    /\ Awaiting => \A i \in DOMAIN plan.todo :
        plan.todo[i][2] = disp.env.target =>
            plan.todo[i][1] \in {"start", "delete"} \ {disp.env.kind}

Recorded == ledger.memory \cup ledger.file

\* What the ledger would answer for the present revision, or for an action still
\* to be sent, was done and has not been undone.
Answers ==
    /\ \A k \in Recorded :
        /\ k[1] <= revision
        /\ k[1] = revision => /\ k[2] # "start" /\ Left(k[2], k[3])
                              /\ view[k[3]] = Before(k[2])
    /\ plan.open \/ Awaiting =>
        \A i \in DOMAIN plan.todo :
            <<plan.based, plan.todo[i][1], plan.todo[i][2]>> \in Recorded =>
                plan.todo[i][1] # "start" /\ Left(plan.todo[i][1], plan.todo[i][2])

\* What the server believes without doubt is in memory and in the file, and an
\* allocation it believes created or running has an entry in both.
Intended ==
    /\ \A a \in Allocations \ unsure :
        view[a] # "absent" =>
            /\ entries[a] = IF view[a] = "running" THEN "running" ELSE "stopped"
            /\ file[a] = entries[a]
    /\ \A a \in Allocations :
        view[a] \in {"created", "running"} => entries[a] # "none" /\ file[a] # "none"

IInv == Shape /\ Flight /\ Planned /\ Answers /\ Intended

-----------------------------------------------------------------------------
(* Proposals.                                                               *)

\* The elements of a list of two lists of two.
LEMMA TwoAndTwo ==
    ASSUME NEW S, NEW p \in Seq(S), NEW q \in Seq(S), Len(p) = 2, Len(q) = 2
    PROVE  /\ p \o q \in Seq(S) /\ Len(p \o q) = 4
           /\ (p \o q)[1] = p[1] /\ (p \o q)[2] = p[2]
           /\ (p \o q)[3] = q[1] /\ (p \o q)[4] = q[2]
<1> DEFINE r == p \o q
<1>1. /\ r \in Seq(S) /\ Len(r) = Len(p) + Len(q)
      /\ \A i \in 1 .. Len(p) + Len(q) : r[i] = IF i <= Len(p) THEN p[i] ELSE q[i - Len(p)]
  BY ConcatProperties, Zenon
<1> HIDE DEF r
<1>2. Len(r) = 4 /\ r[1] = p[1] /\ r[2] = p[2] /\ r[3] = q[1] /\ r[4] = q[2]
  BY <1>1
<1>3. QED BY <1>1, <1>2 DEF r

\* A proposal is a list of actions on allocations, and fits what the server
\* believes (PlacementAgent, RolloutAgent); none begins with a start.
LEMMA Proposed ==
    ASSUME view \in [Allocations -> {"absent", "created", "running", "stopped"}],
           NEW todo \in Placements \cup Retirements
    PROVE  /\ todo \in Seq(Kinds \X Allocations)
           /\ Fits(todo, view)
           /\ todo[1][1] # "start"
<1>1. ASSUME NEW a \in Allocations, view[a] = "absent", todo = Place(a)
      PROVE  /\ todo \in Seq(Kinds \X Allocations)
             /\ Fits(todo, view)
             /\ todo[1][1] # "start"
  BY <1>1 DEF Place, Kinds, Fits, Met, Before, PhaseAfter
<1>2. ASSUME NEW a \in Allocations, NEW b \in Allocations, a # b,
             view[a] = "absent", view[b] = "absent", todo = Place(a) \o Place(b)
      PROVE  /\ todo \in Seq(Kinds \X Allocations)
             /\ Fits(todo, view)
             /\ todo[1][1] # "start"
  <2>1. /\ Place(a) \in Seq(Kinds \X Allocations) /\ Len(Place(a)) = 2
        /\ Place(b) \in Seq(Kinds \X Allocations) /\ Len(Place(b)) = 2
        /\ Place(a)[1] = <<"create", a>> /\ Place(a)[2] = <<"start", a>>
        /\ Place(b)[1] = <<"create", b>> /\ Place(b)[2] = <<"start", b>>
    BY DEF Place, Kinds
  <2>2. /\ todo \in Seq(Kinds \X Allocations) /\ Len(todo) = 4
        /\ todo[1] = Place(a)[1] /\ todo[2] = Place(a)[2]
        /\ todo[3] = Place(b)[1] /\ todo[4] = Place(b)[2]
    <3> HIDE DEF Place
    <3> QED BY <1>2, <2>1, TwoAndTwo
  <2>3. a # b /\ view[a] = "absent" /\ view[b] = "absent"
    BY <1>2, Zenon
  <2>5. \A i \in DOMAIN todo : Before(todo[i][1]) = Met(todo, view, i)
    BY <2>3, <2>1, <2>2 DEF Met, Before, PhaseAfter
  <2>6. \A i, j \in DOMAIN todo : i < j /\ todo[i][2] = todo[j][2] =>
          j = i + 1 /\ todo[j][1] \in {"start", "delete"}
    BY <2>3, <2>1, <2>2
  <2>7. QED BY <2>1, <2>2, <2>5, <2>6 DEF Fits
<1>3. ASSUME NEW a \in Allocations, view[a] = "stopped", todo = <<<<"delete", a>>>>
      PROVE  /\ todo \in Seq(Kinds \X Allocations)
             /\ Fits(todo, view)
             /\ todo[1][1] # "start"
  BY <1>3 DEF Kinds, Fits, Met, Before, PhaseAfter
<1>4. ASSUME NEW a \in Allocations, view[a] = "running",
             todo = <<<<"stop", a>>, <<"delete", a>>>>
      PROVE  /\ todo \in Seq(Kinds \X Allocations)
             /\ Fits(todo, view)
             /\ todo[1][1] # "start"
  BY <1>4 DEF Kinds, Fits, Met, Before, PhaseAfter
<1>5. QED BY <1>1, <1>2, <1>3, <1>4 DEF Placements, Retirements

\* Action k of a is first of the list and for what the view says; the rest fits
\* what the view says once it is done.
First(todo, v, k, a) ==
    /\ Fits(Tail(todo), [v EXCEPT ![a] = PhaseAfter(k)])
    /\ v[a] = Before(k)
    /\ \A i \in DOMAIN Tail(todo) :
        Tail(todo)[i][2] = a => Tail(todo)[i][1] \in {"start", "delete"} \ {k}

\* When the first action of a list that fits is done, the rest fits.
LEMMA FitsOn ==
    ASSUME NEW v \in [Allocations -> {"absent", "created", "running", "stopped"}],
           NEW todo \in Seq(Kinds \X Allocations), todo # <<>>, Fits(todo, v),
           NEW k, NEW a \in Allocations, Head(todo) = <<k, a>>
    PROVE  First(todo, v, k, a)
<1> DEFINE w == [v EXCEPT ![a] = PhaseAfter(k)]
<1>1. /\ DOMAIN Tail(todo) = 1 .. Len(todo) - 1
      /\ DOMAIN todo = 1 .. Len(todo) /\ Len(todo) \in Nat
      /\ \A i \in DOMAIN Tail(todo) : Tail(todo)[i] = todo[i + 1] /\ i + 1 \in DOMAIN todo
      /\ todo[1] = <<k, a>> /\ 1 \in DOMAIN todo
      /\ \A i \in DOMAIN todo : todo[i][1] \in Kinds /\ todo[i][2] \in Allocations
  OBVIOUS
<1>2. \A i \in DOMAIN Tail(todo) : Before(Tail(todo)[i][1]) = Met(Tail(todo), w, i)
  <2> SUFFICES ASSUME NEW i \in DOMAIN Tail(todo)
               PROVE  Before(todo[i + 1][1]) = Met(Tail(todo), w, i)
    BY <1>1
  <2>1. Before(todo[i + 1][1]) = Met(todo, v, i + 1)
    BY <1>1 DEF Fits
  <2>2. CASE i = 1
    BY <2>1, <2>2, <1>1 DEF Met
  <2>3. CASE i > 1
    <3>1. i - 1 \in DOMAIN Tail(todo) /\ Tail(todo)[i - 1] = todo[i]
      BY <2>3, <1>1
    <3>2. todo[i + 1][2] # a
      <4>1. todo[1][2] = todo[i + 1][2] /\ 1 < i + 1 => i + 1 = 1 + 1
        BY <1>1 DEF Fits
      <4>2. QED BY <4>1, <2>3, <1>1
    <3>3. QED BY <2>1, <2>3, <3>1, <3>2, <1>1 DEF Met
  <2>4. QED BY <1>1, <2>2, <2>3
<1>3. \A i, j \in DOMAIN Tail(todo) :
        i < j /\ Tail(todo)[i][2] = Tail(todo)[j][2] =>
            j = i + 1 /\ Tail(todo)[j][1] \in {"start", "delete"}
  BY <1>1 DEF Fits
<1>4. v[a] = Before(k)
  BY <1>1 DEF Fits, Met
<1>5. \A i \in DOMAIN Tail(todo) :
        Tail(todo)[i][2] = a => Tail(todo)[i][1] \in {"start", "delete"} \ {k}
  <2> SUFFICES ASSUME NEW i \in DOMAIN Tail(todo), todo[i + 1][2] = a
               PROVE  todo[i + 1][1] \in {"start", "delete"} \ {k}
    BY <1>1
  <2>1. todo[1][2] = todo[i + 1][2] /\ 1 < i + 1 =>
            i + 1 = 1 + 1 /\ todo[i + 1][1] \in {"start", "delete"}
    BY <1>1 DEF Fits
  <2>2. i = 1 /\ todo[2][1] \in {"start", "delete"}
    BY <1>1, <2>1
  <2>3. Before(todo[2][1]) = PhaseAfter(todo[1][1])
    <3>1. 2 \in DOMAIN todo /\ todo[2][2] = todo[1][2]
      BY <1>1, <2>2
    <3>2. Before(todo[2][1]) = Met(todo, v, 2)
      BY <3>1 DEF Fits
    <3>3. QED BY <3>1, <3>2 DEF Met
  <2>4. k \in Kinds
    BY <1>1
  <2>5. QED BY <1>1, <2>2, <2>3, <2>4 DEF Before, PhaseAfter, Kinds
<1>6. QED BY <1>2, <1>3, <1>4, <1>5 DEF Fits, First

-----------------------------------------------------------------------------
(* The steps.                                                               *)

concerned == <<view, revision, unsure, plan, service, disp, entries, file, ledger>>

\* The supervisor's looks and restarts, time, and the containers themselves do
\* not touch what the invariant is about.
LEMMA Unconcerned == ASSUME IInv, UNCHANGED concerned PROVE IInv'
<1> USE DEF concerned
<1>1. Shape' /\ Flight' /\ Intended'
  BY DEF IInv, Shape, Flight, Intended, Left
<1>2. Planned'
  BY DEF IInv, Planned, Expected, Awaiting
<1>3. Answers'
  BY DEF IInv, Answers, Recorded, Left, Awaiting
<1>4. QED BY <1>1, <1>2, <1>3 DEF IInv

\* The process ends: the memory is what the files say, and no answer will come.
LEMMA Ended ==
    ASSUME IInv, NEW s \in {"failed", "exited"}, Ends(s), UNCHANGED <<serverVars, file>>
    PROVE  IInv'
<1> USE DEF serverVars
<1>1. Shape'
  BY SMTT(30) DEF IInv, Shape, Ends, NoDispatch
<1>2. disp'.at = "idle" /\ ~Awaiting'
  BY DEF Ends, NoDispatch, Awaiting
<1>3. Flight'
  BY <1>2 DEF Flight
<1>4. plan.open => ~Awaiting
  BY DEF IInv, Flight, Awaiting
<1>5. Planned'
  BY <1>2, <1>4 DEF IInv, Planned, Expected
<1>6. \A k, a : Left(k, a) => Left(k, a)'
  BY DEF Left, Ends
<1>7. Recorded' \subseteq Recorded
  BY DEF IInv, Shape, Recorded, Ends
<1>8. Answers'
  BY <1>2, <1>6, <1>7 DEF IInv, Answers
<1>9. Intended'
  BY DEF IInv, Intended, Ends
<1>10. QED BY <1>1, <1>3, <1>5, <1>8, <1>9 DEF IInv

\* A new proposal.  Nothing of it is in the ledger that was not done at the same
\* revision.
LEMMA ProposeKeeps == ASSUME IInv, Propose PROVE IInv'
<1> USE DEF Propose, session, memory
<1>1. PICK todo \in Placements \cup Retirements :
        plan' = [lease |-> plan.lease + 1, based |-> revision, todo |-> todo, open |-> TRUE]
  OBVIOUS
<1>2. todo \in Seq(Kinds \X Allocations) /\ Fits(todo, view) /\ todo[1][1] # "start"
  BY Proposed DEF IInv, Shape
<1>3. Shape'
  BY <1>1, <1>2 DEF IInv, Shape
<1>4. ~Awaiting /\ ~Awaiting'
  BY DEF Awaiting
<1>5. Flight'
  BY <1>1, <1>4 DEF IInv, Flight, Awaiting, Left
<1>6. Planned'
  BY <1>1, <1>2, <1>4 DEF IInv, Shape, Planned, Expected
<1>7. Answers'
  <2>1. Recorded' = Recorded /\ \A k, a : Left(k, a)' = Left(k, a)
    BY DEF Recorded, Left
  <2>2. \A k \in Recorded : k[1] <= revision
          /\ (k[1] = revision => k[2] # "start" /\ Left(k[2], k[3])
                                 /\ view[k[3]] = Before(k[2]))
    BY DEF IInv, Answers
  <2>3. \A i \in DOMAIN todo :
          <<revision, todo[i][1], todo[i][2]>> \in Recorded =>
              todo[i][1] # "start" /\ Left(todo[i][1], todo[i][2])
    BY <2>2
  <2>4. QED BY <1>1, <1>4, <2>1, <2>2, <2>3 DEF Answers
<1>8. Intended'
  BY DEF IInv, Intended
<1>9. QED BY <1>3, <1>5, <1>6, <1>7, <1>8 DEF IInv

\* An action leaves the proposal, which fits what is believed once it is done.
Sent(k, a) ==
    /\ plan' = [lease |-> plan.lease, based |-> plan.based, todo |-> Tail(plan.todo),
                open |-> FALSE]
    /\ plan.todo[1] = <<k, a>> /\ 1 \in DOMAIN plan.todo
    /\ Tail(plan.todo) \in Seq(Kinds \X Allocations)
    /\ Fits(Tail(plan.todo), [view EXCEPT ![a] = PhaseAfter(k)])
    /\ view[a] = Before(k)
    /\ k = "start" => plan.based < revision
    /\ \A i \in DOMAIN Tail(plan.todo) : /\ i + 1 \in DOMAIN plan.todo
                                         /\ Tail(plan.todo)[i] = plan.todo[i + 1]
                                         /\ Tail(plan.todo)[i][2] = a =>
                                              Tail(plan.todo)[i][1]
                                                  \in {"start", "delete"} \ {k}

\* What a proposal sends is the action its allocation waits for.
LEMMA SendsKeeps ==
    ASSUME IInv, NEW k \in Kinds, NEW a \in Allocations, Sends(k, a)
    PROVE  Sent(k, a)
<1> USE DEF Sends
<1>1. /\ plan.todo \in Seq(Kinds \X Allocations) /\ plan.todo # <<>>
      /\ Head(plan.todo) = <<k, a>>
  BY DEF IInv, Shape
<1>2. plan.todo[1] = <<k, a>> /\ 1 \in DOMAIN plan.todo
      /\ Tail(plan.todo) \in Seq(Kinds \X Allocations)
      /\ \A i \in DOMAIN Tail(plan.todo) : i + 1 \in DOMAIN plan.todo
                                           /\ Tail(plan.todo)[i] = plan.todo[i + 1]
  BY <1>1
<1>3. Fits(plan.todo, view)
  BY DEF IInv, Planned, Expected
<1>4. /\ Fits(Tail(plan.todo), [view EXCEPT ![a] = PhaseAfter(k)])
      /\ view[a] = Before(k)
      /\ \A i \in DOMAIN Tail(plan.todo) :
          Tail(plan.todo)[i][2] = a => Tail(plan.todo)[i][1] \in {"start", "delete"} \ {k}
  <2>1. view \in [Allocations -> {"absent", "created", "running", "stopped"}]
    BY DEF IInv, Shape
  <2> HIDE DEF Sends
  <2>2. First(plan.todo, view, k, a)
    BY <1>1, <1>3, <2>1, FitsOn, SMTT(30)
  <2>3. QED BY <2>2 DEF First
<1>5. k = "start" => plan.based < revision
  BY <1>2 DEF IInv, Planned
<1>6. plan' = [lease |-> plan.lease, based |-> plan.based, todo |-> Tail(plan.todo),
               open |-> FALSE]
  BY ZenonT(30) DEF IInv, Shape
<1>7. QED BY <1>1, <1>2, <1>4, <1>5, <1>6 DEF Sent

\* An envelope arrives.
LEMMA DispatchKeeps ==
    ASSUME IInv, NEW k \in Kinds, NEW a \in Allocations, Dispatch(k, a)
    PROVE  IInv'
<1> DEFINE e == [kind |-> k, target |-> a, based |-> plan.based, lease |-> plan.lease]
           known == Key(e) \in ledger.memory
<1>1. /\ Sends(k, a) /\ service = "up" /\ service' = "up"
      /\ disp' = [at |-> IF known THEN "reply" ELSE "execute", env |-> e]
      /\ UNCHANGED <<view, revision, entries, file, ledger>>
      /\ unsure' = unsure \cup {a} /\ plan.open /\ ~Awaiting
  BY DEF Dispatch, Sends
<1>2. e \in Envelopes /\ Key(e) = <<plan.based, k, a>> /\ e.kind = k /\ e.target = a
      /\ e.based = plan.based
  BY DEF IInv, Shape, Envelopes, Key
<1> HIDE DEF e
<1>s. Sent(k, a)
  BY <1>1, SendsKeeps
<1>3. Shape'
  BY <1>1, <1>2, <1>s DEF Sent, IInv, Shape
<1>4. Awaiting' /\ disp'.env = e /\ plan'.open = FALSE /\ plan'.based = plan.based
      /\ plan'.todo = Tail(plan.todo)
  BY <1>1, <1>s DEF Sent, Awaiting, IInv, Shape
<1>5. Recorded' = Recorded /\ \A l, b : Left(l, b)' = Left(l, b)
  BY <1>1 DEF Recorded, Left
<1>6. known => Left(k, a)
  <2>1. known => <<plan.based, plan.todo[1][1], plan.todo[1][2]>> \in Recorded
    BY <1>2, <1>s, <1>1 DEF Sent, Recorded
  <2>2. 1 \in DOMAIN plan.todo /\ plan.todo[1][1] = k /\ plan.todo[1][2] = a /\ plan.open
    BY <1>1, <1>s DEF Sent
  <2>3. <<plan.based, plan.todo[1][1], plan.todo[1][2]>> \in Recorded =>
            Left(plan.todo[1][1], plan.todo[1][2])
    BY <2>2, SMTT(30) DEF IInv, Answers
  <2>4. QED BY <2>1, <2>2, <2>3
<1>7. Flight'
  BY <1>1, <1>2, <1>4, <1>5, <1>6, <1>s, SMTT(30) DEF Sent, IInv, Flight, Planned
<1>8. Planned'
  BY <1>1, <1>2, <1>4, <1>s, ZenonT(30) DEF Sent, IInv, Planned, Expected
<1>9. Answers'
  <2>1. \A i \in DOMAIN Tail(plan.todo) :
          LET x == Tail(plan.todo)[i]
          IN  <<plan.based, x[1], x[2]>> \in Recorded => x[1] # "start" /\ Left(x[1], x[2])
    BY <1>1, <1>s, ZenonT(30) DEF Sent, IInv, Answers
  <2>2. QED BY <1>1, <1>4, <1>5, <2>1 DEF IInv, Answers
<1>10. Intended'
  BY <1>1 DEF IInv, Intended
<1>11. QED BY <1>3, <1>7, <1>8, <1>9, <1>10 DEF IInv

\* Nothing could be sent: the proposal has ended, and no answer is awaited.
LEMMA DispatchFailsKeeps ==
    ASSUME IInv, NEW k \in Kinds, NEW a \in Allocations, DispatchFails(k, a)
    PROVE  IInv'
<1>1. /\ Sends(k, a)
      /\ UNCHANGED <<view, revision, disp, service, entries, file, ledger>>
      /\ unsure' = unsure \cup {a} /\ ~Awaiting
  BY DEF DispatchFails, Sends, memory
<1>2. Sent(k, a)
  BY <1>1, SendsKeeps
<1>3. Shape'
  BY <1>1, <1>2, SMTT(30) DEF Sent, IInv, Shape
<1>4. ~Awaiting' /\ plan'.open = FALSE /\ plan'.based = plan.based
  BY <1>1, <1>2 DEF Sent, Awaiting
<1>5. Recorded' = Recorded /\ \A l, b : Left(l, b)' = Left(l, b)
  BY <1>1 DEF Recorded, Left
<1>6. Flight'
  BY <1>1, <1>4, <1>5 DEF IInv, Flight, Awaiting
<1>7. Planned'
  BY <1>1, <1>4 DEF IInv, Planned
<1>8. Answers'
  BY <1>1, <1>4, <1>5 DEF IInv, Answers
<1>9. Intended'
  BY <1>1 DEF IInv, Intended
<1>10. QED BY <1>3, <1>6, <1>7, <1>8, <1>9 DEF IInv

\* A step of the dispatcher before its reply: the action in flight stays the same
\* or has failed.
Steps ==
    /\ disp.at # "idle" /\ UNCHANGED <<view, revision, unsure, plan, service>>
    /\ \/ disp' = NoDispatch
       \/ /\ disp' = [at |-> disp'.at, env |-> disp.env]
          /\ disp'.at \in {"intend", "store", "reply"}

\* The proposal waits for the same answer or for none.
LEMMA StepsKeep ==
    ASSUME IInv, Steps
    PROVE  /\ Planned'
           /\ Awaiting' => Awaiting
           /\ ~Awaiting => service = "cut"
           /\ plan.open => plan.based = revision
<1> USE DEF Steps
<1>1. /\ Awaiting' => Awaiting /\ disp'.env = disp.env
      /\ plan.open => ~Awaiting /\ plan.based = revision
      /\ ~Awaiting => service = "cut"
  BY DEF Awaiting, NoDispatch, IInv, Flight
<1>2. Planned'
  BY <1>1 DEF IInv, Planned, Expected
<1>3. QED BY <1>1, <1>2

\* containerd has done the action, or refused it.
LEMMA ExecuteKeeps == ASSUME IInv, ExecuteAction PROVE IInv'
<1>1. Steps /\ disp'.at \notin {"store", "reply"} /\ UNCHANGED <<entries, file, ledger>>
  BY DEF ExecuteAction, serverVars, session, Steps, NoDispatch, IInv, Shape
<1>2. Shape'
  BY <1>1 DEF IInv, Shape, Steps, NoDispatch
<1>3. Recorded' = Recorded /\ \A l, b : Left(l, b)' = Left(l, b)
  BY <1>1 DEF Recorded, Left
<1>4. Flight'
  BY <1>1, <1>3 DEF IInv, Flight, Steps, NoDispatch
<1>5. Planned' /\ (Awaiting' => Awaiting)
  BY <1>1, StepsKeep
<1>6. Answers'
  BY <1>1, <1>3, <1>5 DEF IInv, Answers, Steps
<1>7. Intended'
  BY <1>1 DEF IInv, Intended, Steps
<1>8. QED BY <1>2, <1>4, <1>5, <1>6, <1>7 DEF IInv

\* The intent is in memory, and in the file unless its write failed.  What the
\* ledger may answer for the allocation is the same action, which leaves the
\* same intent, or a deletion.
LEMMA IntendKeeps == ASSUME IInv, Intend PROVE IInv'
<1>1. Steps /\ disp.at = "intend" /\ UNCHANGED ledger
  BY DEF Intend, serverVars, session, Steps, NoDispatch, IInv, Shape
<1>2. PICK kind \in Kinds, t \in Allocations :
        kind = disp.env.kind /\ t = disp.env.target /\ t \in unsure /\ view[t] = Before(kind)
  BY <1>1 DEF IInv, Flight, Envelopes
<1>3. entries' = [entries EXCEPT ![t] = Intent(kind, @)]
      /\ \/ /\ file' = IF Written(kind, entries[t]) THEN entries' ELSE file
            /\ disp' = [at |-> "store", env |-> disp.env]
         \/ file' = file /\ disp' = NoDispatch
  BY <1>2 DEF Intend, IInv, Shape
<1>4. /\ entries \in [Allocations -> {"none", "stopped", "running"}]
      /\ file \in [Allocations -> {"none", "stopped", "running"}]
  BY DEF IInv, Shape
<1>5. /\ entries' \in [Allocations -> {"none", "stopped", "running"}]
      /\ file' \in [Allocations -> {"none", "stopped", "running"}]
  BY <1>2, <1>3, <1>4 DEF Intent, Kinds
<1>6. Shape'
  BY <1>1, <1>3, <1>5 DEF IInv, Shape, Steps, NoDispatch
<1>7. kind \in {"start", "stop"} => entries[t] # "none"
  BY <1>2 DEF IInv, Intended, Before
<1>e. /\ entries'[t] = Intent(kind, entries[t])
      /\ \A b \in Allocations : b # t => entries'[b] = entries[b]
      /\ \A b \in Allocations : file'[b] \in {entries'[b], file[b]}
      /\ disp' # NoDispatch /\ Written(kind, entries[t]) => file'[t] = entries'[t]
      /\ disp' # NoDispatch /\ ~Written(kind, entries[t]) => file'[t] = file[t]
  BY <1>2, <1>3, <1>4
<1>8. disp' # NoDispatch => Left(kind, t)'
  BY <1>2, <1>e, <1>7 DEF Left, Intent, Written, Kinds
<1>9. /\ Left(kind, t) => Left(kind, t)'
      /\ Left("delete", t)'
      /\ \A l \in Kinds, b \in Allocations \ {t} : Left(l, b) => Left(l, b)'
  BY <1>2, <1>e DEF Left, Intent, Kinds
<1>10. Flight'
  BY <1>1, <1>2, <1>3, <1>8 DEF IInv, Flight, Steps, NoDispatch
<1>11. /\ Planned' /\ (Awaiting' => Awaiting) /\ (~Awaiting => service = "cut")
       /\ plan.open => plan.based = revision
  BY <1>1, StepsKeep
<1>12. Recorded' = Recorded /\ Recorded \subseteq Nat \X Kinds \X Allocations
  BY <1>1 DEF Recorded, IInv, Shape
<1>13. ASSUME NEW x \in Recorded, x[1] = revision
       PROVE  Left(x[2], x[3])' /\ x[2] # "start" /\ view[x[3]] = Before(x[2])
  <2>1. /\ x[2] # "start" /\ Left(x[2], x[3]) /\ view[x[3]] = Before(x[2])
        /\ x[2] \in Kinds /\ x[3] \in Allocations
    BY <1>12, <1>13 DEF IInv, Answers
  <2>2. x[3] = t => x[2] = kind
    BY <2>1, <1>2 DEF Before, Kinds
  <2>3. QED BY <2>1, <2>2, <1>9
<1>14. ASSUME plan.open \/ Awaiting', NEW i \in DOMAIN plan.todo, NEW l, NEW b,
              l = plan.todo[i][1], b = plan.todo[i][2], <<plan.based, l, b>> \in Recorded
       PROVE  l # "start" /\ Left(l, b)'
  <2>1. l # "start" /\ Left(l, b) /\ l \in Kinds /\ b \in Allocations
    BY <1>11, <1>14 DEF IInv, Answers, Shape
  <2>2. CASE b # t
    BY <1>9, <2>1, <2>2
  <2>3. CASE b = t /\ Awaiting
    <3>1. l \in {"start", "delete"}
      BY <1>2, <1>14, <2>3 DEF IInv, Planned
    <3>2. QED BY <3>1, <2>1, <2>3, <1>9, SMTT(30)
  <2>4. CASE ~Awaiting
    <3>1. plan.based = revision
      BY <1>11, <1>14, <2>4
    <3> DEFINE x == <<plan.based, l, b>>
    <3>2. x \in Recorded /\ x[1] = revision /\ x[2] = l /\ x[3] = b
      BY <3>1, <1>14
    <3> HIDE DEF x
    <3>3. QED BY <3>2, <1>13, <2>1
  <2>5. QED BY <2>2, <2>3, <2>4
<1>15. Answers'
  <2>1. UNCHANGED <<view, revision, plan>>
    BY <1>1 DEF Steps
  <2>2. \A x \in Recorded : x[1] <= revision
    BY DEF IInv, Answers
  <2>3. QED BY <1>12, <1>13, <1>14, <2>1, <2>2 DEF Answers
<1>16. Intended'
  <2>1. UNCHANGED <<view, unsure>>
    BY <1>1 DEF Steps
  <2>2. \A b \in Allocations : view[b] \in {"created", "running"} => entries'[b] # "none"
    BY <1>2, <1>e DEF IInv, Intended, Intent, Before, Kinds
  <2>3. QED BY <1>2, <1>e, <2>1, <2>2 DEF IInv, Intended
<1>17. QED BY <1>6, <1>10, <1>11, <1>15, <1>16 DEF IInv

\* The ledger has the action's key, in the file alone when its sync failed.  What
\* it records was just done at the revision the server still believes in, and is
\* not one the proposal has yet to send.
LEMMA StoreKeeps == ASSUME IInv, Store PROVE IInv'
<1>1. Steps /\ disp.at = "store" /\ UNCHANGED <<entries, file>>
      /\ (disp' = NoDispatch \/ disp'.at = "reply")
  BY DEF Store, serverVars, session, Steps, NoDispatch, IInv, Shape
<1>2. PICK kind \in Kinds, t \in Allocations, n \in Nat :
        /\ kind = disp.env.kind /\ t = disp.env.target /\ n = disp.env.based
        /\ Key(disp.env) = <<n, kind, t>>
        /\ view[t] = Before(kind) /\ n <= revision /\ (kind = "start" => n < revision)
        /\ Left(kind, t) /\ (Awaiting => plan.based = n)
  BY <1>1 DEF IInv, Flight, Envelopes, Awaiting, Key
<1>3. /\ ledger' \in [memory : SUBSET (Nat \X Kinds \X Allocations),
                      file : SUBSET (Nat \X Kinds \X Allocations)]
      /\ Recorded' \subseteq Recorded \cup {<<n, kind, t>>}
  <2> DEFINE x == <<n, kind, t>>
             K == Nat \X Kinds \X Allocations
  <2>1. x \in K
    OBVIOUS
  <2>2. ledger = [memory |-> ledger.memory, file |-> ledger.file]
        /\ ledger.memory \in SUBSET K /\ ledger.file \in SUBSET K
    BY DEF IInv, Shape
  <2> HIDE DEF x, K
  <2>3. PICK m \in {ledger.memory, ledger.memory \cup {x}},
             f \in {ledger.file, ledger.file \cup {x}} :
          ledger' = [memory |-> m, file |-> f]
    BY <1>2, <2>2 DEF Store, x
  <2>4. ledger' \in [memory : SUBSET K, file : SUBSET K]
    BY <2>1, <2>2, <2>3
  <2>5. Recorded' \subseteq Recorded \cup {x}
    BY <2>3 DEF Recorded
  <2>6. QED BY <2>4, <2>5 DEF x, K
<1>4. Shape'
  BY <1>1, <1>3, SMTT(30) DEF IInv, Shape, Steps, NoDispatch
<1>5. \A l, b : Left(l, b)' = Left(l, b)
  BY <1>1 DEF Left
<1>6. Flight'
  BY <1>1, <1>2, <1>5 DEF IInv, Flight, Steps, NoDispatch
<1>7. /\ Planned' /\ (Awaiting' => Awaiting) /\ (~Awaiting => service = "cut")
      /\ plan.open => plan.based = revision
  BY <1>1, StepsKeep
<1>8. ASSUME NEW x \in Recorded'
      PROVE  x[1] <= revision
             /\ (x[1] = revision => /\ x[2] # "start" /\ Left(x[2], x[3])
                                    /\ view[x[3]] = Before(x[2]))
  <2>1. CASE x \in Recorded
    BY <2>1 DEF IInv, Answers
  <2>2. CASE x = <<n, kind, t>>
    <3>1. x[1] = n /\ x[2] = kind /\ x[3] = t /\ revision \in Nat
      BY <2>2 DEF IInv, Shape
    <3>2. QED BY <1>2, <3>1
  <2>3. QED BY <1>3, <2>1, <2>2
<1>9. ASSUME plan.open \/ Awaiting', NEW i \in DOMAIN plan.todo, NEW l, NEW b,
             l = plan.todo[i][1], b = plan.todo[i][2], <<plan.based, l, b>> \in Recorded'
      PROVE  l # "start" /\ Left(l, b)
  <2>1. CASE <<plan.based, l, b>> \in Recorded
    BY <1>7, <1>9, <2>1 DEF IInv, Answers
  <2>2. CASE <<plan.based, l, b>> = <<n, kind, t>>
    <3>1. plan.based = n /\ l = kind /\ b = t
      BY <2>2, SMTT(30)
    <3>2. ~Awaiting
      BY <1>2, <1>9, <3>1 DEF IInv, Planned
    <3>3. QED BY <1>2, <1>7, <1>9, <3>1, <3>2 DEF IInv, Shape
  <2>3. QED BY <1>3, <1>9, <2>1, <2>2
<1>10. Answers'
  <2>1. UNCHANGED <<view, revision, plan>>
    BY <1>1 DEF Steps
  <2>2. QED BY <1>5, <1>8, <1>9, <2>1 DEF Answers
<1>11. Intended'
  BY <1>1 DEF IInv, Intended, Steps
<1>12. QED BY <1>4, <1>6, <1>7, <1>10, <1>11 DEF IInv

\* The server believes the evidence, and its intent is in memory and in the file;
\* or the answer is lost, and the proposal does not go on.
LEMMA ReplyKeeps == ASSUME IInv, Reply PROVE IInv'
<1>1. /\ disp.at = "reply" /\ service = "up" /\ disp' = NoDispatch
      /\ UNCHANGED <<service, entries, file, ledger>>
  BY DEF Reply, session
<1>2. PICK kind \in Kinds, t \in Allocations :
        /\ kind = disp.env.kind /\ t = disp.env.target
        /\ view[t] = Before(kind) /\ Left(kind, t) /\ ~plan.open
  BY <1>1 DEF IInv, Flight, Envelopes
<1>3. Awaiting /\ ~Awaiting' /\ Flight'
  BY <1>1 DEF Awaiting, Flight, NoDispatch
<1>4. Recorded' = Recorded /\ \A l, b : Left(l, b)' = Left(l, b)
  BY <1>1 DEF Recorded, Left
<1>5. CASE UNCHANGED <<view, revision, unsure, plan>>
  <2>1. Shape'
    BY <1>1, <1>5, SMTT(30) DEF IInv, Shape, NoDispatch
  <2>2. Planned'
    BY <1>2, <1>3, <1>5, SMTT(30) DEF IInv, Planned
  <2>3. Answers'
    BY <1>3, <1>4, <1>5, SMTT(30) DEF IInv, Answers
  <2>4. Intended'
    BY <1>1, <1>5 DEF IInv, Intended
  <2>5. QED BY <1>3, <2>1, <2>2, <2>3, <2>4, SMTT(30) DEF IInv
<1>6. CASE /\ view' = [view EXCEPT ![disp.env.target] = PhaseAfter(disp.env.kind)]
           /\ revision' = revision + 1
           /\ unsure' = unsure \ {disp.env.target}
           /\ plan' = [plan EXCEPT !.open = TRUE]
  <2>1. /\ view' = [view EXCEPT ![t] = PhaseAfter(kind)]
        /\ plan' = [lease |-> plan.lease, based |-> plan.based, todo |-> plan.todo,
                    open |-> TRUE]
        /\ revision \in Nat /\ revision' = revision + 1 /\ unsure' = unsure \ {t}
    BY <1>2, <1>6 DEF IInv, Shape
  <2>2. Shape'
    BY <1>1, <2>1 DEF IInv, Shape, NoDispatch, PhaseAfter, Kinds
  <2>3. Planned'
    <3>1. plan.based <= revision /\ plan.based \in Nat /\ Fits(plan.todo, Expected)
      BY <1>3 DEF IInv, Planned, Shape
    <3>2. Expected = view' /\ Expected' = view'
      BY <1>2, <1>3, <2>1, SMTT(30) DEF Expected
    <3>3. QED BY <1>3, <2>1, <3>1, <3>2 DEF Planned
  <2>4. Answers'
    <3>1. \A x \in Recorded : x[1] <= revision /\ x[1] \in Nat
      BY DEF IInv, Answers, Shape, Recorded
    <3>2. \A x \in Recorded : x[1] <= revision + 1 /\ x[1] # revision + 1
      BY <2>1, <3>1, SMTT(30)
    <3>3. \A i \in DOMAIN plan.todo :
            <<plan.based, plan.todo[i][1], plan.todo[i][2]>> \in Recorded =>
                plan.todo[i][1] # "start" /\ Left(plan.todo[i][1], plan.todo[i][2])
      BY <1>3, SMTT(30) DEF IInv, Answers
    <3>4. QED BY <1>4, <2>1, <3>2, <3>3 DEF Answers
  <2>5. Intended'
    <3>1. view \in [Allocations -> {"absent", "created", "running", "stopped"}]
      BY DEF IInv, Shape
    <3>2. view'[t] = PhaseAfter(kind) /\ \A b \in Allocations : b # t => view'[b] = view[b]
      BY <2>1, <3>1
    <3>3. view'[t] # "absent" =>
            /\ entries[t] = IF view'[t] = "running" THEN "running" ELSE "stopped"
            /\ file[t] = entries[t]
      BY <1>2, <3>2 DEF Left, PhaseAfter, Kinds
    <3>4. QED BY <1>1, <2>1, <3>2, <3>3 DEF IInv, Intended
  <2>6. QED BY <1>3, <2>2, <2>3, <2>4, <2>5 DEF IInv
<1>7. QED BY <1>5, <1>6 DEF Reply

\* The supervisor writes what the memory says.
LEMMA NoteKeeps ==
    ASSUME IInv, NEW a \in Allocations, NoteRestart(a) PROVE IInv'
<1>1. /\ UNCHANGED <<view, revision, unsure, plan, service, disp, entries, ledger>>
      /\ file' \in {file, entries}
  BY DEF NoteRestart, serverVars, session
<1>2. Shape'
  BY <1>1 DEF IInv, Shape
<1>3. Recorded' = Recorded /\ \A l, b : Left(l, b) => Left(l, b)'
  BY <1>1 DEF Recorded, Left
<1>4. (Awaiting' <=> Awaiting) /\ Expected' = Expected
  BY <1>1, SMTT(30) DEF Awaiting, Expected
<1>5. Flight'
  BY <1>1, <1>3, SMTT(30) DEF IInv, Flight
<1>6. Planned'
  BY <1>1, <1>4, SMTT(30) DEF IInv, Planned
<1>7. Answers'
  BY <1>1, <1>3, <1>4, SMTT(30) DEF IInv, Answers
<1>8. Intended'
  BY <1>1 DEF IInv, Intended
<1>9. QED BY <1>2, <1>5, <1>6, <1>7, <1>8, SMTT(30) DEF IInv

\* The session changes, by the daemon's start and its call, a broken connection or
\* the server's stop: an answer that was awaited no longer is, none becomes so.
LEMMA SessionKeeps ==
    ASSUME IInv, UNCHANGED <<view, revision, unsure, disp, entries, file, ledger>>,
           plan' \in {plan, [plan EXCEPT !.open = FALSE]},
           \/ disp.at = "idle"
           \/ service = "up" /\ service' = "cut"
           \/ service = "cut" /\ service' = "cut"
    PROVE  IInv'
<1>1. /\ plan' = [lease |-> plan.lease, based |-> plan.based, todo |-> plan.todo,
                  open |-> plan'.open]
      /\ plan'.lease = plan.lease /\ plan'.based = plan.based /\ plan'.todo = plan.todo
      /\ plan'.open => plan.open
  BY DEF IInv, Shape
<1>2. Shape'
  BY <1>1 DEF IInv, Shape
<1>3. ~Awaiting' /\ (plan'.open => ~Awaiting)
  BY <1>1 DEF Awaiting, IInv, Flight
<1>4. Recorded' = Recorded /\ \A l, b : Left(l, b)' = Left(l, b)
  BY DEF Recorded, Left
<1>5. Flight'
  BY <1>1, <1>4 DEF IInv, Flight
<1>6. Planned'
  BY <1>1, <1>3 DEF IInv, Planned, Expected
<1>7. Answers'
  BY <1>1, <1>3, <1>4 DEF IInv, Answers
<1>8. Intended'
  BY DEF IInv, Intended
<1>9. QED BY <1>2, <1>5, <1>6, <1>7, <1>8 DEF IInv

\* A node with nothing on it.
LEMMA Initially == ASSUME Init PROVE IInv
<1> USE DEF Init
<1>1. Shape
  BY DEF Shape, NoPlan, NoDispatch
<1>2. Flight /\ ~Awaiting
  BY SMTT(30) DEF Flight, Awaiting, NoDispatch
<1>3. Planned /\ Answers
  BY <1>2 DEF Planned, Answers, Recorded, NoPlan
<1>4. Intended
  BY DEF Intended
<1>5. QED BY <1>1, <1>2, <1>3, <1>4, SMTT(30) DEF IInv

\* One step for each action.
LEMMA NextKeeps == ASSUME IInv, [Next]_vars PROVE IInv'
<1>1. CASE Propose
  BY <1>1, ProposeKeeps
<1>2. ASSUME NEW k \in Kinds, NEW a \in Allocations, Dispatch(k, a) \/ DispatchFails(k, a)
      PROVE  IInv'
  BY <1>2, DispatchKeeps, DispatchFailsKeeps, SMTT(30)
<1>3. CASE ExecuteAction
  BY <1>3, ExecuteKeeps
<1>4. CASE Intend
  BY <1>4, IntendKeeps
<1>5. CASE Store
  BY <1>5, StoreKeeps
<1>6. CASE Reply
  BY <1>6, ReplyKeeps
<1>7. CASE Supervise
  BY <1>7, Unconcerned DEF Supervise, concerned, serverVars, session
<1>8. ASSUME NEW a \in Allocations, Inspect(a) \/ Restart(a)
      PROVE  IInv'
  BY <1>8, Unconcerned DEF Inspect, Restart, concerned, serverVars, session
<1>9. ASSUME NEW a \in Allocations, NoteRestart(a)
      PROVE  IInv'
  BY <1>9, NoteKeeps
<1>10. CASE Time
  <2>1. UNCHANGED concerned
    BY <1>10 DEF Time, BackoffPasses, WindowPasses, LeaseExpires, concerned, serverVars,
                 session
  <2>2. QED BY <2>1, Unconcerned
<1>11. CASE Crash
  BY <1>11, Ended DEF Crash
<1>12. CASE Reboot
  BY <1>12, Ended DEF Reboot
<1>13. ASSUME NEW a \in Allocations, Exit(a)
       PROVE  IInv'
  BY <1>13, Unconcerned DEF Exit, concerned, serverVars, session, memory
<1>14. CASE Disconnected
  BY <1>14, Ended DEF Disconnected
<1>15. CASE Dial
  <2>1. CASE server
    <3>1. disp.at = "idle"
      BY <1>15 DEF Dial, IInv, Flight
    <3>2. QED BY <1>15, <2>1, <3>1, SessionKeeps, SMTT(30) DEF Dial, serverVars, memory
  <2>2. CASE ~server
    BY <1>15, <2>2, Ended DEF Dial
  <2>3. QED BY <2>1, <2>2
<1>16. CASE StartDaemon
  <2>1. disp.at = "idle"
    BY <1>16 DEF StartDaemon, IInv, Flight
  <2>2. QED BY <1>16, <2>1, SessionKeeps DEF StartDaemon, serverVars, memory
<1>17. CASE Cut
  BY <1>17, SessionKeeps DEF Cut, serverVars, memory
<1>18. CASE ServerStops
  <2>1. \/ disp.at = "idle"
        \/ service = "up" /\ service' = "cut"
        \/ service = "cut" /\ service' = "cut"
    BY <1>18 DEF ServerStops, IInv, Flight
  <2>2. QED BY <1>18, <2>1, SessionKeeps DEF ServerStops, memory
<1>19. CASE ServerReturns
  BY <1>19, Unconcerned DEF ServerReturns, concerned, session, memory
<1>20. CASE UNCHANGED vars
  BY <1>20, Unconcerned DEF concerned, vars
<1>21. QED
  BY <1>1, <1>2, <1>3, <1>4, <1>5, <1>6, <1>7, <1>8, <1>9, <1>10, <1>11, <1>12, <1>13,
     <1>14, <1>15, <1>16, <1>17, <1>18, <1>19, <1>20, SMTT(30) DEF Next, Daemon

\* What the server believes without doubt about an allocation is the intent in the
\* node's file (recordDesired before FileLedger.Put before the answer), however
\* often a write fails, an answer is lost, the daemon crashes or the host reboots,
\* the connection breaks, the server stops and an action is sent again.
THEOREM IntentSurvives == Spec => []IntentDurable
<1>1. Init => IInv
  BY Initially
<1>2. IInv /\ [Next]_vars => IInv'
  BY NextKeeps
<1>3. IInv => IntentDurable
  BY DEF IInv, Intended, IntentDurable
<1>4. QED BY <1>1, <1>2, <1>3, PTL DEF Spec
=============================================================================
