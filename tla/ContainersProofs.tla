-------------------------- MODULE ContainersProofs --------------------------
(***************************************************************************)
(* What a node keeps for an allocation, and what it lets go of: for any    *)
(* number of allocations, images, secrets, goals and faults.               *)
(***************************************************************************)
EXTENDS Containers, TLAPS

Phases == {"created", "running", "stopped"}

Mounted == [Secrets -> Versions \cup {None}]

\* A record of the world.
Record(w) ==
    /\ w = [phase |-> w.phase, image |-> w.image, volume |-> w.volume,
            secrets |-> w.secrets, address |-> w.address]
    /\ w.phase \in Phases /\ w.secrets \in Mounted

Known ==
    /\ world = [a \in Allocs |-> world[a]]
    /\ \A a \in Allocs : world[a] = Absent \/ Record(world[a])

Material == (Secrets \X Versions) \cup {None}

\* The types the arguments rest on.
Shape ==
    /\ turn \in 1 .. Len(Goals) /\ Known
    /\ mounts \in [Allocs -> Mounted] /\ files \in [Allocs -> [Paths -> Material]]
    /\ attached \in [Allocs -> Addresses \cup {None}]
    /\ netns \in [Allocs -> Addresses \cup {None}]

LEMMA Present ==
    ASSUME NEW w, Record(w)
    PROVE  w # Absent
BY DEF Record, Phases, Absent

\* A member of a list.
LEMMA Listed ==
    ASSUME NEW S, NEW seq \in Seq(S), NEW i \in 1 .. Len(seq)
    PROVE  seq[i] \in S
OBVIOUS

LEMMA GoalsListed ==
    /\ Len(Goals) \in Nat /\ Len(Goals) >= 1
    /\ \A i \in 1 .. Len(Goals) : Goals[i].version \in Versions /\ Goals[i].version # None
<1>1. Goals \in Seq([image : Images, version : Versions]) /\ Goals # <<>>
  BY ContainersAssumption, Zenon
<1>2. Len(Goals) \in Nat /\ DOMAIN Goals = 1 .. Len(Goals)
  BY <1>1
<1>3. \A i \in 1 .. Len(Goals) : Goals[i] \in [image : Images, version : Versions]
  BY <1>1, Listed, Zenon
<1>4. Len(Goals) # 0
  BY <1>1
<1> QED BY <1>2, <1>3, <1>4, ContainersAssumption

\* What the evidence makes of a record.
LEMMA RecordForms ==
    ASSUME NEW w, Record(w), NEW x
    PROVE  /\ Record([w EXCEPT !.volume = x]) /\ [w EXCEPT !.volume = x].phase = w.phase
           /\ [w EXCEPT !.volume = x].secrets = w.secrets
           /\ [w EXCEPT !.volume = x].image = w.image
           /\ Record([w EXCEPT !.address = x]) /\ [w EXCEPT !.address = x].phase = w.phase
           /\ [w EXCEPT !.address = x].secrets = w.secrets
           /\ [w EXCEPT !.address = x].image = w.image
<1>1. [w EXCEPT !.volume = x] = [phase |-> w.phase, image |-> w.image, volume |-> x,
                                 secrets |-> w.secrets, address |-> w.address]
  BY DEF Record
<1>2. [w EXCEPT !.address = x] = [phase |-> w.phase, image |-> w.image, volume |-> w.volume,
                                  secrets |-> w.secrets, address |-> x]
  BY DEF Record
<1>3. /\ Record([w EXCEPT !.volume = x]) /\ [w EXCEPT !.volume = x].phase = w.phase
      /\ [w EXCEPT !.volume = x].secrets = w.secrets
      /\ [w EXCEPT !.volume = x].image = w.image
  BY <1>1, Zenon DEF Record
<1>4. /\ Record([w EXCEPT !.address = x]) /\ [w EXCEPT !.address = x].phase = w.phase
      /\ [w EXCEPT !.address = x].secrets = w.secrets
      /\ [w EXCEPT !.address = x].image = w.image
  BY <1>2, Zenon DEF Record
<1> QED BY <1>3, <1>4, Zenon

LEMMA PhaseForms ==
    ASSUME NEW w, Record(w), NEW p \in Phases, NEW v, v = [w EXCEPT !.phase = p]
    PROVE  Record(v) /\ v.phase = p /\ v.secrets = w.secrets /\ v.image = w.image
<1>1. v = [phase |-> p, image |-> w.image, volume |-> w.volume,
           secrets |-> w.secrets, address |-> w.address]
  BY Zenon DEF Record
<1> QED BY <1>1, Zenon DEF Record

WithSecret(w, s, v) == [w EXCEPT !.secrets[s] = v]

LEMMA SecretForms ==
    ASSUME NEW w, Record(w), NEW s \in Secrets, NEW v \in Versions,
           NEW u, u = WithSecret(w, s, v)
    PROVE  /\ Record(u) /\ u.phase = w.phase /\ u.image = w.image
           /\ u.secrets = [w.secrets EXCEPT ![s] = v]
<1> DEFINE held == [w.secrets EXCEPT ![s] = v]
<1>1. u = [phase |-> w.phase, image |-> w.image, volume |-> w.volume,
           secrets |-> held, address |-> w.address]
  BY Zenon DEF Record, WithSecret
<1>2. held \in Mounted
  BY Zenon DEF Record, Mounted
<1> HIDE DEF held
<1>3. Record(u) /\ u.phase = w.phase /\ u.image = w.image /\ u.secrets = held
  BY <1>1, <1>2 DEF Record
<1> QED BY <1>3, Zenon DEF held

LEMMA CreatedForm ==
    ASSUME NEW i
    PROVE  /\ Record(Created(i)) /\ Created(i).phase = "created"
           /\ Created(i).image = i /\ Created(i).secrets = NoSecrets
<1> DEFINE no == FALSE
           none == NoSecrets
<1>1. Created(i) = [phase |-> "created", image |-> i, volume |-> no, secrets |-> none,
                    address |-> None]
  BY Zenon DEF Created
<1>2. none \in Mounted
  BY Zenon DEF NoSecrets, Mounted
<1> HIDE DEF no, none
<1>3. /\ Record(Created(i)) /\ Created(i).phase = "created"
      /\ Created(i).image = i /\ Created(i).secrets = none
  BY <1>1, <1>2 DEF Record, Phases
<1> QED BY <1>3, Zenon DEF none

\* An answer that arrives changes one record.
LEMMA LearnKnows ==
    ASSUME Known, NEW a \in Allocs, NEW o, NEW r, r = Absent \/ Record(r), Learn(o, a, r)
    PROVE  /\ Known' /\ world'[a] = IF o = "done" THEN r ELSE world[a]
           /\ \A b \in Allocs \ {a} : world'[b] = world[b]
<1>1. CASE o = "done"
  <2>1. world' = [world EXCEPT ![a] = r]
    BY <1>1, Zenon DEF Learn
  <2>2. /\ world'[a] = r /\ world' = [b \in Allocs |-> world'[b]]
        /\ \A b \in Allocs \ {a} : world'[b] = world[b]
    BY <2>1, Zenon DEF Known
  <2> QED BY <1>1, <2>2, Zenon DEF Known, Record, Absent
<1>2. CASE o # "done"
  BY <1>2, Zenon DEF Learn, Known, Record, Absent
<1> QED BY <1>1, <1>2, Zenon

-----------------------------------------------------------------------------
(* What the operations do to the records, the files and the namespaces.     *)

\* The world's record of one allocation it knows is changed, or not.
Revised(a) ==
    /\ world[a] # Absent /\ Record(world'[a])
    /\ \A b \in Allocs \ {a} : world'[b] = world[b]

LEMMA VolumeRevises ==
    ASSUME Shape, NEW a \in Allocs, AttachVolume(a) \/ DetachVolume(a)
    PROVE  /\ Known' /\ Revised(a) /\ world'[a].phase = world[a].phase
           /\ world'[a].secrets = world[a].secrets /\ world'[a].image = world[a].image
<1>1. Known /\ world[a] # Absent
  BY DEF Shape, AttachVolume, DetachVolume, Phase, Absent
<1>2. Record(world[a])
  BY <1>1, Zenon DEF Known
<1>3. PICK x \in BOOLEAN : \E o : Learn(o, a, [world[a] EXCEPT !.volume = x])
  BY Zenon DEF AttachVolume, DetachVolume
<1> DEFINE r == [world[a] EXCEPT !.volume = x]
<1>4. /\ Record(r) /\ r.phase = world[a].phase /\ r.secrets = world[a].secrets
      /\ r.image = world[a].image
  BY <1>2, RecordForms, Zenon
<1>5. PICK o : Learn(o, a, r)
  BY <1>3, Zenon
<1> HIDE DEF r
<1>6. /\ Known' /\ world'[a] \in {world[a], r}
      /\ \A b \in Allocs \ {a} : world'[b] = world[b]
  BY <1>1, <1>4, <1>5, LearnKnows, Zenon
<1> QED BY <1>1, <1>2, <1>4, <1>6, Zenon DEF Revised

LEMMA MountRevises ==
    ASSUME Shape, NEW a \in Allocs, NEW s \in Secrets, Mount(a, s)
    PROVE  /\ Known' /\ Revised(a) /\ goal.version \in Versions
           /\ world[a].phase = "created" /\ world'[a].phase = "created"
           /\ world'[a].secrets \in {world[a].secrets,
                                    [world[a].secrets EXCEPT ![s] = goal.version]}
           /\ world'[a].image = world[a].image
<1>1. Known /\ world[a].phase = "created" /\ world[a] # Absent
  BY DEF Shape, Mount, MayMount, Phase, Absent
<1>2. Record(world[a]) /\ goal.version \in Versions
  BY <1>1, GoalsListed, Zenon DEF Known, Shape, goal
<1> DEFINE r == [world[a] EXCEPT !.secrets[s] = goal.version]
<1>3. PICK o : Learn(o, a, r)
  BY Zenon DEF Mount
<1>4. /\ Record(r) /\ r.phase = "created" /\ r.image = world[a].image
      /\ r.secrets = [world[a].secrets EXCEPT ![s] = goal.version]
  <2>1. r = WithSecret(world[a], s, goal.version)
    BY Zenon DEF WithSecret
  <2> HIDE DEF r
  <2> QED BY <1>1, <1>2, <2>1, SecretForms
<1> HIDE DEF r
<1>5. /\ Known' /\ world'[a] \in {world[a], r}
      /\ \A b \in Allocs \ {a} : world'[b] = world[b]
  BY <1>1, <1>3, <1>4, LearnKnows, Zenon
<1> QED BY <1>1, <1>2, <1>4, <1>5, Zenon DEF Revised

\* Mount leaves the daemon's note, and the file has what the goal asks for.
LEMMA MountWrites ==
    ASSUME Shape, NEW a \in Allocs, NEW s \in Secrets, Mount(a, s)
    PROVE  \/ mounts[a][s] = goal.version /\ UNCHANGED <<mounts, files>>
           \/ /\ files' = [files EXCEPT ![a] = [files[a] EXCEPT ![Base[s]] = <<s, goal.version>>]]
              /\ mounts' = [mounts EXCEPT ![a] = [mounts[a] EXCEPT ![s] = goal.version]]
<1>1. CASE SameMount(a, s)
  BY <1>1, Zenon DEF Mount, SameMount, secrets
<1>2. CASE ~SameMount(a, s)
  BY <1>2, Zenon DEF Mount, WriteSecret, Shape
<1> QED BY <1>1, <1>2, Zenon

LEMMA NetworkRevises ==
    ASSUME Shape, NEW a \in Allocs, AttachNetwork(a)
    PROVE  /\ Known' /\ Revised(a) /\ world'[a].phase = world[a].phase
           /\ world'[a].secrets = world[a].secrets /\ world'[a].image = world[a].image
<1>1. Known /\ world[a] # Absent
  BY DEF Shape, AttachNetwork, MayAttach, Phase, Absent
<1>2. Record(world[a])
  BY <1>1, Zenon DEF Known
<1>3. UNCHANGED world \/ \E x, o : Learn(o, a, [world[a] EXCEPT !.address = x])
  BY Zenon DEF AttachNetwork
<1>4. CASE UNCHANGED world
  BY <1>1, <1>2, <1>4, Zenon DEF Known, Revised, Record, Absent
<1>5. CASE \E x, o : Learn(o, a, [world[a] EXCEPT !.address = x])
  <2>1. PICK x, o : Learn(o, a, [world[a] EXCEPT !.address = x])
    BY <1>5, Zenon
  <2> DEFINE r == [world[a] EXCEPT !.address = x]
  <2>2. /\ Record(r) /\ r.phase = world[a].phase /\ r.secrets = world[a].secrets
        /\ r.image = world[a].image
    BY <1>2, RecordForms, Zenon
  <2>3. Learn(o, a, r)
    BY <2>1, Zenon
  <2> HIDE DEF r
  <2>4. /\ Known' /\ world'[a] \in {world[a], r}
        /\ \A b \in Allocs \ {a} : world'[b] = world[b]
    BY <1>1, <2>2, <2>3, LearnKnows, Zenon
  <2> QED BY <1>1, <1>2, <2>2, <2>4, Zenon DEF Revised
<1> QED BY <1>3, <1>4, <1>5, Zenon

LEMMA RunRevises ==
    ASSUME Shape, NEW a \in Allocs, Start(a) \/ Stop(a)
    PROVE  /\ Known' /\ Revised(a) /\ world'[a].secrets = world[a].secrets
           /\ world'[a].image = world[a].image
           /\ Start(a) => world'[a].phase \in {"created", "running"}
           /\ Stop(a) => world'[a].phase \in {"running", "stopped"}
           /\ Start(a) => world[a].phase = "created"
           /\ Stop(a) => world[a].phase = "running"
<1>1. /\ Known /\ world[a] # Absent
      /\ Start(a) => world[a].phase = "created"
      /\ Stop(a) => world[a].phase = "running"
  BY DEF Shape, Start, MayStart, Stop, Phase, Absent
<1>2. Record(world[a])
  BY <1>1, Zenon DEF Known
<1>3. PICK p \in Phases : /\ \E o : Learn(o, a, [world[a] EXCEPT !.phase = p])
                          /\ Start(a) => p = "running"
                          /\ Stop(a) => p = "stopped"
  <2>1. CASE Start(a)
    <3>1. ~Stop(a)
      BY <1>1, <2>1, Zenon
    <3> QED BY <2>1, <3>1, Zenon DEF Start, Phases
  <2>2. CASE Stop(a)
    <3>1. ~Start(a)
      BY <1>1, <2>2, Zenon
    <3> QED BY <2>2, <3>1, Zenon DEF Stop, Phases
  <2> QED BY <2>1, <2>2, Zenon
<1> DEFINE r == [world[a] EXCEPT !.phase = p]
<1>4. Record(r) /\ r.phase = p /\ r.secrets = world[a].secrets /\ r.image = world[a].image
  BY <1>2, PhaseForms
<1>5. PICK o : Learn(o, a, r)
  BY <1>3, Zenon
<1> HIDE DEF r
<1>6. /\ Known' /\ world'[a] \in {world[a], r}
      /\ \A b \in Allocs \ {a} : world'[b] = world[b]
  BY <1>1, <1>4, <1>5, LearnKnows, Zenon
<1> QED BY <1>1, <1>2, <1>3, <1>4, <1>6, Zenon DEF Revised

LEMMA CreateRevises ==
    ASSUME Shape, NEW a \in Allocs, Create(a)
    PROVE  /\ Known' /\ world[a] = Absent /\ world'[a] \in {Absent, Created(goal.image)}
           /\ ("lost" \notin Faults => world'[a] = Created(goal.image))
           /\ \A b \in Allocs \ {a} : world'[b] = world[b]
<1>1. PICK o \in Outcomes({"lost"}) : Learn(o, a, Created(goal.image))
  BY Zenon DEF Create
<1>2. Record(Created(goal.image)) /\ Known /\ world[a] = Absent
  BY CreatedForm, Zenon DEF Create, MayCreate, Shape
<1>3. /\ Known' /\ world'[a] = IF o = "done" THEN Created(goal.image) ELSE world[a]
      /\ \A b \in Allocs \ {a} : world'[b] = world[b]
  BY <1>1, <1>2, LearnKnows, Zenon
<1>4. "lost" \notin Faults => o = "done"
  BY <1>1, Zenon DEF Outcomes
<1> QED BY <1>2, <1>3, <1>4, Zenon

LEMMA DeleteRevises ==
    ASSUME Shape, NEW a \in Allocs, Delete(a)
    PROVE  \E o \in {"done", "plugin", "disk", "lost"} :
              /\ Known' /\ world[a] # Absent
              /\ world'[a] = IF o = "done" THEN Absent ELSE world[a]
              /\ \A b \in Allocs \ {a} : world'[b] = world[b]
              /\ DetachNetwork(a, o) /\ ReleaseSecrets(a, o)
<1>1. PICK o \in Outcomes({"plugin", "disk", "lost"}) :
          Learn(o, a, Absent) /\ DetachNetwork(a, o) /\ ReleaseSecrets(a, o)
  BY Zenon DEF Delete
<1>2. Known /\ world[a] # Absent /\ o \in {"done", "plugin", "disk", "lost"}
  BY <1>1, Zenon DEF Shape, Delete, MayDelete, Outcomes
<1>3. /\ Known' /\ world'[a] = IF o = "done" THEN Absent ELSE world[a]
      /\ \A b \in Allocs \ {a} : world'[b] = world[b]
  BY <1>1, <1>2, LearnKnows, Zenon
<1> QED BY <1>1, <1>2, <1>3, Zenon

\* The steps that leave the records, the files and the namespaces.
Apart == UNCHANGED <<turn, world, cont, mounts, files, attached, netns, strayed>>

LEMMA ImagesApart ==
    ASSUME (\E i \in Images : Pull(i)) \/ (\E dry \in Collecting : Collect(dry))
    PROVE  Apart
BY Zenon DEF Pull, Collect, Apart, node, network, secrets

LEMMA KnownKept ==
    ASSUME Known, UNCHANGED world
    PROVE  Known'
BY Zenon DEF Known, Record, Absent

LEMMA PluginAdds ==
    ASSUME netns \in [Allocs -> Addresses \cup {None}], NEW a \in Allocs,
           NEW x \in Addresses, PluginAdd(a, x)
    PROVE  /\ netns' \in [Allocs -> Addresses \cup {None}] /\ netns'[a] = x
           /\ \A b \in Allocs \ {a} : netns'[b] = netns[b]
BY Zenon DEF PluginAdd

LEMMA ShapeApart ==
    ASSUME Shape, UNCHANGED <<turn, world, mounts, files, attached, netns>>
    PROVE  Shape'
BY KnownKept, Zenon DEF Shape

LEMMA MountTypes ==
    ASSUME Shape, NEW a \in Allocs, NEW s \in Secrets, Mount(a, s)
    PROVE  mounts' \in [Allocs -> Mounted] /\ files' \in [Allocs -> [Paths -> Material]]
<1> DEFINE m == [mounts[a] EXCEPT ![s] = goal.version]
           one == <<s, goal.version>>
           f == [files[a] EXCEPT ![Base[s]] = one]
<1>1. /\ mounts \in [Allocs -> Mounted] /\ files \in [Allocs -> [Paths -> Material]]
      /\ goal.version \in Versions /\ Base[s] \in Paths
  BY MountRevises, ContainersAssumption, Zenon DEF Shape
<1>2. m \in Mounted
  BY <1>1, Zenon DEF Mounted
<1>3. one \in Material
  BY <1>1, Zenon DEF Material
<1>4. f \in [Paths -> Material]
  <2> HIDE DEF one
  <2> QED BY <1>1, <1>3, Zenon
<1>5. \/ UNCHANGED <<mounts, files>>
      \/ files' = [files EXCEPT ![a] = f] /\ mounts' = [mounts EXCEPT ![a] = m]
  BY MountWrites, Zenon
<1> HIDE DEF m, f
<1> QED BY <1>1, <1>2, <1>4, <1>5, Zenon

LEMMA DetachTypes ==
    ASSUME Shape, NEW a \in Allocs, NEW o, DetachNetwork(a, o), ReleaseSecrets(a, o)
    PROVE  /\ attached' \in [Allocs -> Addresses \cup {None}]
           /\ netns' \in [Allocs -> Addresses \cup {None}]
           /\ mounts' \in [Allocs -> Mounted] /\ files' \in [Allocs -> [Paths -> Material]]
           /\ \A b \in Allocs \ {a} : /\ netns'[b] = netns[b] /\ attached'[b] = attached[b]
                                     /\ mounts'[b] = mounts[b] /\ files'[b] = files[b]
           /\ mounts'[a] \in {mounts[a], NoSecrets} /\ (mounts'[a] = NoSecrets \/ files'[a] = files[a])
           /\ o = "done" => files'[a] = NoFiles /\ (attached[a] # None => netns'[a] = None)
           /\ attached[a] = None => netns'[a] = netns[a] /\ attached'[a] = None
           /\ netns'[a] # None => netns'[a] = netns[a] /\ attached'[a] = attached[a]
<1>1. /\ mounts \in [Allocs -> Mounted] /\ files \in [Allocs -> [Paths -> Material]]
      /\ attached \in [Allocs -> Addresses \cup {None}]
      /\ netns \in [Allocs -> Addresses \cup {None}]
  BY Zenon DEF Shape
<1>2. NoSecrets \in Mounted /\ NoFiles \in [Paths -> Material]
  BY Zenon DEF NoSecrets, NoFiles, Mounted, Material
<1>3. /\ mounts' \in [Allocs -> Mounted] /\ files' \in [Allocs -> [Paths -> Material]]
      /\ \A b \in Allocs \ {a} : mounts'[b] = mounts[b] /\ files'[b] = files[b]
      /\ mounts'[a] \in {mounts[a], NoSecrets} /\ (mounts'[a] = NoSecrets \/ files'[a] = files[a])
      /\ o = "done" => files'[a] = NoFiles
  BY <1>1, <1>2, Zenon DEF ReleaseSecrets, secrets
<1>4. /\ attached' \in [Allocs -> Addresses \cup {None}]
      /\ netns' \in [Allocs -> Addresses \cup {None}]
      /\ \A b \in Allocs \ {a} : netns'[b] = netns[b] /\ attached'[b] = attached[b]
      /\ o = "done" /\ attached[a] # None => netns'[a] = None
      /\ attached[a] = None => netns'[a] = netns[a] /\ attached'[a] = None
      /\ netns'[a] # None => netns'[a] = netns[a] /\ attached'[a] = attached[a]
  BY <1>1, Zenon DEF DetachNetwork, PluginDel
<1> QED BY <1>3, <1>4, Zenon

LEMMA NextShape ==
    ASSUME Shape, Next
    PROVE  Shape'
<1>1. CASE Submit
  <2>1. turn' \in 1 .. Len(Goals)
    BY <1>1, GoalsListed DEF Submit, Shape
  <2>2. UNCHANGED <<world, mounts, files, attached, netns>>
    BY <1>1, Zenon DEF Submit, node, network, secrets
  <2> QED BY <2>1, <2>2, KnownKept, Zenon DEF Shape
<1>2. CASE (\E i \in Images : Pull(i)) \/ (\E dry \in Collecting : Collect(dry))
  BY <1>2, ImagesApart, ShapeApart, Zenon DEF Apart
<1>3. ASSUME NEW a \in Allocs,
             Create(a) \/ AttachVolume(a) \/ DetachVolume(a) \/ Start(a) \/ Stop(a)
      PROVE  Shape'
  <2>1. Known'
    BY <1>3, CreateRevises, VolumeRevises, RunRevises, Zenon
  <2>2. UNCHANGED <<turn, mounts, files, attached, netns>>
    BY <1>3, Zenon DEF Create, AttachVolume, DetachVolume, Start, Stop, network, secrets
  <2> QED BY <2>1, <2>2, Zenon DEF Shape
<1>4. ASSUME NEW a \in Allocs, NEW s \in Secrets, Mount(a, s) PROVE Shape'
  <2>1. Known' /\ mounts' \in [Allocs -> Mounted] /\ files' \in [Allocs -> [Paths -> Material]]
    BY <1>4, MountRevises, MountTypes, Zenon
  <2>2. UNCHANGED <<turn, attached, netns>>
    BY <1>4, Zenon DEF Mount, network
  <2> QED BY <2>1, <2>2, Zenon DEF Shape
<1>5. ASSUME NEW a \in Allocs, AttachNetwork(a) PROVE Shape'
  <2>1. Known'
    BY <1>5, NetworkRevises, Zenon
  <2>2. UNCHANGED <<turn, mounts, files>>
    BY <1>5, Zenon DEF AttachNetwork, secrets
  <2>3. /\ attached' \in [Allocs -> Addresses \cup {None}]
        /\ netns' \in [Allocs -> Addresses \cup {None}]
    <3>1. /\ attached \in [Allocs -> Addresses \cup {None}]
          /\ netns \in [Allocs -> Addresses \cup {None}]
      BY Zenon DEF Shape
    <3>2. /\ attached' = attached \/ \E x \in Addresses : attached' = [attached EXCEPT ![a] = x]
          /\ netns' = netns \/ \E x \in Addresses : PluginAdd(a, x)
      BY <1>5, Zenon DEF AttachNetwork, network
    <3> QED BY <3>1, <3>2, PluginAdds
  <2> QED BY <2>1, <2>2, <2>3, Zenon DEF Shape
<1>6. ASSUME NEW a \in Allocs, Delete(a) PROVE Shape'
  <2>1. PICK o : Known' /\ DetachNetwork(a, o) /\ ReleaseSecrets(a, o)
    BY <1>6, DeleteRevises, Zenon
  <2>2. turn' = turn
    BY <1>6, Zenon DEF Delete
  <2> QED BY <2>1, <2>2, DetachTypes, Zenon DEF Shape
<1>7. ASSUME NEW a \in Allocs, Exit(a) PROVE Shape'
  BY <1>7, ShapeApart, Zenon DEF Exit, network, secrets
<1>8. CASE Restart
  <2>1. UNCHANGED <<turn, world, netns, files>>
    BY <1>8, Zenon DEF Restart
  <2>2. attached' = [a \in Allocs |-> None] /\ mounts' = [a \in Allocs |-> NoSecrets]
    BY <1>8, Zenon DEF Restart
  <2>3. NoSecrets \in Mounted
    BY Zenon DEF NoSecrets, Mounted
  <2> QED BY <2>1, <2>2, <2>3, KnownKept, Zenon DEF Shape
<1> QED BY <1>1, <1>2, <1>3, <1>4, <1>5, <1>6, <1>7, <1>8, Zenon DEF Next, Operate

LEMMA InitShape ==
    ASSUME Init
    PROVE  Shape
<1>1. NoSecrets \in Mounted /\ NoFiles \in [Paths -> Material]
  BY Zenon DEF NoSecrets, NoFiles, Mounted, Material
<1>2. turn \in 1 .. Len(Goals)
  BY GoalsListed DEF Init
<1>3. Known
  BY Zenon DEF Init, Known
<1> QED BY <1>1, <1>2, <1>3, Zenon DEF Init, Shape

LEMMA ShapeStep ==
    ASSUME Shape, [Next]_vars
    PROVE  Shape'
<1>1. CASE UNCHANGED vars
  BY <1>1, ShapeApart, Zenon DEF vars
<1> QED BY <1>1, NextShape, Zenon

-----------------------------------------------------------------------------
(* What is let go of.                                                       *)

\* An allocation the world does not know has no file, and no namespace the
\* daemon could have taken down; a namespace the daemon has no note of is one
\* it lost sight of.
Gone ==
    \A a \in Allocs :
        /\ world[a] = Absent => files[a] = NoFiles /\ (netns[a] = None \/ a \in strayed)
        /\ attached[a] = None /\ netns[a] # None => a \in strayed

LEMMA GoneApart ==
    ASSUME Gone, UNCHANGED <<world, files, attached, netns, strayed>>
    PROVE  Gone'
BY Zenon DEF Gone

\* A step that revises a record the world has, or adds one.
LEMMA GoneRevised ==
    ASSUME Gone, NEW a \in Allocs, UNCHANGED <<files, attached, netns, strayed>>,
           world'[a] # Absent \/ world[a] = Absent,
           \A b \in Allocs \ {a} : world'[b] = world[b]
    PROVE  Gone'
BY Zenon DEF Gone

LEMMA NextGone ==
    ASSUME Shape, Gone, Next
    PROVE  Gone'
<1>1. CASE Submit
  BY <1>1, GoneApart, Zenon DEF Submit, node, network, secrets
<1>2. CASE (\E i \in Images : Pull(i)) \/ (\E dry \in Collecting : Collect(dry))
  BY <1>2, ImagesApart, GoneApart, Zenon DEF Apart
<1>3. ASSUME NEW a \in Allocs, Create(a) PROVE Gone'
  <2>1. UNCHANGED <<files, attached, netns, strayed>>
    BY <1>3, Zenon DEF Create, network, secrets
  <2>2. world[a] = Absent /\ \A b \in Allocs \ {a} : world'[b] = world[b]
    BY <1>3, CreateRevises, Zenon
  <2> QED BY <2>1, <2>2, GoneRevised, Zenon
<1>4. ASSUME NEW a \in Allocs, AttachVolume(a) \/ DetachVolume(a) \/ Start(a) \/ Stop(a)
      PROVE  Gone'
  <2>1. UNCHANGED <<files, attached, netns, strayed>>
    BY <1>4, Zenon DEF AttachVolume, DetachVolume, Start, Stop, network, secrets
  <2>2. Revised(a)
    BY <1>4, VolumeRevises, RunRevises, Zenon
  <2>3. world'[a] # Absent /\ \A b \in Allocs \ {a} : world'[b] = world[b]
    BY <2>2, Present, Zenon DEF Revised
  <2> QED BY <2>1, <2>3, GoneRevised, Zenon
<1>5. ASSUME NEW a \in Allocs, NEW s \in Secrets, Mount(a, s) PROVE Gone'
  <2>1. UNCHANGED <<attached, netns, strayed>>
    BY <1>5, Zenon DEF Mount, network
  <2>2. world'[a] # Absent /\ \A b \in Allocs \ {a} : world'[b] = world[b]
    BY <1>5, MountRevises, Present, Zenon DEF Revised
  <2>3. \A b \in Allocs \ {a} : files'[b] = files[b]
    <3> DEFINE f == [files[a] EXCEPT ![Base[s]] = <<s, goal.version>>]
    <3>1. files' = files \/ files' = [files EXCEPT ![a] = f]
      BY <1>5, MountWrites, Zenon
    <3> HIDE DEF f
    <3> QED BY <3>1, Zenon DEF Shape
  <2> QED BY <2>1, <2>2, <2>3, Zenon DEF Gone
<1>6. ASSUME NEW a \in Allocs, AttachNetwork(a) PROVE Gone'
  <2>1. world'[a] # Absent /\ \A b \in Allocs \ {a} : world'[b] = world[b]
    BY <1>6, NetworkRevises, Present, Zenon DEF Revised
  <2>2. UNCHANGED files
    BY <1>6, Zenon DEF AttachNetwork, secrets
  <2>3. /\ \A b \in Allocs \ {a} : /\ attached'[b] = attached[b] /\ netns'[b] = netns[b]
                                 /\ (b \in strayed) = (b \in strayed')
        /\ attached'[a] = None /\ netns'[a] # None => a \in strayed'
    <3>1. /\ attached \in [Allocs -> Addresses \cup {None}]
          /\ netns \in [Allocs -> Addresses \cup {None}]
      BY Zenon DEF Shape
    <3>2. CASE UNCHANGED network
      BY <3>2, Zenon DEF network, Gone
    <3>3. CASE \E x \in Addresses : /\ PluginAdd(a, x)
                                   /\ attached' = [attached EXCEPT ![a] = x]
                                   /\ strayed' = strayed \ {a}
      <4>1. PICK x \in Addresses : /\ PluginAdd(a, x)
                                   /\ attached' = [attached EXCEPT ![a] = x]
                                   /\ strayed' = strayed \ {a}
        BY <3>3, Zenon
      <4> QED BY <3>1, <4>1, PluginAdds
    <3>4. CASE /\ UNCHANGED attached
               /\ \/ \E x \in Addresses : PluginAdd(a, x) /\ strayed' = strayed \cup {a}
                  \/ UNCHANGED <<netns, strayed>>
      BY <3>1, <3>4, PluginAdds DEF Gone
    <3> QED BY <1>6, <3>2, <3>3, <3>4, Zenon DEF AttachNetwork
  <2> QED BY <2>1, <2>2, <2>3, Zenon DEF Gone
<1>7. ASSUME NEW a \in Allocs, Delete(a) PROVE Gone'
  <2>1. PICK o \in {"done", "plugin", "disk", "lost"} :
              /\ world[a] # Absent
              /\ world'[a] = IF o = "done" THEN Absent ELSE world[a]
              /\ \A b \in Allocs \ {a} : world'[b] = world[b]
              /\ DetachNetwork(a, o) /\ ReleaseSecrets(a, o)
    BY <1>7, DeleteRevises, Zenon
  <2>2. UNCHANGED strayed
    BY <1>7, Zenon DEF Delete
  <2>3. /\ \A b \in Allocs \ {a} : /\ netns'[b] = netns[b] /\ attached'[b] = attached[b]
                                 /\ files'[b] = files[b]
        /\ o = "done" => files'[a] = NoFiles /\ (attached[a] # None => netns'[a] = None)
        /\ attached[a] = None => netns'[a] = netns[a] /\ attached'[a] = None
        /\ netns'[a] # None => netns'[a] = netns[a] /\ attached'[a] = attached[a]
    BY <2>1, DetachTypes, Zenon
  <2> QED BY <2>1, <2>2, <2>3, Zenon DEF Gone
<1>8. ASSUME NEW a \in Allocs, Exit(a) PROVE Gone'
  BY <1>8, GoneApart, Zenon DEF Exit, network, secrets
<1>9. CASE Restart
  BY <1>9, Zenon DEF Restart, Gone
<1> QED BY <1>1, <1>2, <1>3, <1>4, <1>5, <1>6, <1>7, <1>8, <1>9, Zenon DEF Next, Operate

LEMMA GoneAlways == Spec => []Gone
<1>1. Init => Shape /\ Gone
  BY InitShape, Zenon DEF Init, Gone
<1>2. Shape /\ Gone /\ [Next]_vars => (Shape /\ Gone)'
  <2>1. ASSUME Gone, UNCHANGED vars PROVE Gone'
    BY <2>1, GoneApart, Zenon DEF vars
  <2> QED BY <2>1, ShapeStep, NextGone, Zenon
<1> QED BY <1>1, <1>2, PTL DEF Spec

\* An allocation the world no longer knows has no secret file on the node,
\* whatever fails, in whatever order, and however often the daemon restarts
\* (CompositeRuntime.Execute, Secrets.Release).
THEOREM CredentialsAreReleased == Spec => []CredentialsReleased
<1>1. Gone => CredentialsReleased
  BY Zenon DEF Gone, CredentialsReleased
<1> QED BY <1>1, GoneAlways, PTL

\* Nor has it a namespace on the host, but for one the daemon lost sight of in
\* a restart or at a plugin's deadline (CNINetworks.Detach).
THEOREM NamespacesAreReleased == Spec => []NamespaceReleased
<1>1. Gone => NamespaceReleased
  BY Zenon DEF Gone, NamespaceReleased
<1> QED BY <1>1, GoneAlways, PTL

-----------------------------------------------------------------------------
(* What is kept.                                                            *)

\* A container's image is the one the world records for its allocation, and is
\* in the content store.
Box(c) ==
    c = [image |-> c.image, volume |-> c.volume, secrets |-> c.secrets,
         joined |-> c.joined, task |-> c.task]

Pinned ==
    /\ cont = [a \in Allocs |-> cont[a]]
    /\ \A a \in Allocs : cont[a] # None =>
        /\ Box(cont[a]) /\ world[a] # Absent
        /\ cont[a].image = world[a].image /\ cont[a].image \in images

LEMMA TaskForms ==
    ASSUME NEW c, Box(c), NEW x, NEW d, d = [c EXCEPT !.task = x]
    PROVE  Box(d) /\ d.image = c.image /\ d.task = x
<1>1. d = [image |-> c.image, volume |-> c.volume, secrets |-> c.secrets,
           joined |-> c.joined, task |-> x]
  BY Zenon DEF Box
<1> QED BY <1>1, Zenon DEF Box

LEMMA SpecForms ==
    ASSUME NEW a \in Allocs
    PROVE  Box(SpecFor(a)) /\ SpecFor(a).image = goal.image
<1> DEFINE v == (holder = a)
           j == (attached[a] # None)
<1>1. SpecFor(a) = [image |-> goal.image, volume |-> v, secrets |-> mounts[a],
                    joined |-> j, task |-> "none"]
  BY Zenon DEF SpecFor
<1> HIDE DEF v, j
<1> QED BY <1>1 DEF Box

\* A step that leaves the images, and the record of every other allocation.
LEMMA PinnedRevised ==
    ASSUME Pinned, NEW a \in Allocs, Revised(a), world'[a].image = world[a].image,
           UNCHANGED images, cont' = [b \in Allocs |-> cont'[b]],
           \A b \in Allocs \ {a} : cont'[b] = cont[b],
           \/ cont'[a] \in {cont[a], None}
           \/ cont[a] # None /\ Box(cont'[a]) /\ cont'[a].image = cont[a].image
    PROVE  Pinned'
<1>1. world'[a] # Absent /\ \A b \in Allocs \ {a} : world'[b] = world[b]
  BY Present, Zenon DEF Revised
<1> QED BY <1>1 DEF Pinned, Box

LEMMA NextPinned ==
    ASSUME Shape, Pinned, Next, "lost" \notin Faults
    PROVE  Pinned'
<1>1. CASE Submit \/ Restart
  BY <1>1, Zenon DEF Submit, Restart, node, Pinned, Box
<1>2. ASSUME NEW i \in Images, Pull(i) PROVE Pinned'
  BY <1>2, Zenon DEF Pull, node, Pinned, Box
<1>3. ASSUME NEW dry \in Collecting, Collect(dry) PROVE Pinned'
  <2>1. UNCHANGED <<world, cont>> /\ \A i \in images : i \in ProtectedImages => i \in images'
    BY <1>3, Zenon DEF Collect, Reclaimable, node
  <2>2. \A a \in Allocs : world[a] # Absent => world[a].image \in ProtectedImages
    BY Zenon DEF ProtectedImages
  <2> QED BY <2>1, <2>2, Zenon DEF Pinned, Box
<1>4. ASSUME NEW a \in Allocs, Create(a) PROVE Pinned'
  <2>1. /\ world[a] = Absent /\ world'[a] = Created(goal.image)
        /\ \A b \in Allocs \ {a} : world'[b] = world[b]
    BY <1>4, CreateRevises, Zenon
  <2>2. world'[a] # Absent /\ world'[a].image = goal.image
    BY <2>1, CreatedForm, Present, Zenon
  <2>3. cont[a] = None
    BY <2>1, Zenon DEF Pinned
  <2>4. /\ cont' = [cont EXCEPT ![a] = SpecFor(a)] /\ UNCHANGED images
        /\ goal.image \in images
    BY <1>4, <2>3, Zenon DEF Create
  <2>5. /\ cont'[a] = SpecFor(a) /\ cont' = [b \in Allocs |-> cont'[b]]
        /\ \A b \in Allocs \ {a} : cont'[b] = cont[b]
    BY <2>4, Zenon DEF Pinned
  <2>6. Box(cont'[a]) /\ cont'[a].image = goal.image
    BY <2>5, SpecForms, Zenon
  <2> QED BY <2>1, <2>2, <2>4, <2>5, <2>6 DEF Pinned, Box
<1>5. ASSUME NEW a \in Allocs, AttachVolume(a) \/ DetachVolume(a) PROVE Pinned'
  <2>1. Revised(a) /\ world'[a].image = world[a].image
    BY <1>5, VolumeRevises, Zenon
  <2> QED BY <1>5, <2>1, PinnedRevised, Zenon DEF AttachVolume, DetachVolume, Pinned
<1>6. ASSUME NEW a \in Allocs, NEW s \in Secrets, Mount(a, s) PROVE Pinned'
  <2>1. Revised(a) /\ world'[a].image = world[a].image
    BY <1>6, MountRevises, Zenon
  <2> QED BY <1>6, <2>1, PinnedRevised, Zenon DEF Mount, Pinned
<1>7. ASSUME NEW a \in Allocs, AttachNetwork(a) PROVE Pinned'
  <2>1. Revised(a) /\ world'[a].image = world[a].image
    BY <1>7, NetworkRevises, Zenon
  <2>2. UNCHANGED <<images, cont>>
    BY <1>7, Zenon DEF AttachNetwork
  <2> QED BY <2>1, <2>2, PinnedRevised, Zenon DEF Pinned
<1>8. ASSUME NEW a \in Allocs, Start(a) \/ Stop(a) PROVE Pinned'
  <2>1. Revised(a) /\ world'[a].image = world[a].image
    BY <1>8, RunRevises, Zenon
  <2>2. UNCHANGED images
    BY <1>8, Zenon DEF Start, Stop
  <2>3. cont' = cont \/ (cont[a] # None /\ \E x : cont' = [cont EXCEPT ![a].task = x])
    BY <1>8, Zenon DEF Start, Stop
  <2>4. CASE cont' = cont
    BY <2>1, <2>2, <2>4, PinnedRevised, Zenon DEF Pinned
  <2>5. CASE cont[a] # None /\ \E x : cont' = [cont EXCEPT ![a].task = x]
    <3>1. PICK x : cont' = [cont EXCEPT ![a].task = x]
      BY <2>5, Zenon
    <3> DEFINE d == [cont[a] EXCEPT !.task = x]
    <3>2. Box(cont[a])
      BY <2>5, Zenon DEF Pinned
    <3>3. cont' = [cont EXCEPT ![a] = d] /\ d = [cont[a] EXCEPT !.task = x]
      BY <3>1, Zenon
    <3> HIDE DEF d
    <3>4. /\ cont'[a] = d /\ cont' = [b \in Allocs |-> cont'[b]]
          /\ \A b \in Allocs \ {a} : cont'[b] = cont[b]
      BY <3>3, Zenon DEF Pinned
    <3>5. Box(cont'[a]) /\ cont'[a].image = cont[a].image
      BY <3>2, <3>3, <3>4, TaskForms
    <3> QED BY <2>1, <2>2, <2>5, <3>4, <3>5, PinnedRevised, Zenon
  <2> QED BY <2>3, <2>4, <2>5, Zenon
<1>9. ASSUME NEW a \in Allocs, Exit(a) PROVE Pinned'
  <2> DEFINE d == [cont[a] EXCEPT !.task = "exited"]
  <2>1. Box(cont[a])
    BY <1>9, Zenon DEF Exit, Pinned
  <2>2. /\ cont' = [cont EXCEPT ![a] = d] /\ d = [cont[a] EXCEPT !.task = "exited"]
        /\ UNCHANGED <<world, images>> /\ cont[a] # None
    BY <1>9, Zenon DEF Exit
  <2> HIDE DEF d
  <2>3. /\ cont'[a] = d /\ cont' = [b \in Allocs |-> cont'[b]]
        /\ \A b \in Allocs \ {a} : cont'[b] = cont[b]
    BY <2>2, Zenon DEF Pinned
  <2>4. Box(cont'[a]) /\ cont'[a].image = cont[a].image
    BY <2>1, <2>2, <2>3, TaskForms
  <2> QED BY <2>2, <2>3, <2>4 DEF Pinned, Box
<1>10. ASSUME NEW a \in Allocs, Delete(a) PROVE Pinned'
  <2>1. PICK o : /\ world'[a] = IF o = "done" THEN Absent ELSE world[a]
                 /\ \A b \in Allocs \ {a} : world'[b] = world[b]
    BY <1>10, DeleteRevises, Zenon
  <2>2. cont' = [cont EXCEPT ![a] = None] /\ UNCHANGED images
    BY <1>10, Zenon DEF Delete, RemoveContainer
  <2> QED BY <2>1, <2>2, Zenon DEF Pinned, Box
<1> QED BY <1>1, <1>2, <1>3, <1>4, <1>5, <1>6, <1>7, <1>8, <1>9, <1>10, Zenon DEF Next, Operate

\* When no answer is lost, a container's image stays in the content store while
\* it runs: collectImages spares the image of every allocation the world knows,
\* and the world knows every allocation that has a container.
THEOREM RunningImagesAreKept ==
    ASSUME "lost" \notin Faults
    PROVE  Spec => []RunningImageKept
<1>1. Init => Shape /\ Pinned
  BY InitShape, Zenon DEF Init, Pinned
<1>2. Shape /\ Pinned /\ [Next]_vars => (Shape /\ Pinned)'
  <2>1. ASSUME Pinned, UNCHANGED vars PROVE Pinned'
    BY <2>1, Zenon DEF vars, Pinned, Box
  <2> QED BY <2>1, ShapeStep, NextPinned, Zenon
<1>3. Pinned => RunningImageKept
  BY Zenon DEF Pinned, RunningImageKept
<1> QED BY <1>1, <1>2, <1>3, PTL DEF Spec

-----------------------------------------------------------------------------
(* What a running allocation was promised.                                  *)

\* Two secrets have two files.
Apiece == \A s, u \in Secrets : Base[s] = Base[u] => s = u

\* A version that was replaced does not come back.
Onward ==
    \A i, j, k \in 1 .. Len(Goals) :
        i <= j /\ j <= k /\ Goals[i].version = Goals[k].version
            => Goals[j].version = Goals[i].version

\* The daemon's note of a mount is true of the file.
Noted == \A a \in Allocs, s \in Secrets :
    mounts[a][s] # None => files[a][Base[s]] = <<s, mounts[a][s]>>

\* The world's note of a mount is a version some goal so far asked for.
Asked == \A a \in Allocs, s \in Secrets :
    world[a] # Absent /\ world[a].secrets[s] # None
        => \E i \in 1 .. turn : world[a].secrets[s] = Goals[i].version

\* What an allocation may be started with is what its files hold: while its
\* container exists no deletion has touched them.
Ready == \A a \in Allocs, s \in Secrets :
    /\ world[a].phase = "created" /\ cont[a] # None
       /\ world[a].secrets[s] = goal.version
          => files[a][Base[s]] = <<s, goal.version>>
    /\ "secret" \in Needs /\ world[a].phase = "running"
          => files[a][Base[s]] = <<s, world[a].secrets[s]>>

Honest == cont = [a \in Allocs |-> cont[a]] /\ Noted /\ Asked /\ Ready

LEMMA HonestApart ==
    ASSUME Honest, UNCHANGED <<turn, world, cont, mounts, files>>
    PROVE  Honest'
BY Zenon DEF Honest, Noted, Asked, Ready, goal

\* A step that changes one record's other fields, and its container perhaps.
LEMMA HonestRevised ==
    ASSUME Honest, NEW a \in Allocs, Revised(a), UNCHANGED <<turn, mounts, files>>,
           world'[a].secrets = world[a].secrets, world'[a].phase = world[a].phase,
           UNCHANGED cont
    PROVE  Honest'
<1>1. \A b \in Allocs : /\ world'[b].phase = world[b].phase
                        /\ world'[b].secrets = world[b].secrets
                        /\ world'[b] # Absent => world[b] # Absent
  BY Zenon DEF Revised
<1>2. goal' = goal
  BY Zenon DEF goal
<1>3. Noted'
  BY Zenon DEF Honest, Noted
<1>4. Asked'
  BY <1>1 DEF Honest, Asked
<1>5. Ready'
  <2>1. ASSUME NEW b \in Allocs, NEW u \in Secrets, world'[b].phase = "created",
               cont[b] # None, world'[b].secrets[u] = goal.version
        PROVE  files[b][Base[u]] = <<u, goal.version>>
    BY <1>1, <2>1, Zenon DEF Honest, Ready
  <2>2. ASSUME NEW b \in Allocs, NEW u \in Secrets, "secret" \in Needs,
               world'[b].phase = "running"
        PROVE  files[b][Base[u]] = <<u, world'[b].secrets[u]>>
    <3>1. files[b][Base[u]] = <<u, world[b].secrets[u]>>
      BY <1>1, <2>2, Zenon DEF Honest, Ready
    <3> QED BY <1>1, <3>1, Zenon
  <2> QED BY <1>2, <2>1, <2>2, Zenon DEF Ready
<1> QED BY <1>3, <1>4, <1>5, Zenon DEF Honest

LEMMA SubmitHonest ==
    ASSUME Shape, Honest, Submit, Onward
    PROVE  Honest'
<1>1. /\ UNCHANGED <<world, cont, mounts, files>> /\ turn' = turn + 1
      /\ turn \in 1 .. Len(Goals) /\ turn' \in 1 .. Len(Goals) /\ Len(Goals) \in Nat
  BY GoalsListed DEF Submit, Shape, node, secrets
<1>2. Asked'
  BY <1>1 DEF Honest, Asked
<1>3. ASSUME NEW a \in Allocs, NEW s \in Secrets, world[a].phase = "created",
             world[a].secrets[s] = goal'.version
      PROVE  world[a].secrets[s] = goal.version
  <2>1. world[a] # Absent
    BY <1>3 DEF Absent
  <2>2. goal'.version # None
    BY <1>1, GoalsListed, Zenon DEF goal
  <2>3. PICK i \in 1 .. turn : world[a].secrets[s] = Goals[i].version
    BY <1>3, <2>1, <2>2, Zenon DEF Honest, Asked
  <2>4. Goals[i].version = Goals[turn'].version
    BY <1>3, <2>3, Zenon DEF goal
  <2>5. i \in 1 .. Len(Goals) /\ i <= turn /\ turn <= turn'
    BY <1>1
  <2>6. Goals[turn].version = Goals[i].version
    BY <1>1, <2>4, <2>5, Zenon DEF Onward
  <2> QED BY <2>3, <2>6, Zenon DEF goal
<1>4. Ready'
  <2>1. ASSUME NEW a \in Allocs, NEW s \in Secrets, world[a].phase = "created",
               cont[a] # None, world[a].secrets[s] = goal'.version
        PROVE  files[a][Base[s]] = <<s, goal'.version>>
    BY <1>3, <2>1, Zenon DEF Honest, Ready
  <2> QED BY <1>1, <2>1, Zenon DEF Honest, Ready
<1> QED BY <1>1, <1>2, <1>4, Zenon DEF Honest, Noted

LEMMA CreateHonest ==
    ASSUME Shape, Honest, NEW a \in Allocs, Create(a)
    PROVE  Honest'
<1>1. /\ world'[a] \in {Absent, Created(goal.image)}
      /\ \A b \in Allocs \ {a} : world'[b] = world[b]
  BY CreateRevises, Zenon
<1>2. UNCHANGED <<turn, mounts, files>>
  BY Zenon DEF Create, secrets
<1>3. /\ cont' = [b \in Allocs |-> cont'[b]]
      /\ \A b \in Allocs \ {a} : cont'[b] = cont[b]
  BY Zenon DEF Create, Honest
<1>4. /\ world'[a].phase # "running"
      /\ \A s \in Secrets : world'[a] # Absent => world'[a].secrets[s] = None
  BY <1>1, CreatedForm DEF Absent, NoSecrets
<1>5. \A s \in Secrets : world'[a].phase = "created" => world'[a].secrets[s] # goal.version
  BY <1>4, GoalsListed DEF Absent, goal, Shape
<1>6. goal' = goal
  BY <1>2, Zenon DEF goal
<1>7. Noted' /\ Asked'
  BY <1>1, <1>2, <1>4 DEF Honest, Noted, Asked
<1>8. Ready'
  <2>1. \A b \in Allocs \ {a} : world'[b] = world[b] /\ cont'[b] = cont[b]
    BY <1>1, <1>3, Zenon
  <2>2. ASSUME NEW b \in Allocs, NEW u \in Secrets, world'[b].phase = "created",
               cont'[b] # None, world'[b].secrets[u] = goal.version
        PROVE  files[b][Base[u]] = <<u, goal.version>>
    <3>1. b # a
      BY <1>5, <2>2, Zenon
    <3> QED BY <2>1, <2>2, <3>1 DEF Honest, Ready
  <2>3. ASSUME NEW b \in Allocs, NEW u \in Secrets, "secret" \in Needs,
               world'[b].phase = "running"
        PROVE  files[b][Base[u]] = <<u, world'[b].secrets[u]>>
    <3>1. b # a
      BY <1>4, <2>3, Zenon
    <3>2. world'[b] = world[b]
      BY <2>1, <3>1, Zenon
    <3>3. files[b][Base[u]] = <<u, world[b].secrets[u]>>
      BY <2>3, <3>2, Zenon DEF Honest, Ready
    <3> QED BY <3>2, <3>3, Zenon
  <2> QED BY <1>2, <1>6, <2>2, <2>3, Zenon DEF Ready
<1> QED BY <1>3, <1>7, <1>8, Zenon DEF Honest

LEMMA MountHonest ==
    ASSUME Shape, Honest, NEW a \in Allocs, NEW s \in Secrets, Mount(a, s), Apiece
    PROVE  Honest'
<1>1. /\ Revised(a) /\ goal.version \in Versions
      /\ world[a].phase = "created" /\ world'[a].phase = "created"
      /\ world'[a].secrets \in {world[a].secrets,
                               [world[a].secrets EXCEPT ![s] = goal.version]}
  BY MountRevises, Zenon
<1>2. /\ UNCHANGED <<turn, cont>> /\ goal' = goal /\ goal.version # None
  BY <1>1, ContainersAssumption, Zenon DEF Mount, goal
<1>3. \A b \in Allocs \ {a} : world'[b] = world[b]
  BY <1>1, Zenon DEF Revised
<1>4. world[a] # Absent /\ Record(world[a])
  BY <1>1 DEF Shape, Known, Absent
<1>5. /\ \A u \in Secrets \ {s} : world'[a].secrets[u] = world[a].secrets[u]
      /\ world'[a].secrets[s] \in {world[a].secrets[s], goal.version}
  <2>1. world[a].secrets \in [Secrets -> Versions \cup {None}]
    BY <1>4, Zenon DEF Record, Mounted
  <2> QED BY <1>1, <2>1, Zenon
<1>6. /\ \A b \in Allocs \ {a} : files'[b] = files[b] /\ mounts'[b] = mounts[b]
      /\ \A u \in Secrets \ {s} : /\ files'[a][Base[u]] = files[a][Base[u]]
                                 /\ mounts'[a][u] = mounts[a][u]
      /\ files'[a][Base[s]] = <<s, goal.version>> /\ mounts'[a][s] = goal.version
  <2>0. /\ mounts \in [Allocs -> Mounted] /\ files \in [Allocs -> [Paths -> Material]]
        /\ Base \in [Secrets -> Paths]
    BY ContainersAssumption, Zenon DEF Shape
  <2>1. CASE mounts[a][s] = goal.version /\ UNCHANGED <<mounts, files>>
    BY <1>2, <2>1, Zenon DEF Honest, Noted
  <2>2. CASE /\ files' = [files EXCEPT ![a] = [files[a] EXCEPT ![Base[s]] = <<s, goal.version>>]]
             /\ mounts' = [mounts EXCEPT ![a] = [mounts[a] EXCEPT ![s] = goal.version]]
    <3> DEFINE one == <<s, goal.version>>
               f == [files[a] EXCEPT ![Base[s]] = one]
               m == [mounts[a] EXCEPT ![s] = goal.version]
    <3>1. /\ f[Base[s]] = one
          /\ \A u \in Secrets \ {s} : f[Base[u]] = files[a][Base[u]]
      <4> HIDE DEF one
      <4> QED BY <2>0, Zenon DEF Apiece
    <3>2. /\ m[s] = goal.version /\ \A u \in Secrets \ {s} : m[u] = mounts[a][u]
      BY <2>0, Zenon DEF Mounted
    <3>3. files' = [files EXCEPT ![a] = f] /\ mounts' = [mounts EXCEPT ![a] = m]
      BY <2>2, Zenon
    <3> HIDE DEF f, m
    <3>4. /\ \A b \in Allocs \ {a} : files'[b] = files[b] /\ mounts'[b] = mounts[b]
          /\ files'[a] = f /\ mounts'[a] = m
      BY <2>0, <3>3, Zenon
    <3> QED BY <3>1, <3>2, <3>4, Zenon
  <2> QED BY <2>1, <2>2, MountWrites, Zenon
<1>7. Noted'
  <2>1. ASSUME NEW b \in Allocs, NEW u \in Secrets, mounts'[b][u] # None
        PROVE  files'[b][Base[u]] = <<u, mounts'[b][u]>>
    <3>1. CASE b = a /\ u = s
      BY <1>6, <3>1, Zenon
    <3>2. CASE ~(b = a /\ u = s)
      <4>1. files'[b][Base[u]] = files[b][Base[u]] /\ mounts'[b][u] = mounts[b][u]
        BY <1>6, <3>2
      <4> QED BY <2>1, <4>1, Zenon DEF Honest, Noted
    <3> QED BY <3>1, <3>2, Zenon
  <2> QED BY <2>1, Zenon DEF Noted
<1>8. Asked'
  <2>1. turn \in 1 .. turn /\ goal.version = Goals[turn].version
    BY GoalsListed DEF Shape, goal
  <2> QED BY <1>2, <1>3, <1>4, <1>5, <2>1 DEF Honest, Asked
<1>9. Ready'
  <2>1. ASSUME NEW b \in Allocs, NEW u \in Secrets, world'[b].phase = "created",
               cont'[b] # None, world'[b].secrets[u] = goal'.version
        PROVE  files'[b][Base[u]] = <<u, goal'.version>>
    <3>1. CASE b = a /\ u = s
      BY <1>2, <1>6, <3>1, Zenon
    <3>2. CASE ~(b = a /\ u = s)
      <4>1. /\ files'[b][Base[u]] = files[b][Base[u]] /\ world[b].phase = "created"
            /\ world[b].secrets[u] = goal.version /\ cont[b] # None
        BY <1>1, <1>2, <1>3, <1>5, <1>6, <2>1, <3>2
      <4> QED BY <1>2, <4>1, Zenon DEF Honest, Ready
    <3> QED BY <3>1, <3>2, Zenon
  <2>2. ASSUME NEW b \in Allocs, NEW u \in Secrets, "secret" \in Needs,
               world'[b].phase = "running"
        PROVE  files'[b][Base[u]] = <<u, world'[b].secrets[u]>>
    <3>1. b # a
      BY <1>1, <2>2, Zenon
    <3>2. world'[b] = world[b] /\ files'[b] = files[b]
      BY <1>3, <1>6, <3>1, Zenon
    <3>3. files[b][Base[u]] = <<u, world[b].secrets[u]>>
      BY <2>2, <3>2, Zenon DEF Honest, Ready
    <3> QED BY <3>2, <3>3, Zenon
  <2> QED BY <2>1, <2>2, Zenon DEF Ready
<1> QED BY <1>2, <1>7, <1>8, <1>9, Zenon DEF Honest

LEMMA RunHonest ==
    ASSUME Shape, Honest, NEW a \in Allocs, Start(a) \/ Stop(a)
    PROVE  Honest'
<1>1. /\ Revised(a) /\ world'[a].secrets = world[a].secrets
      /\ Start(a) => world'[a].phase \in {"created", "running"}
      /\ Stop(a) => world'[a].phase \in {"running", "stopped"}
      /\ Start(a) => world[a].phase = "created"
      /\ Stop(a) => world[a].phase = "running"
  BY RunRevises, Zenon
<1>2. UNCHANGED <<turn, mounts, files>>
  BY Zenon DEF Start, Stop, secrets
<1>3. /\ cont' = [b \in Allocs |-> cont'[b]]
      /\ \A b \in Allocs \ {a} : cont'[b] = cont[b]
  BY Zenon DEF Start, Stop, Honest
<1>4. world[a] # Absent /\ \A b \in Allocs \ {a} : world'[b] = world[b]
  BY <1>1, Zenon DEF Revised
<1>5. goal' = goal
  BY <1>2, Zenon DEF goal
<1>6. Noted' /\ Asked'
  BY <1>1, <1>2, <1>4 DEF Honest, Noted, Asked
<1>7. Ready'
  <2>1. CASE Start(a)
    <3>1. /\ cont[a] # None
          /\ "secret" \in Needs => \A s \in Secrets : world[a].secrets[s] = goal.version
      BY <2>1, Zenon DEF Start, MayStart
    <3> QED BY <1>1, <1>2, <1>3, <1>4, <1>5, <2>1, <3>1 DEF Honest, Ready
  <2>2. CASE Stop(a)
    BY <1>1, <1>2, <1>3, <1>4, <1>5, <2>2 DEF Honest, Ready
  <2> QED BY <2>1, <2>2, Zenon
<1> QED BY <1>3, <1>6, <1>7, Zenon DEF Honest

LEMMA DeleteHonest ==
    ASSUME Shape, Honest, NEW a \in Allocs, Delete(a)
    PROVE  Honest'
<1>1. PICK o \in {"done", "plugin", "disk", "lost"} :
            /\ world[a] # Absent
            /\ world'[a] = IF o = "done" THEN Absent ELSE world[a]
            /\ \A b \in Allocs \ {a} : world'[b] = world[b]
            /\ DetachNetwork(a, o) /\ ReleaseSecrets(a, o)
  BY DeleteRevises, Zenon
<1>2. /\ \A b \in Allocs \ {a} : mounts'[b] = mounts[b] /\ files'[b] = files[b]
      /\ mounts'[a] \in {mounts[a], NoSecrets} /\ (mounts'[a] = NoSecrets \/ files'[a] = files[a])
  BY <1>1, DetachTypes, Zenon
<1>3. cont' = [cont EXCEPT ![a] = None] /\ turn' = turn /\ world[a].phase # "running"
  BY Zenon DEF Delete, RemoveContainer, MayDelete
<1>4. /\ cont' = [b \in Allocs |-> cont'[b]] /\ cont'[a] = None
      /\ \A b \in Allocs \ {a} : cont'[b] = cont[b]
  BY <1>3, Zenon DEF Honest
<1>5. goal' = goal /\ world'[a].phase # "running"
  BY <1>1, <1>3 DEF goal, Absent
<1>6. Noted'
  <2>1. ASSUME NEW b \in Allocs, NEW u \in Secrets, mounts'[b][u] # None
        PROVE  files'[b][Base[u]] = <<u, mounts'[b][u]>>
    <3>1. files'[b] = files[b] /\ mounts'[b] = mounts[b]
      BY <1>2, <2>1, Zenon DEF NoSecrets
    <3>2. files[b][Base[u]] = <<u, mounts[b][u]>>
      BY <2>1, <3>1, Zenon DEF Honest, Noted
    <3> QED BY <3>1, <3>2, Zenon
  <2> QED BY <2>1, Zenon DEF Noted
<1>7. Asked'
  BY <1>1, <1>3 DEF Honest, Asked
<1>8. Ready'
  <2>1. ASSUME NEW b \in Allocs, cont'[b] # None \/ world'[b].phase = "running"
        PROVE  world'[b] = world[b] /\ files'[b] = files[b] /\ cont'[b] = cont[b]
    <3>1. b # a
      BY <1>4, <1>5, <2>1, Zenon
    <3> QED BY <1>1, <1>2, <1>4, <3>1, Zenon
  <2>2. ASSUME NEW b \in Allocs, NEW u \in Secrets, world'[b].phase = "created",
               cont'[b] # None, world'[b].secrets[u] = goal.version
        PROVE  files'[b][Base[u]] = <<u, goal.version>>
    BY <2>1, <2>2, ZenonT(30) DEF Honest, Ready
  <2>3. ASSUME NEW b \in Allocs, NEW u \in Secrets, "secret" \in Needs,
               world'[b].phase = "running"
        PROVE  files'[b][Base[u]] = <<u, world'[b].secrets[u]>>
    <3>1. world'[b] = world[b] /\ files'[b] = files[b]
      BY <2>1, <2>3, Zenon
    <3>2. files[b][Base[u]] = <<u, world[b].secrets[u]>>
      BY <2>3, <3>1, Zenon DEF Honest, Ready
    <3> QED BY <3>1, <3>2, Zenon
  <2> QED BY <1>5, <2>2, <2>3, Zenon DEF Ready
<1> QED BY <1>4, <1>6, <1>7, <1>8, Zenon DEF Honest

LEMMA NextHonest ==
    ASSUME Shape, Honest, Next, Apiece, Onward
    PROVE  Honest'
<1>1. CASE Submit
  BY <1>1, SubmitHonest, Zenon
<1>2. CASE (\E i \in Images : Pull(i)) \/ (\E dry \in Collecting : Collect(dry))
  BY <1>2, ImagesApart, HonestApart, Zenon DEF Apart
<1>3. ASSUME NEW a \in Allocs, AttachVolume(a) \/ DetachVolume(a) \/ AttachNetwork(a)
      PROVE  Honest'
  <2>1. /\ Revised(a) /\ world'[a].phase = world[a].phase
        /\ world'[a].secrets = world[a].secrets
    BY <1>3, VolumeRevises, NetworkRevises, Zenon
  <2>2. UNCHANGED <<turn, mounts, files, cont>>
    BY <1>3, Zenon DEF AttachVolume, DetachVolume, AttachNetwork, secrets
  <2> QED BY <2>1, <2>2, HonestRevised, Zenon
<1>4. ASSUME NEW a \in Allocs, Exit(a) PROVE Honest'
  <2>1. UNCHANGED <<turn, world, mounts, files>>
    BY <1>4, Zenon DEF Exit, secrets
  <2>2. /\ cont' = [b \in Allocs |-> cont'[b]]
        /\ \A b \in Allocs : cont'[b] # None => cont[b] # None
    BY <1>4, Zenon DEF Exit, Honest
  <2>3. Noted' /\ Asked'
    BY <2>1, Zenon DEF Honest, Noted, Asked
  <2>4. Ready'
    BY <2>1, <2>2, Zenon DEF Honest, Ready, goal
  <2> QED BY <2>2, <2>3, <2>4, Zenon DEF Honest
<1>5. CASE Restart
  <2>1. UNCHANGED <<turn, world, cont, files>> /\ mounts' = [a \in Allocs |-> NoSecrets]
    BY <1>5, Zenon DEF Restart
  <2>2. Noted'
    BY <2>1, Zenon DEF Noted, NoSecrets
  <2> QED BY <2>1, <2>2, Zenon DEF Honest, Asked, Ready, goal
<1> QED BY <1>1, <1>2, <1>3, <1>4, <1>5, CreateHonest, MountHonest, RunHonest, DeleteHonest, Zenon
        DEF Next, Operate

\* While the world says an allocation runs, each secret it was promised is in
\* the file written for it, whatever answers are lost and however often the
\* daemon restarts (Secrets.write, validateStartAllocation).  Secrets have files
\* of their own, and no goal goes back to a version an earlier one replaced.
THEOREM SecretsArePromised ==
    ASSUME Apiece, Onward
    PROVE  Spec => []SecretsPromised
<1>1. Init => Shape /\ Honest
  <2>1. Init => Honest
    BY DEF Init, Honest, Noted, Asked, Ready, NoSecrets, Absent
  <2> QED BY <2>1, InitShape, Zenon
<1>2. Shape /\ Honest /\ [Next]_vars => (Shape /\ Honest)'
  <2>1. ASSUME Honest, UNCHANGED vars PROVE Honest'
    BY <2>1, HonestApart, Zenon DEF vars
  <2> QED BY <2>1, ShapeStep, NextHonest, Zenon
<1>3. Honest => SecretsPromised
  BY Zenon DEF Honest, Ready, SecretsPromised, Phase
<1> QED BY <1>1, <1>2, <1>3, PTL DEF Spec
=============================================================================
