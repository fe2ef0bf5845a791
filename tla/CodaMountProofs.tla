-------------------------- MODULE CodaMountProofs --------------------------
(***************************************************************************)
(* Theorems about CodaMount: that coda_instances counts the mounts, with   *)
(* any number of devices and mounts and every misfortune but "sleep"; and, *)
(* for one device and no misfortune but failing allocations, that mounting *)
(* and the close of the device never meet a mount that is gone.            *)
(***************************************************************************)
EXTENDS CodaMount, FiniteSetTheorems, TLAPS

-----------------------------------------------------------------------------
(* Type correctness and the count of the mounts.                           *)

Records == [vfsp : Mounts \cup {None}, rootvp : Mounts \cup {None}, started : BOOLEAN]
Nodes == [fid : {"none", "zero", "real"}, dying : BOOLEAN]

\* A mount has a device, and coda_instances counts it.  While the extension is not
\* loaded there is no mount, not even one that is being made.
CountInv ==
  /\ \A m \in Mounts : mnt[m].st # "no" => mnt[m].dev \in Devs
  /\ loaded => instances = Cardinality(Mounted)
  /\ ~loaded => \A m \in Mounts : mnt[m].st = "no"

CallInv == \A m \in Mounts : call[m].op # "no" => call[m].dev \in Devs

MntRecords == [st : {"no", "root", "control", "mounted"}, dev : Devs \cup {None},
               root : Mounts \cup {None}]
Calls == [op : {"no", "root", "fhtovp"},
          st : {"no", "asked", "answered", "refused", "thrown"}, dev : Devs \cup {None}]

\* Assignments to two members of a record.
LEMMA SetsRecord ==
  ASSUME NEW f \in [Devs -> Records], NEW d \in Devs, NEW v \in Mounts \cup {None},
         NEW r \in Mounts \cup {None}, NEW g, g = [f EXCEPT ![d].vfsp = v, ![d].rootvp = r]
  PROVE  /\ g \in [Devs -> Records] /\ g[d].vfsp = v /\ g[d].rootvp = r
         /\ \A e \in Devs \ {d} : g[e] = f[e]
  BY DEF Records

LEMMA MountedFinite ==
  ASSUME NEW S \in SUBSET Mounts
  PROVE  IsFiniteSet(S) /\ Cardinality(S) \in 0..Cardinality(Mounts)
<1>1. IsFiniteSet(Mounts)
  BY MountAssumption
<1>2. IsFiniteSet(S) /\ Cardinality(S) <= Cardinality(Mounts)
  BY <1>1, FS_Subset
<1> QED
  BY <1>1, <1>2, FS_CardinalityType

\* Who keeps the mounts as they are keeps the count.
LEMMA SameMounted ==
  ASSUME CountInv, UNCHANGED <<mnt, loaded, instances>>
  PROVE  CountInv'
  BY DEF CountInv, Mounted

LEMMA InitCount == Init => TypeOK /\ CountInv
<1> SUFFICES ASSUME Init PROVE TypeOK /\ CountInv
  OBVIOUS
<1>1. 0 \in 0..Cardinality(Mounts)
  BY MountedFinite
<1>2. mi \in [Devs -> Records] /\ NoMount \in [st : {"no", "root", "control", "mounted"},
                         dev : Devs \cup {None}, root : Mounts \cup {None}]
  BY DEF Init, Fresh, NoRecord, NoMount, Records
<1>3. NoNode \in Nodes /\ NoCall \in [op : {"no", "root", "fhtovp"},
           st : {"no", "asked", "answered", "refused", "thrown"}, dev : Devs \cup {None}]
  BY DEF NoNode, NoCall, Nodes
<1>4. CountInv
  BY DEF Init, CountInv, NoMount
<1> QED
  BY <1>1, <1>2, <1>3, <1>4 DEF Init, Fresh, TypeOK, Records, Nodes

LEMMA LoadingCount ==
  ASSUME TypeOK, CountInv, Half = {}, Loading
  PROVE  TypeOK' /\ CountInv'
<1>1. CASE darwin_coda_start
  <2>1. Mounted' = {}
    BY <1>1 DEF darwin_coda_start, CountInv, Mounted
  <2>2. instances' = Cardinality(Mounted') /\ instances' \in 0..Cardinality(Mounts)
    BY <1>1, <2>1, FS_EmptySet, MountedFinite DEF darwin_coda_start
  <2>3. mi' \in [Devs -> Records] /\ node' \in [Mounts -> Nodes]
    BY <1>1 DEF darwin_coda_start, NoRecord, NoNode, Records, Nodes
  <2>4. CountInv'
    BY <1>1, <2>2 DEF darwin_coda_start, CountInv
  <2> QED
    BY <1>1, <2>2, <2>3, <2>4
    DEF darwin_coda_start, TypeOK, Records, Nodes, Registered
<1>2. CASE StartRefused
  BY <1>2, SameMounted DEF StartRefused, TypeOK, Registered
<1>3. CASE StartNoDevice
  BY <1>3, SameMounted DEF StartNoDevice, TypeOK, Registered
<1>4. CASE darwin_coda_stop
  <2>1. Mounted = {}
    BY <1>4, FS_EmptySet, MountedFinite DEF darwin_coda_stop, CountInv, Mounted
  <2>2. \A m \in Mounts : mnt[m].st = "no"
    BY <2>1 DEF TypeOK, Mounted, Half
  <2>3. CountInv'
    BY <1>4, <2>2 DEF darwin_coda_stop, CountInv
  <2> QED
    BY <1>4, <2>3 DEF darwin_coda_stop, TypeOK
<1>5. CASE StopRefused
  BY <1>5, SameMounted DEF StopRefused, vars, TypeOK, Registered
<1> QED
  BY <1>1, <1>2, <1>3, <1>4, <1>5 DEF Loading

LEMMA MountingCount ==
  ASSUME TypeOK, CountInv, NEW m \in Mounts, Mounting(m)
  PROVE  TypeOK' /\ CountInv'
<1>0. mnt[m].st \in {"root", "control"} /\ loaded /\ mnt[m].dev \in Devs
  BY DEF Mounting, MakeRoot, MountDone, MountFails, CountInv
<1>t. mnt \in [Mounts -> MntRecords] /\ mi \in [Devs -> Records] /\ node \in [Mounts -> Nodes]
  BY DEF TypeOK, MntRecords, Records, Nodes
<1>1. CASE MakeRoot(m)
  <2>1. PICK k \in Mounts : mnt' = [mnt EXCEPT ![m].st = "control", ![m].root = k]
    BY <1>1 DEF MakeRoot, Zero
  <2>2. /\ mnt' \in [Mounts -> MntRecords] /\ mnt'[m].st = "control" /\ mnt'[m].dev = mnt[m].dev
        /\ \A j \in Mounts \ {m} : mnt'[j] = mnt[j]
    <3>1. PICK f \in [Mounts -> MntRecords], g \in {mnt'} : f = mnt
      BY <1>t
    <3>2. g = [f EXCEPT ![m].st = "control", ![m].root = k]
      BY <2>1, <3>1
    <3>3. /\ g \in [Mounts -> MntRecords]
          /\ g[m].st = "control" /\ g[m].root = k /\ g[m].dev = f[m].dev
          /\ \A j \in Mounts \ {m} : g[j] = f[j]
      BY <3>2 DEF MntRecords
    <3> QED
      BY <3>1, <3>3
  <2>3. Mounted' = Mounted
    BY <1>0, <2>2 DEF Mounted
  <2>4. CountInv'
    BY <1>0, <1>1, <2>2, <2>3 DEF MakeRoot, CountInv
  <2>5. node' \in [Mounts -> Nodes]
    <3>1. [fid |-> "zero", dying |-> FALSE] \in Nodes
      BY DEF Nodes
    <3> QED
      BY <1>1, <1>t, <3>1 DEF MakeRoot
  <2> QED
    BY <1>1, <2>2, <2>4, <2>5 DEF MakeRoot, TypeOK, Nodes, MntRecords
<1>2. CASE MountDone(m)
  <2>1. mnt' = [mnt EXCEPT ![m].st = "mounted"]
    BY <1>2 DEF MountDone
  <2>a. mnt' \in [Mounts -> MntRecords]
    BY <1>t, <2>1 DEF MntRecords
  <2>2. Mounted' = Mounted \cup {m} /\ m \notin Mounted
    BY <1>2, <2>1 DEF MountDone, Mounted, TypeOK
  <2>3. Cardinality(Mounted') = Cardinality(Mounted) + 1
    BY <2>2, FS_AddElement, MountedFinite DEF Mounted
  <2>4. Cardinality(Mounted') \in 0..Cardinality(Mounts)
    <3>1. Mounted' \in SUBSET Mounts
      BY DEF Mounted
    <3> QED
      BY <3>1, MountedFinite
  <2>5. instances' = Cardinality(Mounted')
    BY <1>0, <1>2, <2>3 DEF MountDone, CountInv
  <2>6. CountInv'
    BY <1>0, <1>2, <2>1, <2>5 DEF MountDone, CountInv, TypeOK
  <2>7. mi' \in [Devs -> Records]
    <3>1. mnt[m].root \in Mounts \cup {None}
      BY <1>t DEF MntRecords
    <3> QED
      <4>1. PICK d \in Devs, r \in Mounts \cup {None}, f \in [Devs -> Records], g \in {mi'} :
              d = mnt[m].dev /\ r = mnt[m].root /\ f = mi
        BY <1>0, <1>t, <3>1
      <4>2. g = [f EXCEPT ![d].vfsp = m, ![d].rootvp = r]
        BY <1>2, <4>1 DEF MountDone
      <4> QED
        BY <4>1, <4>2, SetsRecord
  <2> QED
    BY <1>2, <2>a, <2>4, <2>5, <2>6, <2>7 DEF MountDone, TypeOK, Records, MntRecords
<1>3. CASE MountFails(m)
  <2>1. Mounted' = Mounted
    BY <1>3 DEF MountFails, Mounted, NoMount, TypeOK
  <2>2. CountInv'
    BY <1>0, <1>3, <2>1 DEF MountFails, CountInv, NoMount, TypeOK
  <2> QED
    BY <1>3, <2>2 DEF MountFails, TypeOK, NoMount
<1> QED
  BY <1>1, <1>2, <1>3 DEF Mounting

LEMMA DounmountCount ==
  ASSUME TypeOK, CountInv, NEW v, NEW K \in [Mounts -> Nodes], dounmount(v, K),
         loaded' = loaded
  PROVE  /\ CountInv' /\ instances' \in 0..Cardinality(Mounts)
         /\ mi' \in [Devs -> Records] /\ node' \in [Mounts -> Nodes]
         /\ mnt' \in [Mounts -> [st : {"no", "root", "control", "mounted"},
                                 dev : Devs \cup {None}, root : Mounts \cup {None}]]
         /\ got' \in [Mounts -> Mounts \cup {None}] /\ panic' \in BOOLEAN
<1>1. CASE v \in Mounted /\ Victim(v, K) /\ Undo(v, K)
  <2>1. mnt' = [mnt EXCEPT ![v] = NoMount] /\ v \in Mounts
    BY <1>1 DEF Undo, Mounted
  <2>2. Mounted' = Mounted \ {v}
    BY <2>1 DEF Mounted, NoMount, TypeOK
  <2>3. Cardinality(Mounted') = Cardinality(Mounted) - 1
    BY <1>1, <2>2, FS_RemoveElement, MountedFinite DEF Mounted
  <2>4. Cardinality(Mounted') \in 0..Cardinality(Mounts)
    <3>1. Mounted' \in SUBSET Mounts
      BY DEF Mounted
    <3> QED
      BY <3>1, MountedFinite
  <2>5. loaded
    BY <1>1 DEF CountInv, Mounted
  <2>6. instances' = Cardinality(Mounted')
    BY <1>1, <2>3, <2>5 DEF Undo, CountInv
  <2>7. CountInv'
    BY <2>1, <2>5, <2>6 DEF CountInv, NoMount, TypeOK
  <2>8. mi' \in [Devs -> Records]
    <3>1. mnt[v].dev \in Devs
      BY <1>1, <2>1 DEF CountInv, Mounted
    <3>2. mi \in [Devs -> Records]
      BY DEF TypeOK, Records
    <3> QED
      <4>1. PICK d \in Devs, n \in Mounts \cup {None}, f \in [Devs -> Records], g \in {mi'} :
              d = mnt[v].dev /\ n = None /\ f = mi
        BY <3>1, <3>2
      <4>2. g = [f EXCEPT ![d].vfsp = n, ![d].rootvp = n]
        BY <1>1, <4>1 DEF Undo
      <4>3. g \in [Devs -> Records]
        BY <4>2 DEF Records
      <4> QED
        BY <4>1, <4>3
  <2>9. node' \in [Mounts -> Nodes]
    BY <1>1 DEF Undo, Nodes, NoNode
  <2> QED
    BY <1>1, <2>1, <2>4, <2>6, <2>7, <2>8, <2>9 DEF Undo, TypeOK, NoMount
<1>2. CASE UNCHANGED <<mi, mnt, got, instances>> /\ node' = K /\ panic' \in BOOLEAN
  BY <1>2, SameMounted DEF TypeOK, Records
<1> QED
  BY <1>1, <1>2 DEF dounmount, TypeOK

LEMMA OfMountCount ==
  ASSUME TypeOK, CountInv, CallInv, NEW m \in Mounts, OfMount(m)
  PROVE  TypeOK' /\ CountInv'
<1>t. mi \in [Devs -> Records] /\ call \in [Mounts -> Calls] /\ node \in [Mounts -> Nodes]
  BY DEF TypeOK, Records, Calls, Nodes
<1>1. CASE coda_start(m)
  <2>1. mnt[m].dev \in Devs
    BY <1>1 DEF coda_start, CountInv
  <2>2. mi' \in [Devs -> Records]
    BY <1>1, <1>t, <2>1 DEF coda_start, Records
  <2> QED
    BY <1>1, <2>2, SameMounted DEF coda_start, TypeOK, Records
<1>2. CASE coda_root(m)
  <2>1. mnt[m].dev \in Devs
    BY <1>2 DEF coda_root, CountInv
  <2>2. Record(m).rootvp \in Mounts \cup {None}
    BY <2>1 DEF Record, TypeOK
  <2>3. got' \in [Mounts -> Mounts \cup {None}] /\ panic' \in BOOLEAN
    BY <1>2, <2>2 DEF coda_root, Returns, TypeOK
  <2>4. call' \in [Mounts -> [op : {"no", "root", "fhtovp"},
          st : {"no", "asked", "answered", "refused", "thrown"}, dev : Devs \cup {None}]]
    BY <1>2, <2>1 DEF coda_root, Asks, TypeOK
  <2> QED
    BY <1>2, <2>3, <2>4, SameMounted DEF coda_root, TypeOK
<1>3. CASE RootAnswered(m) \/ RootThrown(m)
  <2>1. call' = [call EXCEPT ![m] = NoCall] /\ call[m].op = "root"
    BY <1>3 DEF RootAnswered, RootThrown, Is
  <2>2. call' \in [Mounts -> Calls]
    BY <1>t, <2>1 DEF NoCall, Calls
  <2>3. Rootvp(m) \in Mounts \cup {None}
    BY <1>t, <2>1 DEF Rootvp, Records, CallInv
  <2>4. got' \in [Mounts -> Mounts \cup {None}] /\ panic' \in BOOLEAN
    <3>1. PICK r \in Mounts \cup {None} : Returns(m, r)
      BY <1>3, <2>3 DEF RootAnswered, RootThrown
    <3>2. got \in [Mounts -> Mounts \cup {None}] /\ panic \in BOOLEAN
      BY DEF TypeOK
    <3> QED
      BY <3>1, <3>2 DEF Returns
  <2>5. node' \in [Mounts -> Nodes]
    <3>1. CASE node' = node
      BY <1>t, <3>1
    <3>2. CASE node' = [node EXCEPT ![Rootvp(m)].fid = "real"]
      BY <1>t, <3>2 DEF Nodes
    <3> QED
      BY <1>3, <3>1, <3>2 DEF RootAnswered, RootThrown
  <2> QED
    BY <1>3, <2>2, <2>4, <2>5, SameMounted DEF RootAnswered, RootThrown, TypeOK, Nodes, Calls
<1>7. CASE FhtovpAnswered(m) \/ CallFails(m)
  <2>1. call' = [call EXCEPT ![m] = NoCall]
    BY <1>7 DEF FhtovpAnswered, CallFails
  <2>2. call' \in [Mounts -> Calls]
    BY <1>t, <2>1 DEF NoCall, Calls
  <2> QED
    BY <1>7, <2>2, SameMounted DEF FhtovpAnswered, CallFails, TypeOK, Calls
<1>4. CASE coda_fhtovp(m)
  BY <1>4, SameMounted DEF coda_fhtovp, Asks, TypeOK
<1>5. CASE VenusAnswers(m) \/ Interrupted(m)
  <2>1. PICK st \in {"answered", "refused", "thrown"} : call' = [call EXCEPT ![m].st = st]
    BY <1>5 DEF VenusAnswers, Interrupted
  <2>2. call' \in [Mounts -> Calls]
    BY <1>t, <2>1 DEF Calls
  <2> QED
    BY <1>5, <2>2, SameMounted DEF VenusAnswers, Interrupted, TypeOK, Calls
<1>6. CASE Umount(m)
  BY <1>6, DounmountCount DEF Umount, TypeOK, Records, Nodes
<1> QED
  BY <1>1, <1>2, <1>3, <1>4, <1>5, <1>6, <1>7 DEF OfMount

LEMMA OfDeviceCount ==
  ASSUME TypeOK, CountInv, NEW d \in Devs, OfDevice(d)
  PROVE  TypeOK' /\ CountInv'
<1>t. /\ mi \in [Devs -> Records] /\ call \in [Mounts -> Calls] /\ node \in [Mounts -> Nodes]
      /\ mnt \in [Mounts -> MntRecords]
  BY DEF TypeOK, Records, Calls, Nodes, MntRecords
<1>1. ASSUME NEW m \in Mounts, coda_mount(m, d) PROVE TypeOK' /\ CountInv'
  <2>1. mi' \in [Devs -> Records]
    BY <1>1, <1>t DEF coda_mount, Records
  <2>2. mnt' = [mnt EXCEPT ![m] = [st |-> "root", dev |-> d, root |-> None]]
    BY <1>1 DEF coda_mount
  <2>3. mnt' \in [Mounts -> MntRecords]
    BY <1>t, <2>2 DEF MntRecords
  <2>4. Mounted' = Mounted
    BY <1>1, <1>t, <2>2 DEF coda_mount, Mounted
  <2>5. CountInv'
    BY <1>1, <1>t, <2>2, <2>4 DEF coda_mount, CountInv
  <2> QED
    BY <1>1, <2>1, <2>3, <2>5 DEF coda_mount, TypeOK, Records, MntRecords
<1>2. CASE vc_nb_open(d)
  <2>1. mi' \in [Devs -> Records]
    BY <1>2, <1>t DEF vc_nb_open, Records
  <2> QED
    BY <1>2, <2>1, SameMounted DEF vc_nb_open, TypeOK, Records
<1>3. CASE CloseBare(d)
  BY <1>3, SameMounted DEF CloseBare, TypeOK
<1>4. Marked(d) \in [Mounts -> Nodes]
  BY <1>t DEF Marked, Nodes
<1>5. CASE CloseSleeps(d)
  <2>1. call' \in [Mounts -> Calls]
    BY <1>5, <1>t DEF CloseSleeps, Thrown, Calls
  <2> QED
    BY <1>4, <1>5, <2>1, SameMounted DEF CloseSleeps, TypeOK, Nodes, Calls
<1>6. CASE vc_nb_close(d)
  <2>1. loaded' = loaded
    BY <1>6 DEF vc_nb_close
  <2> QED
    BY <1>4, <1>6, <2>1, DounmountCount DEF vc_nb_close, TypeOK, Records, Nodes
<1>7. CASE CloseUnmounts(d)
  BY <1>t, <1>7, DounmountCount DEF CloseUnmounts, TypeOK, Records, Nodes
<1> QED
  BY <1>1, <1>2, <1>3, <1>5, <1>6, <1>7 DEF OfDevice

\* Calls are made to the device of a mount.
LEMMA NextCalls == TypeOK /\ CountInv /\ CallInv /\ [Next]_vars => CallInv'
<1> SUFFICES ASSUME TypeOK, CountInv, CallInv, [Next]_vars PROVE CallInv'
  OBVIOUS
<1>t. call \in [Mounts -> Calls]
  BY DEF TypeOK, Calls
<1>0. CASE UNCHANGED call
  BY <1>0 DEF CallInv
<1>1. ASSUME NEW m \in Mounts, coda_root(m) \/ coda_fhtovp(m) PROVE CallInv'
  BY <1>1, <1>t DEF coda_root, coda_fhtovp, Asks, CallInv, CountInv
<1>2. ASSUME NEW m \in Mounts, RootAnswered(m) \/ RootThrown(m) \/ FhtovpAnswered(m) \/ CallFails(m)
      PROVE  CallInv'
  BY <1>2, <1>t DEF RootAnswered, RootThrown, FhtovpAnswered, CallFails, CallInv, NoCall
<1>3. ASSUME NEW m \in Mounts, VenusAnswers(m) \/ Interrupted(m) PROVE CallInv'
  BY <1>3, <1>t DEF VenusAnswers, Interrupted, CallInv, Calls
<1>4. ASSUME NEW d \in Devs, CloseSleeps(d) PROVE CallInv'
  BY <1>4, <1>t DEF CloseSleeps, Thrown, CallInv, Calls
<1>5. ASSUME NEW m \in Mounts, OfMount(m) PROVE CallInv'
  BY <1>0, <1>1, <1>2, <1>3, <1>5 DEF OfMount, coda_start, Umount
<1>6. ASSUME NEW d \in Devs, OfDevice(d) PROVE CallInv'
  BY <1>0, <1>4, <1>6
  DEF OfDevice, coda_mount, vc_nb_open, CloseBare, vc_nb_close, CloseUnmounts
<1>7. CASE UNCHANGED vars \/ Loading \/ \E m \in Mounts : Mounting(m)
  BY <1>0, <1>7 DEF vars, Loading, darwin_coda_start, StartRefused, StartNoDevice,
    darwin_coda_stop, StopRefused, Mounting, MakeRoot, MountDone, MountFails
<1> QED
  BY <1>5, <1>6, <1>7 DEF Next

CountedOK == TypeOK /\ CountInv /\ CallInv

LEMMA InitCounted == Init => CountedOK
  BY InitCount DEF CountedOK, Init, CallInv, NoCall

LEMMA NextCounted ==
  ASSUME "sleep" \notin Env
  PROVE  CountedOK /\ [Next]_vars => CountedOK'
<1> SUFFICES ASSUME CountedOK, [Next]_vars PROVE TypeOK' /\ CountInv'
  BY NextCalls DEF CountedOK
<1> USE DEF CountedOK
<1>1. ASSUME NEW m \in Mounts, Mounting(m) PROVE TypeOK' /\ CountInv'
  BY <1>1, MountingCount
<1>2. CASE Half = {} /\ Loading
  BY <1>2, LoadingCount
<1>3. ASSUME NEW m \in Mounts, OfMount(m) PROVE TypeOK' /\ CountInv'
  BY <1>3, OfMountCount
<1>4. ASSUME NEW d \in Devs, OfDevice(d) PROVE TypeOK' /\ CountInv'
  BY <1>4, OfDeviceCount
<1>5. CASE UNCHANGED vars
  BY <1>5, SameMounted DEF vars, TypeOK
<1> QED
  BY <1>1, <1>2, <1>3, <1>4, <1>5 DEF Next

\* Every variable of mounting keeps its type.
THEOREM MountTypeOK ==
  ASSUME "sleep" \notin Env
  PROVE  Spec => []TypeOK
<1>1. CountedOK => TypeOK
  BY DEF CountedOK
<1> QED
  BY <1>1, InitCounted, NextCounted, PTL DEF Spec

\* coda_instances, which darwin_coda_stop goes by, is the number of mounts, for any
\* number of devices and mounts, with failed mounts, devices mounted twice, opened
\* again, and unmounts while a close sleeps.
THEOREM MountInstancesRight ==
  ASSUME "sleep" \notin Env
  PROVE  Spec => []InstancesRight
<1>1. CountedOK => InstancesRight
  BY DEF CountedOK, CountInv, InstancesRight
<1> QED
  BY <1>1, InitCounted, NextCounted, PTL DEF Spec

-----------------------------------------------------------------------------
(* One device, and nothing but failing allocations.                        *)

\* There is one mount, or one in the making; its record names it and its root, which
\* is marked exactly while the close of the device sleeps.  Who is in an upcall is so
\* for that mount, and after the close has begun only thrown out.
OneInv(d) ==
  /\ \A m, k \in Mounts : mnt[m].st # "no" /\ mnt[k].st # "no" => m = k
  /\ \A m \in Mounts : mnt[m].st = "mounted" =>
       /\ mi[d].vfsp = m /\ mi[d].rootvp = mnt[m].root /\ mnt[m].root \in Mounts
       /\ node[mnt[m].root].dying <=> d \in closer
       /\ d \in open <=> d \notin closer
  /\ \A m \in Mounts : mnt[m].st \in {"root", "control"} => d \in open
  /\ \A m \in Mounts : mnt[m].st = "control" =>
       mnt[m].root \in Mounts /\ ~node[mnt[m].root].dying
  /\ mi[d].rootvp # None => mi[d].vfsp \in Mounts /\ mnt[mi[d].vfsp].st = "mounted"
  /\ d \in closer => /\ mi[d].rootvp # None
                     /\ \A m \in Mounts : call[m].st \in {"no", "thrown"}
  /\ \A m \in Mounts : call[m] = NoCall \/ /\ mnt[m].st = "mounted" /\ call[m].dev = d
                                           /\ call[m].st # "no"
  /\ ~panic

OneOK(d) == CountedOK /\ OneInv(d)

\* The assumptions of what follows.
Alone(d) == Devs = {d} /\ Env \subseteq {"nomem", "load"}

LEMMA InitOne ==
  ASSUME NEW d, Alone(d)
  PROVE  Init => OneInv(d)
  BY DEF Alone, Init, Fresh, OneInv, NoRecord, NoMount

\* Who keeps the mounts, their record, the nodes and the device.
LEMMA SameOne ==
  ASSUME NEW d, OneInv(d), UNCHANGED <<mnt, mi, node, open, closer, call, panic>>
  PROVE  OneInv(d)'
  BY DEF OneInv

LEMMA LoadingOne ==
  ASSUME NEW d, Alone(d), OneOK(d), Half = {}, Loading
  PROVE  OneInv(d)'
<1>t. mnt \in [Mounts -> MntRecords] /\ call \in [Mounts -> Calls]
  BY DEF OneOK, CountedOK, TypeOK, MntRecords, Calls
<1>1. CASE darwin_coda_start
  <2>1. \A m \in Mounts : mnt[m].st = "no" /\ call[m] = NoCall
    BY <1>1 DEF darwin_coda_start, OneOK, CountedOK, CountInv, OneInv
  <2>2. mi'[d].rootvp = None /\ closer' = {}
    BY <1>1 DEF darwin_coda_start, NoRecord, Alone
  <2>3. UNCHANGED <<mnt, call, panic>>
    BY <1>1 DEF darwin_coda_start
  <2> QED
    BY <2>1, <2>2, <2>3 DEF OneOK, OneInv
<1>2. CASE StartRefused \/ StartNoDevice \/ darwin_coda_stop \/ StopRefused
  BY <1>2, SameOne DEF StartRefused, StartNoDevice, darwin_coda_stop, StopRefused, vars, OneOK
<1> QED
  BY <1>1, <1>2 DEF Loading

LEMMA MountingOne ==
  ASSUME NEW d, Alone(d), OneOK(d), NEW m \in Mounts, Mounting(m)
  PROVE  OneInv(d)'
<1>t. /\ mnt \in [Mounts -> MntRecords] /\ mi \in [Devs -> Records]
      /\ node \in [Mounts -> Nodes] /\ call \in [Mounts -> Calls]
      /\ None \notin Mounts /\ d \in Devs
  BY MountAssumption DEF OneOK, CountedOK, TypeOK, MntRecords, Records, Nodes, Calls, Alone
<1>o. OneInv(d)
  BY DEF OneOK
<1>0. /\ mnt[m].st \in {"root", "control"} /\ mnt[m].dev = d
      /\ \A k \in Mounts \ {m} : mnt[k].st = "no"
      /\ d \in open /\ mi[d].rootvp = None /\ d \notin closer
      /\ \A k \in Mounts : call[k] = NoCall
  <2>1. mnt[m].st \in {"root", "control"}
    BY DEF Mounting, MakeRoot, MountDone, MountFails
  <2>2. mnt[m].dev = d
    BY <2>1 DEF OneOK, CountedOK, CountInv, Alone
  <2>3. \A k \in Mounts \ {m} : mnt[k].st = "no"
    BY <1>o, <2>1 DEF OneInv
  <2>4. \A k \in Mounts : mnt[k].st # "mounted"
    BY <2>1, <2>3
  <2> QED
    BY <1>o, <2>1, <2>2, <2>3, <2>4 DEF OneInv
<1>1. CASE MakeRoot(m)
  <2>1. PICK k \in Mounts : mnt' = [mnt EXCEPT ![m].st = "control", ![m].root = k] /\ ~node'[k].dying
    BY <1>1, <1>t DEF MakeRoot, Zero
  <2>2. /\ mnt'[m].st = "control" /\ mnt'[m].root = k
        /\ \A j \in Mounts \ {m} : mnt'[j] = mnt[j]
    BY <1>t, <2>1 DEF MntRecords
  <2>3. UNCHANGED <<mi, open, closer, call, panic>>
    BY <1>1 DEF MakeRoot
  <2>4. \A j \in Mounts : mnt'[j].st # "no" => j = m
    BY <1>0, <2>2
  <2>5. \A j \in Mounts : mnt'[j].st # "mounted"
    BY <2>2, <2>4
  <2>6. \A j \in Mounts : mnt'[j].st = "control" =>
          mnt'[j].root \in Mounts /\ ~node'[mnt'[j].root].dying
    BY <2>1, <2>2, <2>4
  <2>7. ~panic' /\ mi'[d].rootvp = None /\ d \in open' /\ d \notin closer'
    BY <1>o, <1>0, <2>3 DEF OneInv
  <2>8. \A j \in Mounts : call'[j] = NoCall
    BY <1>0, <2>3
  <2> QED
    BY <2>4, <2>5, <2>6, <2>7, <2>8 DEF OneInv
<1>2. CASE MountDone(m)
  <2>1. mnt' = [mnt EXCEPT ![m].st = "mounted"] /\ UNCHANGED <<node, open, closer, call, panic>>
    BY <1>2 DEF MountDone
  <2>2. /\ mnt'[m].st = "mounted" /\ mnt'[m].root = mnt[m].root
        /\ \A j \in Mounts \ {m} : mnt'[j] = mnt[j]
    BY <1>t, <2>1 DEF MntRecords
  <2>3. mi' = [mi EXCEPT ![d].vfsp = m, ![d].rootvp = mnt[m].root]
    BY <1>0, <1>2 DEF MountDone
  <2>4. mi'[d].vfsp = m /\ mi'[d].rootvp = mnt[m].root
    BY <1>t, <2>3 DEF Records
  <2>5. mnt[m].root \in Mounts /\ ~node[mnt[m].root].dying
    BY <1>o, <1>2 DEF MountDone, OneInv
  <2> QED
    BY <1>o, <1>t, <1>0, <2>1, <2>2, <2>4, <2>5 DEF OneInv
<1>3. CASE MountFails(m)
  <2>1. mnt' = [mnt EXCEPT ![m] = NoMount] /\ UNCHANGED <<mi, node, open, closer, call, panic>>
    BY <1>3 DEF MountFails
  <2>2. \A k \in Mounts : mnt'[k].st = "no"
    BY <1>t, <1>0, <2>1 DEF NoMount
  <2> QED
    BY <1>o, <1>0, <2>1, <2>2 DEF OneInv
<1> QED
  BY <1>1, <1>2, <1>3 DEF Mounting

\* The mount of the device is found, was marked, and is undone.
LEMMA UndoneOne ==
  ASSUME NEW d, Alone(d), OneOK(d), mi[d].rootvp # None,
         NEW K, K \in [Mounts -> Nodes], K[mi[d].rootvp].dying,
         dounmount(mi[d].vfsp, K),
         \A m \in Mounts : call[m] = NoCall, closer' = {}, UNCHANGED call
  PROVE  OneInv(d)'
<1>t. /\ mnt \in [Mounts -> MntRecords] /\ mi \in [Devs -> Records]
      /\ None \notin Mounts /\ d \in Devs
  BY MountAssumption DEF OneOK, CountedOK, TypeOK, MntRecords, Records, Alone
<1>1. PICK v \in Mounts : v = mi[d].vfsp /\ mnt[v].st = "mounted"
  BY DEF OneOK, OneInv
<1>2. mnt[v].dev = d /\ v \in Mounted /\ Victim(v, K)
  BY <1>1 DEF OneOK, CountedOK, CountInv, Alone, Mounted, Victim, Record
<1>3. Undo(v, K)
  BY <1>1, <1>2 DEF dounmount
<1>4. mi' = [mi EXCEPT ![d].vfsp = None, ![d].rootvp = None] /\ mnt' = [mnt EXCEPT ![v] = NoMount]
      /\ UNCHANGED panic
  BY <1>2, <1>3 DEF Undo
<1>5. mi'[d].rootvp = None
  BY <1>t, <1>4 DEF Records
<1>6. \A k \in Mounts : mnt'[k].st = "no"
  BY <1>t, <1>1, <1>4 DEF OneOK, OneInv, NoMount
<1> QED
  BY <1>4, <1>5, <1>6 DEF OneOK, OneInv

LEMMA OfMountOne ==
  ASSUME NEW d, Alone(d), OneOK(d), NEW m \in Mounts, OfMount(m)
  PROVE  OneInv(d)'
<1>t. /\ mnt \in [Mounts -> MntRecords] /\ mi \in [Devs -> Records]
      /\ node \in [Mounts -> Nodes] /\ call \in [Mounts -> Calls]
      /\ None \notin Mounts /\ d \in Devs /\ Devs = {d}
  BY MountAssumption DEF OneOK, CountedOK, TypeOK, MntRecords, Records, Nodes, Calls, Alone
<1>o. OneInv(d) /\ CountInv
  BY DEF OneOK, CountedOK
<1>m. mnt[m].st = "mounted" => mnt[m].dev = d /\ Record(m).rootvp \in Mounts
  BY <1>o, <1>t DEF CountInv, OneInv, Record
<1>c. call[m] # NoCall => /\ mnt[m].st = "mounted" /\ call[m].dev = d /\ Rootvp(m) \in Mounts
  BY <1>o DEF OneInv, Rootvp
<1>1. CASE coda_start(m)
  <2>1. mi' = [mi EXCEPT ![d].started = TRUE]
    BY <1>1, <1>m DEF coda_start
  <2>2. mi'[d].vfsp = mi[d].vfsp /\ mi'[d].rootvp = mi[d].rootvp
    BY <1>t, <2>1 DEF Records
  <2>3. UNCHANGED <<mnt, node, open, closer, call, panic>>
    BY <1>1 DEF coda_start
  <2> QED
    BY <1>o, <2>2, <2>3 DEF OneInv
<1>2. CASE coda_root(m)
  <2>1. mnt[m].st = "mounted" /\ UNCHANGED <<mnt, mi, node, open, closer>>
    BY <1>2 DEF coda_root
  <2>2. CASE Cached(m) \/ mnt[m].dev \notin open
    <3>1. Returns(m, Record(m).rootvp) /\ UNCHANGED call
      BY <1>2, <2>2 DEF coda_root
    <3>2. ~panic'
      BY <1>m, <1>o, <1>t, <2>1, <3>1 DEF Returns, OneInv
    <3> QED
      BY <1>o, <2>1, <3>1, <3>2 DEF OneInv
  <2>3. CASE ~(Cached(m) \/ mnt[m].dev \notin open)
    <3>1. call' = [call EXCEPT ![m] = [op |-> "root", st |-> "asked", dev |-> d]] /\ UNCHANGED panic
      BY <1>2, <1>m, <2>1, <2>3 DEF coda_root, Asks
    <3>2. d \in open
      BY <1>m, <2>1, <2>3
    <3> QED
      BY <1>o, <1>t, <2>1, <3>1, <3>2 DEF OneInv, NoCall
  <2> QED
    BY <2>2, <2>3
<1>3. CASE RootAnswered(m) \/ RootThrown(m)
  <2>1. call[m] # NoCall /\ call' = [call EXCEPT ![m] = NoCall]
    BY <1>3 DEF RootAnswered, RootThrown, Is, NoCall
  <2>2. ~panic'
    BY <1>3, <1>c, <1>o, <1>t, <2>1 DEF RootAnswered, RootThrown, Returns, OneInv
  <2>3. \A k \in Mounts : node'[k].dying = node[k].dying
    BY <1>3, <1>t DEF RootAnswered, RootThrown, Nodes
  <2>4. UNCHANGED <<mnt, mi, open, closer>>
    BY <1>3 DEF RootAnswered, RootThrown
  <2>5. \A k \in Mounts : call'[k] = call[k] \/ call'[k] = NoCall
    BY <1>t, <2>1
  <2> QED
    BY <1>o, <2>2, <2>3, <2>4, <2>5 DEF OneInv, NoCall
<1>4. CASE coda_fhtovp(m)
  <2>1. call' = [call EXCEPT ![m] = [op |-> "fhtovp", st |-> "asked", dev |-> d]]
    BY <1>4, <1>m DEF coda_fhtovp, Asks
  <2>2. mnt[m].st = "mounted" /\ d \in open /\ UNCHANGED <<mnt, mi, node, open, closer, panic>>
    BY <1>4, <1>m DEF coda_fhtovp
  <2> QED
    BY <1>o, <1>t, <2>1, <2>2 DEF OneInv, NoCall
<1>5. CASE FhtovpAnswered(m) \/ CallFails(m)
  <2>1. call[m] # NoCall /\ call' = [call EXCEPT ![m] = NoCall]
    BY <1>5 DEF FhtovpAnswered, CallFails, Is, NoCall
  <2>a. ASSUME FhtovpAnswered(m) PROVE ~panic'
    <3>1. panic' = (mnt[m].st # "mounted")
      BY <2>a DEF FhtovpAnswered
    <3> QED
      BY <1>c, <2>1, <3>1
  <2>b. ASSUME CallFails(m) PROVE ~panic'
    BY <1>o, <2>b DEF CallFails, OneInv
  <2>2. ~panic' /\ UNCHANGED <<mnt, mi, node, open, closer>>
    <3>1. ~panic'
      BY <1>5, <2>a, <2>b
    <3> QED
      BY <1>5, <3>1 DEF FhtovpAnswered, CallFails
  <2>3. \A k \in Mounts : call'[k] = call[k] \/ call'[k] = NoCall
    BY <1>t, <2>1
  <2> QED
    BY <1>o, <2>2, <2>3 DEF OneInv, NoCall
<1>6. CASE VenusAnswers(m) \/ Interrupted(m)
  <2>1. call[m].st = "asked" /\ UNCHANGED <<mnt, mi, node, open, closer, panic>>
    BY <1>6 DEF VenusAnswers, Interrupted
  <2>2. PICK st \in {"answered", "refused", "thrown"} : call' = [call EXCEPT ![m].st = st]
    BY <1>6 DEF VenusAnswers, Interrupted
  <2>3. d \notin closer
    BY <1>o, <2>1 DEF OneInv
  <2>4. call[m] # NoCall
    BY <2>1 DEF NoCall
  <2>5. /\ call'[m].st = st /\ call'[m].dev = call[m].dev
        /\ \A k \in Mounts \ {m} : call'[k] = call[k]
    BY <1>t, <2>2 DEF Calls
  <2> QED
    BY <1>o, <1>c, <2>1, <2>3, <2>4, <2>5 DEF OneInv
<1>7. CASE Umount(m)
  <2>1. m \in Mounted /\ closer = {} /\ dounmount(m, node) /\ UNCHANGED <<open, closer, call>>
    BY <1>7 DEF Umount, Alone
  <2>2. ~Victim(m, node)
    BY <1>o, <1>m, <2>1 DEF Victim, Record, Mounted, OneInv
  <2>3. node' = node /\ UNCHANGED <<mi, mnt, panic>>
    BY <2>1, <2>2 DEF dounmount
  <2> QED
    BY <1>o, <2>1, <2>3, SameOne
<1> QED
  BY <1>1, <1>2, <1>3, <1>4, <1>5, <1>6, <1>7 DEF OfMount

LEMMA OfDeviceOne ==
  ASSUME NEW d, Alone(d), OneOK(d), Half = {}, OfDevice(d)
  PROVE  OneInv(d)'
<1>t. /\ mnt \in [Mounts -> MntRecords] /\ mi \in [Devs -> Records]
      /\ node \in [Mounts -> Nodes] /\ call \in [Mounts -> Calls]
      /\ closer \subseteq Devs /\ None \notin Mounts /\ d \in Devs /\ Devs = {d}
  BY MountAssumption DEF OneOK, CountedOK, TypeOK, MntRecords, Records, Nodes, Calls, Alone
<1>o. OneInv(d) /\ CountInv
  BY DEF OneOK, CountedOK
<1>h. \A m \in Mounts : mnt[m].st \in {"no", "mounted"}
  BY <1>t DEF Half, MntRecords
<1>p. Prompt(d) => \A m \in Mounts : call[m].dev = d => call[m].st \notin {"answered", "refused"}
  BY DEF Prompt, Alone
<1>1. ASSUME NEW m \in Mounts, coda_mount(m, d) PROVE OneInv(d)'
  <2>1. On(d) = {} /\ d \in open
    BY <1>1 DEF coda_mount, Alone
  <2>2. \A k \in Mounts : mnt[k].st = "no"
    BY <1>o, <1>t, <2>1 DEF CountInv, On
  <2>3. \A k \in Mounts : call[k] = NoCall
    BY <1>o, <2>2 DEF OneInv
  <2>4. mi[d].rootvp = None /\ d \notin closer /\ ~panic
    BY <1>o, <2>2 DEF OneInv
  <2>5. mi'[d].rootvp = None
    BY <1>1, <1>t, <2>4 DEF coda_mount, Records
  <2>6. /\ mnt'[m].st = "root" /\ \A k \in Mounts \ {m} : mnt'[k].st = "no"
        /\ UNCHANGED <<node, open, closer, call, panic>>
    BY <1>1, <1>t, <2>2 DEF coda_mount
  <2> QED
    BY <2>1, <2>3, <2>4, <2>5, <2>6 DEF OneInv
<1>2. CASE vc_nb_open(d)
  <2>1. d \notin open /\ d \notin closer
    BY <1>2 DEF vc_nb_open, Alone
  <2>2. \A k \in Mounts : mnt[k].st = "no"
    BY <1>o, <1>h, <2>1 DEF OneInv
  <2>3. mi'[d].rootvp = None
    BY <1>2, <1>t DEF vc_nb_open, Records
  <2>4. UNCHANGED <<mnt, node, closer, call, panic>>
    BY <1>2 DEF vc_nb_open
  <2> QED
    BY <1>o, <2>1, <2>2, <2>3, <2>4 DEF OneInv
<1>3. CASE CloseBare(d)
  <2>1. mi[d].rootvp = None /\ UNCHANGED <<mnt, mi, node, closer, call, panic>>
    BY <1>3 DEF CloseBare
  <2>2. \A k \in Mounts : mnt[k].st = "no"
    BY <1>o, <1>h, <1>t, <2>1 DEF OneInv
  <2> QED
    BY <1>o, <2>1, <2>2 DEF OneInv
<1>4. CASE CloseSleeps(d)
  <2>1. /\ d \in open /\ d \notin closer /\ mi[d].rootvp # None /\ Prompt(d)
        /\ d \notin open' /\ d \in closer' /\ UNCHANGED <<mnt, mi, panic>>
    BY <1>4 DEF CloseSleeps
  <2>2. \A m \in Mounts : mnt[m].st = "mounted" => node'[mnt[m].root].dying
    <3>1. node' = Marked(d)
      BY <1>4 DEF CloseSleeps
    <3>2. SUFFICES ASSUME NEW m \in Mounts, mnt[m].st = "mounted" PROVE node'[mnt[m].root].dying
      OBVIOUS
    <3>3. PICK r \in Mounts : r = mnt[m].root /\ r = mi[d].rootvp
      BY <1>o, <3>2 DEF OneInv
    <3>4. Marked(d)[r].dying
      BY <1>t, <3>3 DEF Marked, Nodes
    <3> QED
      BY <3>1, <3>3, <3>4
  <2>3. \A m \in Mounts : /\ call'[m].st \in {"no", "thrown"}
                          /\ call[m] = NoCall => call'[m] = NoCall
                          /\ call[m] # NoCall => call'[m].st # "no" /\ call'[m].dev = d
    <3> SUFFICES ASSUME NEW m \in Mounts
                 PROVE  /\ call'[m].st \in {"no", "thrown"}
                        /\ call[m] = NoCall => call'[m] = NoCall
                        /\ call[m] # NoCall => call'[m].st # "no" /\ call'[m].dev = d
      OBVIOUS
    <3>1. call'[m] = IF m \in Counted(d) THEN [call[m] EXCEPT !.st = "thrown"] ELSE call[m]
      BY <1>4 DEF CloseSleeps, Thrown
    <3>2. CASE call[m] = NoCall
      BY <3>1, <3>2 DEF Counted, NoCall
    <3>3. CASE call[m] # NoCall
      <4>1. call[m].dev = d /\ call[m].st \in {"asked", "thrown"}
        BY <1>o, <1>p, <1>t, <2>1, <3>3 DEF OneInv, Calls
      <4>2. call'[m] = [call[m] EXCEPT !.st = "thrown"]
        BY <3>1, <4>1 DEF Counted
      <4> QED
        BY <1>t, <3>3, <4>1, <4>2 DEF Calls
    <3> QED
      BY <3>2, <3>3
  <2> QED
    BY <1>o, <1>h, <2>1, <2>2, <2>3 DEF OneInv
<1>5. CASE vc_nb_close(d)
  <2>1. /\ d \in open /\ mi[d].rootvp # None /\ Prompt(d) /\ Counted(d) = {}
        /\ dounmount(mi[d].vfsp, Marked(d)) /\ UNCHANGED <<closer, call>>
    BY <1>5 DEF vc_nb_close
  <2>2. \A m \in Mounts : call[m] = NoCall
    BY <1>o, <1>p, <1>t, <2>1 DEF OneInv, Calls, Counted
  <2>3. mi[d].rootvp \in Mounts /\ d \notin closer
    BY <1>o, <1>t, <2>1 DEF OneInv
  <2>4. Marked(d) \in [Mounts -> Nodes] /\ Marked(d)[mi[d].rootvp].dying
    BY <1>t, <2>3 DEF Marked, Nodes
  <2>5. closer' = {}
    BY <1>t, <2>1, <2>3
  <2> QED
    BY <2>1, <2>2, <2>4, <2>5, UndoneOne
<1>6. CASE CloseUnmounts(d)
  <2>1. /\ d \in closer /\ Counted(d) = {} /\ closer' = closer \ {d}
        /\ dounmount(mi[d].vfsp, node) /\ UNCHANGED call
    BY <1>6 DEF CloseUnmounts
  <2>2. \A m \in Mounts : call[m] = NoCall
    BY <1>o, <2>1 DEF OneInv, Counted
  <2>3. mi[d].rootvp # None /\ node[mi[d].rootvp].dying
    BY <1>o, <2>1 DEF OneInv
  <2>4. closer' = {}
    BY <1>t, <2>1
  <2> QED
    BY <1>t, <2>1, <2>2, <2>3, <2>4, UndoneOne
<1> QED
  BY <1>1, <1>2, <1>3, <1>4, <1>5, <1>6 DEF OfDevice

LEMMA NextOne ==
  ASSUME NEW d, Alone(d)
  PROVE  OneOK(d) /\ [Next]_vars => OneOK(d)'
<1> SUFFICES ASSUME OneOK(d), [Next]_vars PROVE OneInv(d)'
  BY NextCounted DEF OneOK, Alone
<1>1. ASSUME NEW m \in Mounts, Mounting(m) PROVE OneInv(d)'
  BY <1>1, MountingOne
<1>2. CASE Half = {} /\ Loading
  BY <1>2, LoadingOne
<1>3. ASSUME NEW m \in Mounts, OfMount(m) PROVE OneInv(d)'
  BY <1>3, OfMountOne
<1>4. ASSUME NEW e \in Devs, Half = {}, OfDevice(e) PROVE OneInv(d)'
  <2>1. e = d
    BY DEF Alone
  <2> QED
    BY <1>4, <2>1, OfDeviceOne
<1>5. CASE UNCHANGED vars
  BY <1>5, SameOne DEF vars, OneOK
<1>6. "sleep" \notin Env
  BY DEF Alone
<1> QED
  BY <1>1, <1>2, <1>3, <1>4, <1>5, <1>6 DEF Next

LEMMA AlwaysOne ==
  ASSUME NEW d, Alone(d)
  PROVE  Spec => []OneOK(d)
<1>1. Init => OneOK(d)
  BY InitOne, InitCounted DEF OneOK
<1>2. OneOK(d) /\ [Next]_vars => OneOK(d)'
  BY NextOne
<1> QED
  BY <1>1, <1>2, PTL DEF Spec

\* coda_root finds a root after its upcall, coda_fhtovp a mount, and dounmount, which
\* the close of the device calls after a sleep, the mount that mi_vfsp names.
THEOREM MountNoPanic ==
  ASSUME NEW d, Alone(d)
  PROVE  Spec => []NoPanic
<1>1. OneOK(d) => NoPanic
  BY DEF OneOK, OneInv, NoPanic
<1> QED
  BY <1>1, AlwaysOne, PTL

\* vc_nb_close unmounts what is mounted via its device, every time.
THEOREM MountClosedUnmounts ==
  ASSUME NEW d, Alone(d)
  PROVE  Spec => []ClosedUnmounts
<1>1. OneOK(d) => ClosedUnmounts
  <2> SUFFICES ASSUME OneOK(d), NEW m \in Mounts, mnt[m].st = "mounted"
               PROVE  d \in open \cup closer
    BY DEF ClosedUnmounts, Mounted, Alone
  <2> QED
    BY DEF OneOK, OneInv
<1> QED
  BY <1>1, AlwaysOne, PTL

\* darwin_coda_stop, which looks at coda_instances alone, never unloads the extension
\* with a mount there, or under a thread that sleeps in coda_mount, in an upcall of a
\* mount or in vc_nb_close.  Venus may have the device open all the same.
THEOREM MountNobodyInside ==
  ASSUME NEW d, Alone(d)
  PROVE  Spec => []NobodyInside
<1>1. OneOK(d) => NobodyInside
  <2> SUFFICES ASSUME OneOK(d), ~loaded
               PROVE  (\A m \in Mounts : mnt[m].st = "no" /\ call[m] = NoCall) /\ closer = {}
    BY DEF NobodyInside
  <2>1. \A m \in Mounts : mnt[m].st = "no"
    BY DEF OneOK, CountedOK, CountInv
  <2>2. \A m \in Mounts : call[m] = NoCall
    BY <2>1 DEF OneOK, OneInv
  <2>3. d \notin closer /\ closer \subseteq {d}
    BY <2>1 DEF OneOK, OneInv, CountedOK, TypeOK, Alone
  <2> QED
    BY <2>1, <2>2, <2>3
<1> QED
  BY <1>1, AlwaysOne, PTL
=============================================================================
