---------------------------- MODULE DevicesProofs ----------------------------
(* Theorems about Devices for any volumes, handlers and device letters.      *)
EXTENDS Devices, TLAPS

\* A letter that EC2 has in use for the instance is marked as used, as long as
\* the maps that record it exist.
UsedInEc2 == made => \A v \in Vol : ec2[v] # None => ec2[v] \in used

\* Whoever mounts a volume has one.
Placed == /\ phase = "bootMount" => next <= Len(Volumes)
          /\ \A h \in Handler : pc[h] # "idle" => arg[h] \in Vol
DeviceInv == TypeOK /\ Placed /\ DevicesDistinct /\ UsedInEc2

\* Attach keeps the types, and gives a letter to one volume only.
LEMMA AttachLemma ==
    ASSUME DeviceInv, NEW v \in Vol, NEW device \in Letter \cup {None},
           NEW dev \in Letter \cup {None}, AttachReturns(v, device, dev), UNCHANGED made
    PROVE  /\ used' \subseteq Letter
           /\ attached' \in [Vol -> Letter \cup {None}]
           /\ ec2' \in [Vol -> Letter \cup {None}]
           /\ DevicesDistinct' /\ UsedInEc2'
<1> USE DEF DeviceInv, TypeOK
<1>1. CASE UNCHANGED <<used, attached, ec2>>
  BY <1>1 DEF DevicesDistinct, UsedInEc2
<1>2. ASSUME NEW c \in Choice(device), made,
             used' = used \cup {c},
             \/ UNCHANGED <<attached, ec2>>
             \/ /\ ec2' = [ec2 EXCEPT ![v] = c]
                /\ attached' = [attached EXCEPT ![v] = c]
      PROVE  /\ used' \subseteq Letter
             /\ attached' \in [Vol -> Letter \cup {None}]
             /\ ec2' \in [Vol -> Letter \cup {None}]
             /\ DevicesDistinct' /\ UsedInEc2'
  <2>1. c \in Letter /\ c \notin used
    BY LetterAssumption DEF Choice, FreeAuto
  <2>2. CASE UNCHANGED <<attached, ec2>>
    BY <1>2, <2>1, <2>2 DEF DevicesDistinct, UsedInEc2
  <2>3. CASE /\ ec2' = [ec2 EXCEPT ![v] = c]
             /\ attached' = [attached EXCEPT ![v] = c]
    BY <1>2, <2>1, <2>3, NoneAssumption DEF DevicesDistinct, UsedInEc2
  <2> QED
    BY <1>2, <2>2, <2>3
<1> QED
  BY <1>1, <1>2 DEF AttachReturns

\* What the sandbox's flex volumes are made of.
LEMMA VolumesFacts ==
    /\ Len(Volumes) \in Nat
    /\ \A i \in 1..Len(Volumes) : /\ Volumes[i].vol \in Vol
                                  /\ Volumes[i].device \in Letter \cup {None}
<1>1. Len(Volumes) \in Nat /\ \A i \in 1..Len(Volumes) : Volumes[i] \in Request
  BY VolumesAssumption
<1> QED
  BY <1>1 DEF Request

\* The invariant survives a crash: the maps are gone, so nothing is claimed of them.
LEMMA DieDevices == ASSUME DeviceInv, Die PROVE DeviceInv'
<1>1. volumes' \in Seq(Request) /\ next' \in 1..(Len(Volumes) + 1)
  BY VolumesFacts DEF Die
<1> QED
  BY <1>1 DEF Die, DeviceInv, TypeOK, Placed, Phases, DevicesDistinct, UsedInEc2

\* A mount keeps the count within its bound.
LEMMA MountLemma ==
    ASSUME TypeOK, NEW v \in Vol, Mounted(v) PROVE mounts' \in [Vol -> 0..MaxMounts]
  BY DEF Mounted, MaxMounts, TypeOK

\* Every step of Devices keeps the invariant.
LEMMA DeviceStep == DeviceInv /\ [Next]_vars => DeviceInv'
<1> SUFFICES ASSUME DeviceInv, [Next]_vars PROVE DeviceInv'
  OBVIOUS
<1>t. TypeOK /\ Placed /\ DevicesDistinct /\ UsedInEc2
  BY DEF DeviceInv
<1>1. CASE BootAttach
  <2>1. next \in 1..Len(Volumes)
    BY <1>1, <1>t, VolumesFacts DEF BootAttach, TypeOK
  <2>2. PICK dev \in Letter \cup {None} :
            AttachReturns(Volumes[next].vol, Volumes[next].device, dev)
    BY <1>1 DEF BootAttach
  <2>3. /\ used' \subseteq Letter
        /\ attached' \in [Vol -> Letter \cup {None}]
        /\ ec2' \in [Vol -> Letter \cup {None}]
        /\ DevicesDistinct' /\ UsedInEc2'
    BY <1>1, <2>1, <2>2, VolumesFacts, AttachLemma DEF BootAttach
  <2>4. phase' \in Phases /\ next' \in 1..(Len(Volumes) + 1) /\ Placed'
    BY <1>1, <1>t, <2>1, VolumesFacts DEF BootAttach, TypeOK, Placed, Phases
  <2> QED
    BY <1>1, <1>t, <2>3, <2>4 DEF BootAttach, TypeOK, DeviceInv
<1>2. CASE BootMount
  <2>1. next \in 1..Len(Volumes)
    BY <1>2, <1>t, VolumesFacts DEF BootMount, TypeOK, Placed
  <2>2. mounts' \in [Vol -> 0..MaxMounts]
    BY <1>2, <1>t, <2>1, VolumesFacts, MountLemma DEF BootMount, TypeOK
  <2> QED
    BY <1>2, <1>t, <2>1, <2>2, VolumesFacts
    DEF BootMount, DeviceInv, TypeOK, Placed, Phases, DevicesDistinct, UsedInEc2
<1>3. ASSUME NEW h \in Handler, NEW v \in Vol, CreateContainer(h, v) PROVE DeviceInv'
  BY <1>3, <1>t DEF CreateContainer, sandbox, DeviceInv, TypeOK, Placed, DevicesDistinct, UsedInEc2
<1>4. ASSUME NEW h \in Handler, AttachVol(h), ~Die PROVE DeviceInv'
  <2>1. PICK dev \in Letter \cup {None} :
            /\ AttachReturns(arg[h], None, dev)
            /\ pc' = [pc EXCEPT ![h] = IF dev = None THEN "idle" ELSE "mount"]
            /\ UNCHANGED <<sandbox, mounts, arg>>
    BY <1>4 DEF AttachVol
  <2>2. arg[h] \in Vol
    BY <1>4, <1>t DEF AttachVol, Placed
  <2>3. /\ used' \subseteq Letter
        /\ attached' \in [Vol -> Letter \cup {None}]
        /\ ec2' \in [Vol -> Letter \cup {None}]
        /\ DevicesDistinct' /\ UsedInEc2'
    BY <2>1, <2>2, AttachLemma DEF sandbox
  <2>4. Placed'
    BY <2>1, <2>2, <1>t DEF Placed, TypeOK, sandbox
  <2> QED
    BY <1>t, <2>1, <2>3, <2>4 DEF sandbox, TypeOK, DeviceInv
<1>5. ASSUME NEW h \in Handler, MountFs(h) PROVE DeviceInv'
  <2>1. mounts' \in [Vol -> 0..MaxMounts]
    BY <1>5, <1>t, MountLemma DEF MountFs, Placed, TypeOK, sandbox
  <2> QED
    BY <1>5, <1>t, <2>1
    DEF MountFs, sandbox, DeviceInv, TypeOK, Placed, DevicesDistinct, UsedInEc2
<1>6. CASE StopPodSandbox
  <2>1. PICK ok \in SUBSET WithMountPoint, off \in SUBSET Listed :
          /\ mounts' = [v \in Vol |-> IF v \in ok /\ mounts[v] > 0 THEN mounts[v] - 1
                                                                 ELSE mounts[v]]
          /\ ec2' = [v \in Vol |-> IF v \in off THEN None ELSE ec2[v]]
    BY <1>6 DEF StopPodSandbox
  <2>2. mounts' \in [Vol -> 0..MaxMounts]
    BY <1>t, <2>1 DEF TypeOK, MaxMounts
  <2>3. volumes' \in Seq(Request)
    BY <1>6 DEF StopPodSandbox
  <2> QED
    BY <1>6, <1>t, <2>1, <2>2, <2>3, NoneAssumption
    DEF StopPodSandbox, DeviceInv, TypeOK, Placed, DevicesDistinct, UsedInEc2
<1>7. CASE RemovePodSandbox
  BY <1>7, <1>t
  DEF RemovePodSandbox, DeviceInv, TypeOK, Placed, DevicesDistinct, UsedInEc2, Phases, MaxMounts
<1>8. CASE BootDone \/ CrashWhileBooting \/ Restart
  BY <1>8, <1>t
  DEF BootDone, CrashWhileBooting, Restart, DeviceInv, TypeOK, Placed, DevicesDistinct,
      UsedInEc2, Phases
<1>9. CASE UNCHANGED vars
  BY <1>9, <1>t DEF vars, sandbox, DeviceInv, TypeOK, Placed, DevicesDistinct, UsedInEc2
<1> QED
  BY <1>1, <1>2, <1>3, <1>4, <1>5, <1>6, <1>7, <1>8, <1>9, DieDevices DEF Next, Crash

\* The inductive invariant holds in every reachable state.
LEMMA DeviceInvariant == Spec => []DeviceInv
<1>1. Init => DeviceInv
  BY VolumesFacts, VolumesAssumption
  DEF Init, DeviceInv, TypeOK, Placed, DevicesDistinct, UsedInEc2, Phases, MaxMounts
<1> QED
  BY <1>1, DeviceStep, PTL DEF Spec

\* Attach never asks EC2 for a device letter that another volume of the instance
\* has, for any flex volumes, any number of containers, and across restarts.
THEOREM DevicesAreDistinct == Spec => []DevicesDistinct
<1>1. DeviceInv => DevicesDistinct
  BY DEF DeviceInv
<1> QED
  BY DeviceInvariant, <1>1, PTL
\* The declared types of the sandbox's state hold for any flex volumes; in
\* particular StopPodSandbox never unmounts what is not mounted.
THEOREM TypeCorrect == Spec => []TypeOK
<1>1. DeviceInv => TypeOK
  BY DEF DeviceInv
<1> QED
  BY DeviceInvariant, <1>1, PTL

------------------------------------------------------------------------------
(* A volume is mounted once.  NeedMount, AttachVol and MountFs are three     *)
(* steps; that only one of two handlers gets to mount rests on Attach        *)
(* returning a device only to the call that attached the volume.             *)

Booting == phase \in {"booting", "bootMount"}

\* bootSandbox and the handlers do not run at the same time, and the maps exist
\* as long as a volume is known to be attached.
Turns ==
    /\ Booting => made /\ \A h \in Handler : pc[h] = "idle"
    /\ ~made => \A v \in Vol : attached[v] = None
    /\ \A h \in Handler : pc[h] = "mount" => made /\ attached[arg[h]] # None
    /\ phase = "bootMount" => attached[Volumes[next].vol] # None

\* What v stands at: it is mounted only when it is attached, whoever is about to
\* mount it is alone and the first one, and bootSandbox does not come back to it.
MountOf(v) ==
    /\ mounts[v] <= 1
    /\ made /\ attached[v] = None => mounts[v] = 0
    /\ \A h \in Handler : pc[h] = "mount" /\ arg[h] = v => mounts[v] = 0
    /\ \A g, h \in Handler :
          pc[g] = "mount" /\ pc[h] = "mount" /\ arg[g] = v /\ arg[h] = v => g = h
    /\ phase = "bootMount" /\ Volumes[next].vol = v => mounts[v] = 0
    /\ phase = "booting" /\ attached[v] # None =>
          \A i \in next..Len(Volumes) : Volumes[i].vol # v
    /\ phase = "bootMount" /\ attached[v] # None =>
          \A i \in (next + 1)..Len(Volumes) : Volumes[i].vol # v

MountInv == DeviceInv /\ Turns /\ \A v \in Vol : NamedOnce(v) => MountOf(v)

\* Attach returns a device without attaching the volume only to a caller that
\* asked for the very device the volume has.
LEMMA AttachOutcome ==
    ASSUME DeviceInv, NEW v \in Vol, NEW device \in Letter \cup {None},
           NEW dev \in Letter \cup {None}, AttachReturns(v, device, dev)
    PROVE  \/ /\ UNCHANGED attached
              /\ dev # None => attached[v] = device /\ device # None
           \/ /\ made /\ attached[v] = None
              /\ \E c \in Letter : attached' = [attached EXCEPT ![v] = c]
<1>1. Choice(device) \subseteq Letter
  BY LetterAssumption DEF Choice, FreeAuto
<1> QED
  BY <1>1 DEF AttachReturns, DeviceInv, TypeOK

\* A mount of a volume that is not mounted.
LEMMA MountCounts ==
    ASSUME TypeOK, NEW w \in Vol, Mounted(w) \/ UNCHANGED mounts
    PROVE  \A v \in Vol : /\ v # w => mounts'[v] = mounts[v]
                          /\ mounts[w] = 0 => mounts'[w] <= 1
  BY DEF Mounted, TypeOK, MaxMounts

\* The invariant survives a crash: an imported sandbox mounts nothing any more.
LEMMA DieMount == ASSUME MountInv, Die PROVE MountInv'
<1>1. DeviceInv'
  BY DieDevices DEF MountInv
<1>2. Turns'
  BY DEF Die, Turns, Booting
<1>3. ASSUME NEW v \in Vol, NamedOnce(v) PROVE MountOf(v)'
  BY <1>3 DEF Die, MountOf, MountInv
<1> QED
  BY <1>1, <1>2, <1>3 DEF MountInv, NamedOnce

\* Every step of Devices keeps the invariant.
LEMMA MountStep == MountInv /\ [Next]_vars => MountInv'
<1> SUFFICES ASSUME MountInv, [Next]_vars PROVE MountInv'
  OBVIOUS
<1>d. DeviceInv'
  BY DeviceStep DEF MountInv
<1>t. DeviceInv /\ TypeOK /\ Placed /\ Turns /\ Len(Volumes) \in Nat
  BY VolumesFacts DEF MountInv, DeviceInv
<1>v. \A v \in Vol : NamedOnce(v) => MountOf(v)
  BY DEF MountInv
<1>q. SUFFICES ASSUME ~Die
               PROVE  Turns' /\ \A v \in Vol : NamedOnce(v) => MountOf(v)'
  BY <1>d, DieMount DEF MountInv, NamedOnce
<1>1. CASE BootAttach
  <2>1. next \in 1..Len(Volumes) /\ next + 1 \in Nat
    BY <1>1, <1>t DEF BootAttach, TypeOK
  <2> DEFINE w == Volumes[next].vol
  <2>2. w \in Vol /\ Volumes[next].device \in Letter \cup {None}
    BY <2>1, VolumesFacts
  <2>3. PICK dev \in Letter \cup {None} :
            /\ AttachReturns(w, Volumes[next].device, dev)
            /\ IF dev # None /\ Volumes[next].mount
               THEN phase' = "bootMount" /\ UNCHANGED next
               ELSE next' = next + 1 /\ UNCHANGED phase
    BY <1>1 DEF BootAttach
  <2>4. \/ /\ UNCHANGED attached
           /\ dev # None => attached[w] # None
        \/ /\ made /\ attached[w] = None
           /\ \E c \in Letter : attached' = [attached EXCEPT ![w] = c]
    BY <1>t, <2>2, <2>3, AttachOutcome
  <2>5. /\ \A v \in Vol : v # w => attached'[v] = attached[v]
        /\ attached[w] # None => UNCHANGED attached
        /\ dev # None => attached'[w] # None
    BY <1>t, <2>2, <2>3, <2>4, NoneAssumption DEF TypeOK, AttachReturns
  <2>6. Turns'
    BY <1>1, <1>t, <2>2, <2>3, <2>5 DEF BootAttach, Turns, Booting
  <2>7. ASSUME NEW v \in Vol, NamedOnce(v) PROVE MountOf(v)'
    <3>1. MountOf(v) /\ (attached[v] # None => v # w)
      BY <1>1, <1>v, <2>1, <2>7 DEF BootAttach, MountOf
    <3>2. \A i \in (next + 1)..Len(Volumes) : w = v => Volumes[i].vol # v
      BY <2>1, <2>7, <1>t DEF NamedOnce
    <3>3. attached'[v] # None => \A i \in (next + 1)..Len(Volumes) : Volumes[i].vol # v
      BY <1>1, <2>1, <2>5, <3>1, <3>2, <1>t DEF BootAttach, MountOf
    <3>4. /\ attached'[v] = None => attached[v] = None
          /\ w = v => mounts[v] = 0
      BY <1>1, <1>t, <2>5, <3>1 DEF BootAttach, MountOf, Turns, Booting
    <3>5. \A h \in Handler : pc[h] = "idle"
      BY <1>1, <1>t DEF BootAttach, Turns, Booting
    <3> QED
      BY <1>1, <2>3, <3>1, <3>3, <3>4, <3>5 DEF BootAttach, MountOf
  <2> QED
    BY <2>6, <2>7
<1>2. CASE BootMount
  <2>1. next \in 1..Len(Volumes) /\ Volumes[next].vol \in Vol
    BY <1>2, <1>t, VolumesFacts DEF BootMount, TypeOK, Placed
  <2>2. Turns'
    BY <1>2, <1>t DEF BootMount, Turns, Booting
  <2>3. ASSUME NEW v \in Vol, NamedOnce(v) PROVE MountOf(v)'
    <3>1. MountOf(v) /\ attached[Volumes[next].vol] # None
      BY <1>2, <1>t, <1>v, <2>3 DEF BootMount, Turns
    <3>2. mounts'[v] <= 1 /\ (attached[v] = None => mounts'[v] = mounts[v])
      BY <1>2, <1>t, <2>1, <3>1, MountCounts DEF BootMount, MountOf
    <3>3. \A h \in Handler : pc'[h] = "idle"
      BY <1>2, <1>t DEF BootMount, Turns, Booting
    <3> QED
      BY <1>2, <3>1, <3>2, <3>3 DEF BootMount, MountOf
  <2> QED
    BY <2>2, <2>3
<1>3. ASSUME NEW h \in Handler, NEW v \in Vol, CreateContainer(h, v)
      PROVE  Turns' /\ \A u \in Vol : NamedOnce(u) => MountOf(u)'
  <2>1. Turns'
    BY <1>3, <1>t DEF CreateContainer, sandbox, Turns, Booting, TypeOK
  <2> QED
    BY <1>3, <1>t, <1>v, <2>1 DEF CreateContainer, sandbox, MountOf, TypeOK
<1>4. ASSUME NEW h \in Handler, AttachVol(h)
      PROVE  Turns' /\ \A v \in Vol : NamedOnce(v) => MountOf(v)'
  <2> DEFINE w == arg[h]
  <2>1. PICK dev \in Letter \cup {None} :
            /\ AttachReturns(w, None, dev)
            /\ pc' = [pc EXCEPT ![h] = IF dev = None THEN "idle" ELSE "mount"]
            /\ UNCHANGED <<sandbox, mounts, arg>>
    BY <1>4, <1>q DEF AttachVol
  <2>2. w \in Vol /\ ~Booting
    BY <1>4, <1>t DEF AttachVol, Placed, Turns
  <2>3. \/ dev = None /\ UNCHANGED attached
        \/ /\ made /\ attached[w] = None
           /\ \E c \in Letter : attached' = [attached EXCEPT ![w] = c]
    BY <1>t, <2>1, <2>2, AttachOutcome
  <2>4. /\ \A v \in Vol : attached[v] # None => attached'[v] # None
        /\ dev # None => made /\ attached[w] = None /\ attached'[w] # None
        /\ ~made => UNCHANGED attached
    BY <1>t, <2>2, <2>3, NoneAssumption DEF TypeOK
  <2>5. \A g \in Handler : pc'[g] = "mount" => (g = h /\ dev # None) \/ (g # h /\ pc[g] = "mount")
    BY <1>t, <2>1 DEF TypeOK
  <2>6. \A g \in Handler : pc[g] = "mount" => made /\ arg[g] \in Vol /\ attached[arg[g]] # None
    BY <1>t DEF Turns, Placed
  <2>7. Turns'
    BY <1>t, <2>1, <2>2, <2>4, <2>5, <2>6 DEF Turns, Booting, sandbox
  <2>8. ASSUME NEW v \in Vol, NamedOnce(v) PROVE MountOf(v)'
    <3>1. MountOf(v)
      BY <1>v, <2>8
    <3> QED
      BY <2>1, <2>2, <2>4, <2>5, <2>6, <3>1 DEF MountOf, Booting, sandbox
  <2> QED
    BY <2>7, <2>8
<1>5. ASSUME NEW h \in Handler, MountFs(h)
      PROVE  Turns' /\ \A v \in Vol : NamedOnce(v) => MountOf(v)'
  <2>1. arg[h] \in Vol /\ ~Booting /\ made /\ attached[arg[h]] # None
    BY <1>5, <1>t DEF MountFs, Placed, Turns
  <2>2. \A g \in Handler : pc'[g] = "mount" => g # h /\ pc[g] = "mount"
    BY <1>5, <1>t DEF MountFs, TypeOK
  <2>3. Turns'
    BY <1>5, <1>t, <2>1, <2>2 DEF MountFs, Turns, Booting, sandbox
  <2>4. ASSUME NEW v \in Vol, NamedOnce(v) PROVE MountOf(v)'
    <3>1. MountOf(v)
      BY <1>v, <2>4
    <3>2. /\ mounts'[v] <= 1
          /\ v # arg[h] => mounts'[v] = mounts[v]
      BY <1>5, <1>t, <2>1, <3>1, MountCounts DEF MountFs, MountOf
    <3> QED
      BY <1>5, <2>1, <2>2, <3>1, <3>2 DEF MountFs, MountOf, Booting, sandbox
  <2> QED
    BY <2>3, <2>4
<1>6. CASE StopPodSandbox
  <2>1. Turns'
    BY <1>6, <1>t DEF StopPodSandbox, Turns, Booting
  <2>2. \A v \in Vol : mounts'[v] <= mounts[v] /\ mounts'[v] \in Nat /\ mounts[v] \in Nat
    BY <1>6, <1>t DEF StopPodSandbox, TypeOK, MaxMounts
  <2> QED
    BY <1>6, <1>v, <2>1, <2>2 DEF StopPodSandbox, MountOf
<1>7. CASE RemovePodSandbox
  <2>1. Turns'
    BY <1>7, <1>t DEF RemovePodSandbox, Turns, Booting
  <2> QED
    BY <1>7, <1>v, <2>1 DEF RemovePodSandbox, MountOf
<1>8. CASE BootDone \/ CrashWhileBooting \/ Restart
  <2>1. Turns'
    BY <1>8, <1>t DEF BootDone, CrashWhileBooting, Restart, Turns, Booting
  <2> QED
    BY <1>8, <1>v, <2>1 DEF BootDone, CrashWhileBooting, Restart, MountOf
<1>9. CASE UNCHANGED vars
  BY <1>9, <1>t, <1>v DEF vars, sandbox, Turns, Booting, MountOf
<1> QED
  BY <1>1, <1>2, <1>3, <1>4, <1>5, <1>6, <1>7, <1>8, <1>9, <1>q DEF Next, Crash

\* Containers that share a volume mount it once, for any flex volumes and any
\* number of CreateContainer handlers, although NeedMount, AttachVol and MountFs
\* are three critical sections, and across stops, crashes and imports.
THEOREM VolumesMountedOnce == Spec => []MountedOnce
<1>1. Init => DeviceInv
  BY VolumesFacts, VolumesAssumption
  DEF Init, DeviceInv, TypeOK, Placed, DevicesDistinct, UsedInEc2, Phases, MaxMounts
<1>2. Init => MountInv
  BY <1>1 DEF Init, MountInv, Turns, Booting, MountOf
<1>3. MountInv => MountedOnce
  BY DEF MountInv, MountOf, MountedOnce
<1> QED
  BY <1>2, <1>3, MountStep, PTL DEF Spec
==============================================================================
