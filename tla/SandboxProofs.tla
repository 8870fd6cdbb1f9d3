---------------------------- MODULE SandboxProofs ----------------------------
(***************************************************************************)
(* Theorems about Sandbox for every set of addresses, handlers and PodData *)
(* references.                                                             *)
(***************************************************************************)
EXTENDS Sandbox, DequeProofs, TLAPS

\* How a step changes what a handler works on, and nothing else of that kind.
Same == UNCHANGED <<up, vmMap, podIp>>

\* t goes from one point of its work to another one.
Moves(t) == /\ pc[t] \in WorkPcs
            /\ \E l \in WorkPcs : pc' = [pc EXCEPT ![t] = l]
            /\ UNCHANGED <<arg, ref, todo>> /\ Same

\* t goes from one step of RunPodSandbox's boot to the next.
Boots(t) == /\ pc[t] \in RunPcs
            /\ \E l \in RunPcs : pc' = [pc EXCEPT ![t] = l]
            /\ UNCHANGED <<arg, ref, todo>> /\ Same

\* t answers its request.
Ends(t) == pc[t] # "idle" /\ Finish(t) /\ Same

\* t takes up the sandbox id ip.
Starts(t, ip) == /\ up /\ vmMap[ip] # None
                 /\ \E l \in WorkPcs : pc' = [pc EXCEPT ![t] = l]
                 /\ arg' = [arg EXCEPT ![t] = ip]
                 /\ ref' = [ref EXCEPT ![t] = vmMap[ip]]
                 /\ UNCHANGED todo /\ Same

\* The part of the inductive invariant that places every handler.
PlaceInv == IdsMatch /\ Placed /\ Reserved /\ DownIsIdle
BaseInv == TypeOK /\ PlaceInv

\* The groups of program points do not overlap.
LEMMA PcFacts ==
    /\ "idle" \notin WorkPcs \cup RunPcs \cup ListPcs
    /\ WorkPcs \cap RunPcs = {} /\ WorkPcs \cap ListPcs = {} /\ RunPcs \cap ListPcs = {}
    /\ RunPcs = (IF ImagePod THEN {} ELSE BootPcs)
    /\ BootPcs \subseteq RunPcs \cup WorkPcs
    /\ ImagePod => BootPcs \cup {"install"} \subseteq WorkPcs
    /\ ~ImagePod => "install" \notin Pcs
    /\ "listRead" \in ListPcs /\ "listNext" \in ListPcs /\ "metrics" \in ListPcs
    /\ WritePcs \subseteq WorkPcs /\ WaitPcs \subseteq WorkPcs
    /\ {"statRead", "contRpc", "crBoot", "crRpc"} \subseteq WorkPcs
    /\ Pcs = {"idle"} \cup RunPcs \cup WorkPcs \cup ListPcs
  BY DEF WorkPcs, RunPcs, ListPcs, WaitPcs, WritePcs, StopPcs, RemovePcs, ReadPcs, BootPcs, Pcs

\* A handler that only goes on keeps the placement.
LEMMA MovesPlaces == ASSUME BaseInv, NEW t \in Thread, Moves(t) PROVE PlaceInv'
  BY PcFacts DEF BaseInv, PlaceInv, Moves, Same, TypeOK, IdsMatch, Placed, Reserved, DownIsIdle

\* A handler that goes on booting keeps the placement.
LEMMA BootsPlaces == ASSUME BaseInv, NEW t \in Thread, Boots(t) PROVE PlaceInv'
  BY PcFacts DEF BaseInv, PlaceInv, Boots, Same, TypeOK, IdsMatch, Placed, Reserved, DownIsIdle

\* A handler that ends keeps the placement.
LEMMA EndsPlaces == ASSUME BaseInv, NEW t \in Thread, Ends(t) PROVE PlaceInv'
  BY PcFacts, NoneAssumption
  DEF BaseInv, PlaceInv, Ends, Finish, Same, TypeOK, IdsMatch, Placed, Reserved, DownIsIdle

\* A lookup places the handler at the PodData of its id.
LEMMA StartsPlaces ==
    ASSUME BaseInv, NEW t \in Thread, NEW ip \in IP, Starts(t, ip), pc[t] = "idle"
    PROVE  PlaceInv'
  BY PcFacts DEF BaseInv, PlaceInv, Starts, Same, TypeOK, IdsMatch, Placed, Reserved, DownIsIdle

\* Steps of a handler that work, boot or end, whatever else they change.
Ordinary(t) == \/ LockCall(t) \/ Provision(t) \/ SetTag(t) \/ Connect(t)
               \/ InstallClient(t)
               \/ StopLock(t) \/ StopRpc(t)
               \/ RemoveLock(t) \/ RemoveDestroy(t) \/ RemoveRelease(t)
               \/ StatusLock(t) \/ ContainerLock(t) \/ ContainerRpc(t)
               \/ CreateLock(t) \/ PreCreateContainer(t) \/ CreateLock2(t)
               \/ CreateRpc(t) \/ CreateLog(t)

\* The steps that none of the other lemmas is about are of these kinds.
LEMMA OrdinaryStep ==
    ASSUME TypeOK, NEW t \in Thread, Ordinary(t)
    PROVE  Moves(t) \/ Boots(t) \/ Ends(t) \/ UNCHANGED <<threads, up, vmMap, podIp>>
<1> USE DEF Moves, Boots, Ends, Same, Goto, daemon, podData, locks, cloud, threads
<1>1. CASE LockCall(t)
  BY <1>1 DEF LockCall
<1>2. CASE Provision(t) \/ SetTag(t) \/ Connect(t) \/ InstallClient(t)
  BY <1>2, PcFacts DEF TypeOK, Provision, SetTag, Connect, InstallClient, BootFails, BootPcs, WaitPcs
<1>3. CASE StopLock(t) \/ StopRpc(t)
  BY <1>3, PcFacts DEF StopLock, StopRpc, WritePcs, StopPcs, WaitPcs
<1>4. CASE RemoveLock(t) \/ RemoveDestroy(t) \/ RemoveRelease(t)
  BY <1>4, PcFacts DEF RemoveLock, RemoveDestroy, RemoveRelease, WritePcs, RemovePcs, WaitPcs
<1>5. CASE StatusLock(t) \/ ContainerLock(t) \/ ContainerRpc(t)
  BY <1>5, PcFacts DEF StatusLock, ContainerLock, ContainerRpc, WaitPcs
<1>6. CASE CreateLock(t) \/ PreCreateContainer(t) \/ CreateLock2(t)
  BY <1>6, PcFacts DEF CreateLock, PreCreateContainer, CreateLock2, WaitPcs, BootPcs
<1>7. CASE CreateRpc(t) \/ CreateLog(t)
  BY <1>7, PcFacts DEF CreateRpc, CreateLog, WaitPcs
<1> QED
  BY <1>1, <1>2, <1>3, <1>4, <1>5, <1>6, <1>7 DEF Ordinary

\* After a crash nothing is left to be placed.
LEMMA DiePlaces == ASSUME Die PROVE PlaceInv'
  BY PcFacts DEF Die, PlaceInv, IdsMatch, Placed, Reserved, DownIsIdle

\* RunPodSandbox reserves a reference that nothing reaches.
LEMMA RunPlaces ==
    ASSUME BaseInv, NEW t \in Thread, RunPodSandbox(t), ~Die
    PROVE  PlaceInv'
<1> USE DEF BaseInv, PlaceInv
<1>1. PICK r \in Ref :
          /\ up /\ pc[t] = "idle" /\ ipList # <<>>
          /\ Free(r)
          /\ arg' = [arg EXCEPT ![t] = Front(ipList)]
          /\ ref' = [ref EXCEPT ![t] = r]
          /\ \/ /\ ImagePod
                /\ podIp' = [podIp EXCEPT ![r] = Front(ipList)]
                /\ pc' = [pc EXCEPT ![t] = "insert"]
             \/ /\ ~ImagePod
                /\ pc' = [pc EXCEPT ![t] = "provision"]
                /\ UNCHANGED podIp
          /\ UNCHANGED <<up, vmMap, todo>>
  BY DEF RunPodSandbox, NewPodData, Goto, podData
<1>2. Front(ipList) \in IP
  BY <1>1 DEF Front, TypeOK
<1>3. "insert" \in WorkPcs /\ (~ImagePod => "provision" \in RunPcs)
  BY PcFacts DEF WaitPcs, BootPcs
<1>4. IdsMatch' /\ DownIsIdle'
  BY <1>1 DEF IdsMatch, DownIsIdle, Free, TypeOK
<1>5. Placed'
  BY <1>1, <1>2, <1>3, PcFacts DEF Placed, Free, TypeOK
<1>6. Reserved'
  BY <1>1, <1>3, PcFacts DEF Reserved, Placed, Free, TypeOK
<1> QED
  BY <1>4, <1>5, <1>6

\* Configure builds the PodData that only its own handler can reach.
LEMMA ConfigurePlaces ==
    ASSUME BaseInv, NEW t \in Thread, Configure(t)
    PROVE  PlaceInv'
<1> USE DEF BaseInv, PlaceInv
<1>1. CASE ImagePod
  <2>1. Moves(t)
    BY <1>1, PcFacts DEF Configure, Moves, Same, Goto, daemon, BootPcs, WaitPcs
  <2> QED
    BY <2>1, MovesPlaces
<1>2. CASE ~ImagePod
  <2>1. /\ pc[t] \in RunPcs
        /\ podIp' = [podIp EXCEPT ![ref[t]] = arg[t]]
        /\ pc' = [pc EXCEPT ![t] = "insert"]
        /\ UNCHANGED <<up, vmMap, arg, ref, todo>>
    BY <1>2, PcFacts DEF Configure, NewPodData, Goto, daemon, BootPcs
  <2>2. "insert" \in WorkPcs
    BY PcFacts DEF WaitPcs
  <2>3. IdsMatch' /\ DownIsIdle'
    BY <2>1, PcFacts DEF IdsMatch, DownIsIdle, Reserved, TypeOK
  <2>4. Placed'
    BY <2>1, <2>2, PcFacts DEF Placed, Reserved, TypeOK
  <2>5. Reserved'
    BY <2>1, <2>2, PcFacts DEF Reserved, TypeOK
  <2> QED
    BY <2>3, <2>4, <2>5
<1> QED
  BY <1>1, <1>2

\* The steps that change vmMap or walk a copy of it.
LEMMA MapPlaces ==
    ASSUME BaseInv, NEW t \in Thread,
           \/ InsertSandbox(t) \/ RemoveDelete(t) \/ ListPodSandbox(t) \/ GetMetrics(t)
           \/ ListNext(t) \/ ListRead(t)
    PROVE  PlaceInv'
<1> USE DEF BaseInv, PlaceInv, Goto, Finish, daemon, podData, locks, cloud
<1>1. CASE InsertSandbox(t)
  <2>1. pc[t] \in WorkPcs
    BY <1>1, PcFacts DEF InsertSandbox, WaitPcs
  <2> QED
    BY <1>1, <2>1, PcFacts, NoneAssumption
    DEF InsertSandbox, IdsMatch, Placed, Reserved, DownIsIdle, TypeOK
<1>2. CASE RemoveDelete(t)
  <2>1. pc[t] \in WorkPcs
    BY <1>2, PcFacts DEF RemoveDelete, WritePcs, RemovePcs
  <2> QED
    BY <1>2, <2>1, PcFacts, NoneAssumption
    DEF RemoveDelete, IdsMatch, Placed, Reserved, DownIsIdle, TypeOK
<1>3. CASE ListPodSandbox(t) \/ GetMetrics(t)
  <2>1. PICK l \in ListPcs \ {"listRead"} : pc' = [pc EXCEPT ![t] = l]
    BY <1>3, PcFacts DEF ListPodSandbox, GetMetrics
  <2>2. /\ up /\ pc[t] = "idle"
        /\ todo' = [todo EXCEPT ![t] = CopyVMMap]
        /\ UNCHANGED <<up, vmMap, podIp, arg, ref>>
    BY <1>3 DEF ListPodSandbox, GetMetrics
  <2>3. \A r : r \in CopyVMMap => \E ip \in IP : vmMap[ip] = r
    BY DEF CopyVMMap
  <2>4. IdsMatch' /\ DownIsIdle' /\ Placed'
    BY <2>1, <2>2, PcFacts DEF IdsMatch, DownIsIdle, Placed, TypeOK
  <2>5. Reserved'
    BY <2>1, <2>2, <2>3, PcFacts DEF Reserved, TypeOK
  <2> QED
    BY <2>4, <2>5
<1>4. CASE ListNext(t)
  <2>1. CASE todo[t] = {} /\ Finish(t)
    <3>1. Ends(t)
      BY <1>4, <2>1 DEF ListNext, Ends, Same
    <3> QED
      BY <3>1, EndsPlaces
  <2>2. ASSUME NEW r \in todo[t],
               /\ todo' = [todo EXCEPT ![t] = @ \ {r}]
               /\ ref' = [ref EXCEPT ![t] = r]
               /\ pc' = [pc EXCEPT ![t] = "listRead"]
               /\ UNCHANGED arg
        PROVE  PlaceInv'
    BY <1>4, <2>2, PcFacts
    DEF ListNext, IdsMatch, Placed, Reserved, DownIsIdle, TypeOK
  <2> QED
    BY <1>4, <2>1, <2>2 DEF ListNext
<1>5. CASE ListRead(t)
  BY <1>5, PcFacts, NoneAssumption
  DEF ListRead, IdsMatch, Placed, Reserved, DownIsIdle, TypeOK
<1> QED
  BY <1>1, <1>2, <1>3, <1>4, <1>5

\* The import enters each PodData under its own address.
LEMMA RestartPlaces == ASSUME BaseInv, Restart PROVE PlaceInv'
<1> USE DEF BaseInv, PlaceInv
<1>1. PICK found \in SUBSET IP, err \in BOOLEAN :
          \E new \in [found -> Ref] : /\ \A a, b \in found : new[a] = new[b] => a = b
                                      /\ Import(IF err THEN {} ELSE found, new)
  BY DEF Restart
<1>a. PICK new \in [found -> Ref] : /\ \A a, b \in found : new[a] = new[b] => a = b
                                    /\ Import(IF err THEN {} ELSE found, new)
  BY <1>1
<1> DEFINE kept == IF err THEN {} ELSE found
           of(r) == {ip \in kept : new[ip] = r}
<1>b. /\ vmMap' = [ip \in IP |-> IF ip \in kept THEN new[ip] ELSE None]
      /\ podIp' = [r \in Ref |-> IF of(r) = {} THEN None ELSE CHOOSE ip \in of(r) : TRUE]
      /\ up' /\ UNCHANGED threads
  BY <1>a DEF Restart, Import
<1>c. kept \subseteq found /\ kept \subseteq IP
  OBVIOUS
<1> HIDE DEF kept
<1>2. \A t \in Thread : pc[t] = "idle"
  BY DEF Restart, DownIsIdle
<1>3. IdsMatch'
  <2> SUFFICES ASSUME NEW ip \in kept PROVE podIp'[new[ip]] = ip
    BY <1>b, NoneAssumption DEF IdsMatch
  <2>1. of(new[ip]) = {ip} /\ new[ip] \in Ref
    BY <1>a, <1>c
  <2> HIDE DEF of
  <2> QED
    BY <1>b, <2>1
<1> QED
  BY <1>b, <1>2, <1>3, PcFacts DEF Placed, Reserved, DownIsIdle, threads

\* Every step keeps the handlers in place.
LEMMA PlaceStep == ASSUME BaseInv, [Next]_vars PROVE PlaceInv'
<1>1. CASE Die
  BY <1>1, DiePlaces
<1>2. CASE UNCHANGED <<threads, up, vmMap, podIp>>
  BY <1>2 DEF BaseInv, PlaceInv, IdsMatch, Placed, Reserved, DownIsIdle, threads
<1>3. ASSUME NEW t \in Thread, Request(t), ~Die PROVE PlaceInv'
  <2>1. CASE RunPodSandbox(t)
    BY <1>3, <2>1, RunPlaces
  <2>2. CASE ListPodSandbox(t) \/ GetMetrics(t)
    BY <2>2, MapPlaces
  <2>3. ASSUME NEW ip \in IP, NEW l \in WaitPcs, Lookup(t, ip, l) PROVE PlaceInv'
    <3>1. Starts(t, ip) /\ pc[t] = "idle"
      BY <2>3, PcFacts DEF Lookup, Starts, Same, Goto, daemon, podData
    <3> QED
      BY <3>1, StartsPlaces
  <2> QED
    BY <1>3, <2>1, <2>2, <2>3
    DEF Request, StopPodSandbox, RemovePodSandbox, PodSandboxStatus, ContainerCall,
        CreateContainer, WaitPcs
<1>4. ASSUME NEW t \in Thread, Step(t), ~Die PROVE PlaceInv'
  <2>1. CASE Ordinary(t)
    BY <1>2, <2>1, OrdinaryStep, MovesPlaces, BootsPlaces, EndsPlaces DEF BaseInv
  <2>2. CASE Configure(t)
    BY <2>2, ConfigurePlaces
  <2>3. CASE InsertSandbox(t) \/ RemoveDelete(t) \/ ListNext(t) \/ ListRead(t)
    BY <2>3, MapPlaces
  <2>4. CASE RemoveClose(t)
    <3>1. Moves(t)
      BY <1>4, <2>4, PcFacts
      DEF RemoveClose, Moves, Same, Goto, daemon, WritePcs, RemovePcs
    <3> QED
      BY <3>1, MovesPlaces
  <2>5. CASE StatusRead(t)
    <3>1. Ends(t)
      BY <1>4, <2>5 DEF StatusRead, Ends, Same, daemon, podData
    <3> QED
      BY <3>1, EndsPlaces
  <2>6. CASE MetricsNext(t)
    <3>1. CASE Finish(t) /\ UNCHANGED <<daemon, podData>>
      <4>1. Ends(t)
        BY <2>6, <3>1 DEF MetricsNext, Ends, Same, daemon, podData
      <4> QED
        BY <4>1, EndsPlaces
    <3>2. ASSUME NEW r \in todo[t],
                 /\ todo' = [todo EXCEPT ![t] = @ \ {r}]
                 /\ UNCHANGED <<daemon, podData, pc, arg, ref>>
          PROVE  PlaceInv'
      BY <3>2 DEF BaseInv, PlaceInv, IdsMatch, Placed, Reserved, DownIsIdle, TypeOK,
                  daemon, podData
    <3> QED
      BY <1>4, <2>6, <3>1, <3>2 DEF MetricsNext
  <2> QED
    BY <1>4, <2>1, <2>2, <2>3, <2>4, <2>5, <2>6 DEF Step, Ordinary
<1> QED
  BY <1>1, <1>2, <1>3, <1>4, RestartPlaces
  DEF Next, Crash, Terminated, vars, daemon, podData

------------------------------------------------------------------------------
(* Type correctness.  The type of each variable is kept on its own.          *)

DaemonTypeOK == up \in BOOLEAN /\ ipList \in Seq(IP) /\ vmMap \in [IP -> Ref \cup {None}]
PodTypeOK == /\ podIp \in [Ref -> IP \cup {None}]
             /\ client \in [Ref -> ClientState]
             /\ booted \in [Ref -> BOOLEAN]
             /\ podState \in [Ref -> {"READY", "NOTREADY"}]
LockTypeOK == /\ readers \in [Ref -> SUBSET Thread]
              /\ writer \in [Ref -> Thread \cup {None}]
              /\ pending \in [Ref -> Thread \cup {None}]
              /\ bootLock \in [Ref -> Thread \cup {None}]
CloudTypeOK == /\ instance \in [IP -> InstanceState]
               /\ owner \in [IP -> Ref \cup {None}]
               /\ doomed \in SUBSET Ref
ThreadTypeOK == /\ pc \in [Thread -> Pcs]
                /\ arg \in [Thread -> IP \cup {None}]
                /\ ref \in [Thread -> Ref \cup {None}]
                /\ todo \in [Thread -> SUBSET Ref]

\* The type invariant is the conjunction of its parts.
LEMMA TypeParts ==
    TypeOK <=> DaemonTypeOK /\ PodTypeOK /\ LockTypeOK /\ CloudTypeOK /\ ThreadTypeOK
  BY DEF TypeOK, DaemonTypeOK, PodTypeOK, LockTypeOK, CloudTypeOK, ThreadTypeOK

\* Every step keeps the types of the daemon's own variables.
LEMMA DaemonType == ASSUME BaseInv, [Next]_vars PROVE DaemonTypeOK'
<1> USE DEF DaemonTypeOK
<1>1. DaemonTypeOK
  BY TypeParts DEF BaseInv
<1>2. CASE UNCHANGED daemon
  BY <1>1, <1>2 DEF daemon
<1>3. CASE Die
  <2>1. ipList' \in Seq(IP)
    BY <1>3 DEF Die
  <2>2. up' \in BOOLEAN /\ vmMap' \in [IP -> Ref \cup {None}]
    BY <1>3 DEF Die
  <2> QED
    BY <2>1, <2>2
<1>4. ASSUME NEW t \in Thread, RunPodSandbox(t), ~Die PROVE DaemonTypeOK'
  <2>1. ipList # <<>> /\ ipList' = Shift(ipList) /\ UNCHANGED <<up, vmMap>>
    BY <1>4 DEF RunPodSandbox
  <2>2. ipList' \in Seq(IP)
    BY <1>1, <2>1 DEF Shift
  <2> QED
    BY <1>1, <2>1, <2>2
<1>5. ASSUME NEW t \in Thread, InsertSandbox(t) \/ RemoveDelete(t) PROVE DaemonTypeOK'
  BY <1>1, <1>5 DEF InsertSandbox, RemoveDelete, BaseInv, TypeOK
<1>6. ASSUME NEW t \in Thread, RemoveRelease(t) PROVE DaemonTypeOK'
  <2>1. podIp[ref[t]] \in IP
    BY <1>6, PcFacts DEF RemoveRelease, BaseInv, PlaceInv, Placed, WritePcs, RemovePcs
  <2> QED
    BY <1>1, <1>6, <2>1 DEF RemoveRelease, PushBack
<1>7. CASE Restart
  <2>1. PICK found \in SUBSET IP, err \in BOOLEAN :
            /\ ipList' \in FindAndRemove(Pool, found)
            /\ \E new \in [found -> Ref] : Import(IF err THEN {} ELSE found, new)
    BY <1>7 DEF Restart
  <2>2. ipList' \in Seq(IP)
    BY <2>1, PoolAssumption, FindAndRemoveLemma
  <2>3. vmMap' \in [IP -> Ref \cup {None}]
    BY <2>1 DEF Import
  <2> QED
    BY <1>7, <2>2, <2>3 DEF Restart
<1>8. ASSUME NEW t \in Thread, Step(t), ~Die PROVE DaemonTypeOK'
  BY <1>2, <1>5, <1>6, <1>8
  DEF Step, LockCall, Provision, SetTag, Connect, Configure, InstallClient, StopLock, StopRpc, RemoveLock,
      RemoveDestroy, RemoveClose, StatusLock, StatusRead, ListNext, ListRead, MetricsNext,
      ContainerLock, ContainerRpc, CreateLock, PreCreateContainer, CreateLock2, CreateRpc,
      CreateLog
<1>9. ASSUME NEW t \in Thread, Request(t), ~Die PROVE DaemonTypeOK'
  BY <1>2, <1>4, <1>9
  DEF Request, ListPodSandbox, GetMetrics, StopPodSandbox, RemovePodSandbox, PodSandboxStatus,
      ContainerCall, CreateContainer, Lookup
<1> QED
  BY <1>2, <1>3, <1>7, <1>8, <1>9 DEF Next, Crash, Terminated, vars

\* Every step keeps the types of the PodData.
LEMMA PodType == ASSUME BaseInv, [Next]_vars PROVE PodTypeOK'
<1> USE DEF PodTypeOK, ClientState
<1>1. PodTypeOK
  BY TypeParts DEF BaseInv
<1>2. CASE UNCHANGED podData
  BY <1>1, <1>2 DEF podData
<1>3. CASE Die
  BY <1>3 DEF Die
<1>4. ASSUME NEW t \in Thread, RunPodSandbox(t), ~Die PROVE PodTypeOK'
  <2>1. /\ ipList # <<>>
        /\ \/ UNCHANGED podData
           \/ \E r \in Ref : NewPodData(r, Front(ipList), "fake", FALSE)
    BY <1>4 DEF RunPodSandbox
  <2>2. Front(ipList) \in IP
    BY <2>1 DEF Front, BaseInv, TypeOK
  <2>3. ASSUME NEW r \in Ref, NewPodData(r, Front(ipList), "fake", FALSE) PROVE PodTypeOK'
    BY <1>1, <2>2, <2>3 DEF NewPodData
  <2> QED
    BY <1>2, <2>1, <2>3
<1>5. ASSUME NEW t \in Thread, Configure(t) PROVE PodTypeOK'
  BY <1>1, <1>5 DEF Configure, NewPodData, BaseInv, TypeOK
<1>6. ASSUME NEW t \in Thread, StopRpc(t) \/ RemoveClose(t) \/ InstallClient(t), ~Die PROVE PodTypeOK'
  BY <1>1, <1>6 DEF StopRpc, RemoveClose, InstallClient
<1>7. CASE Restart
  <2>1. PICK found \in SUBSET IP, err \in BOOLEAN :
            \E new \in [found -> Ref] : Import(IF err THEN {} ELSE found, new)
    BY <1>7 DEF Restart
  <2>2. PICK new \in [found -> Ref] : Import(IF err THEN {} ELSE found, new)
    BY <2>1
  <2> DEFINE of(r) == {ip \in IF err THEN {} ELSE found : new[ip] = r}
  <2>3. \A r \in Ref : of(r) # {} => (CHOOSE ip \in of(r) : TRUE) \in IP
    <3> SUFFICES ASSUME NEW r \in Ref, of(r) # {} PROVE (CHOOSE ip \in of(r) : TRUE) \in of(r)
      OBVIOUS
    <3> HIDE DEF of
    <3> QED
      OBVIOUS
  <2>4. /\ podIp' = [r \in Ref |-> IF of(r) = {} THEN None ELSE CHOOSE ip \in of(r) : TRUE]
        /\ client' = [r \in Ref |-> IF of(r) = {} THEN "nil" ELSE "real"]
        /\ booted' = [r \in Ref |-> of(r) # {}]
    BY <2>2 DEF Import
  <2> HIDE DEF of
  <2> QED
    BY <1>1, <1>7, <2>3, <2>4 DEF Restart
<1>8. ASSUME NEW t \in Thread, Step(t), ~Die PROVE PodTypeOK'
  BY <1>2, <1>5, <1>6, <1>8
  DEF Step, LockCall, Provision, SetTag, Connect, InsertSandbox, StopLock, RemoveLock,
      RemoveDestroy, RemoveRelease, RemoveDelete, StatusLock, StatusRead, ListNext, ListRead,
      MetricsNext, ContainerLock, ContainerRpc, CreateLock, PreCreateContainer, CreateLock2,
      CreateRpc, CreateLog
<1>9. ASSUME NEW t \in Thread, Request(t), ~Die PROVE PodTypeOK'
  BY <1>2, <1>4, <1>9
  DEF Request, ListPodSandbox, GetMetrics, StopPodSandbox, RemovePodSandbox, PodSandboxStatus,
      ContainerCall, CreateContainer, Lookup
<1> QED
  BY <1>2, <1>3, <1>7, <1>8, <1>9 DEF Next, Crash, Terminated, vars

\* Every step keeps the types of the locks.
LEMMA LockType == ASSUME BaseInv, [Next]_vars PROVE LockTypeOK'
<1> USE DEF LockTypeOK
<1>1. LockTypeOK
  BY TypeParts DEF BaseInv
<1>2. CASE UNCHANGED locks
  BY <1>1, <1>2 DEF locks
<1>3. CASE Die
  BY <1>3 DEF Die
<1>4. ASSUME NEW t \in Thread, Step(t), ~Die PROVE LockTypeOK'
  <2>1. ASSUME NEW r, RLock(t, r) \/ RUnlock(t, r) \/ Lock(t, r) \/ LockUnlock(t, r)
                         \/ Unlock(t, r)
        PROVE  LockTypeOK'
    BY <1>1, <2>1 DEF RLock, RUnlock, Lock, LockUnlock, Unlock
  <2>2. CASE LockCall(t)
    BY <1>1, <2>2 DEF LockCall
  <2>3. CASE Provision(t) \/ Connect(t) \/ Configure(t) \/ InstallClient(t)
             \/ PreCreateContainer(t)
    <3>1. CASE /\ bootLock' = [bootLock EXCEPT ![ref[t]] = None]
               /\ readers' = [readers EXCEPT ![ref[t]] = @ \ {t}]
               /\ UNCHANGED <<writer, pending>>
      BY <1>1, <3>1
    <3>2. CASE /\ bootLock' = [bootLock EXCEPT ![ref[t]] = t]
               /\ UNCHANGED <<readers, writer, pending>>
      BY <1>1, <3>2
    <3> QED
      BY <1>2, <2>1, <2>3, <3>1, <3>2
      DEF Provision, Connect, Configure, InstallClient, PreCreateContainer, BootFails
  <2> QED
    BY <1>2, <1>4, <2>1, <2>2, <2>3
    DEF Step, SetTag, InsertSandbox, StopLock, StopRpc, RemoveLock, RemoveDestroy, RemoveClose,
        RemoveRelease, RemoveDelete, StatusLock, StatusRead, ListNext, ListRead, MetricsNext,
        ContainerLock, ContainerRpc, CreateLock, CreateLock2, CreateRpc, CreateLog
<1>5. ASSUME NEW t \in Thread, Request(t), ~Die PROVE LockTypeOK'
  BY <1>2, <1>5
  DEF Request, RunPodSandbox, ListPodSandbox, GetMetrics, StopPodSandbox, RemovePodSandbox,
      PodSandboxStatus, ContainerCall, CreateContainer, Lookup
<1>6. CASE Restart
  BY <1>2, <1>6 DEF Restart
<1> QED
  BY <1>2, <1>3, <1>4, <1>5, <1>6 DEF Next, Crash, Terminated, vars

\* Every step keeps the types of the instances.
LEMMA CloudType == ASSUME BaseInv, [Next]_vars PROVE CloudTypeOK'
<1> USE DEF CloudTypeOK, InstanceState
<1>1. CloudTypeOK /\ ref \in [Thread -> Ref \cup {None}]
  BY TypeParts DEF BaseInv, TypeOK
<1>2. CASE UNCHANGED cloud
  BY <1>1, <1>2 DEF cloud
<1>3. CASE Die
  BY <1>1, <1>3 DEF Die
<1>4. ASSUME NEW t \in Thread, Step(t), ~Die PROVE CloudTypeOK'
  <2>1. CASE Provision(t) \/ SetTag(t) \/ Configure(t)
    BY <1>1, <2>1 DEF Provision, SetTag, Configure
  <2>2. CASE RemoveDestroy(t)
    <3>1. CASE Terminate(ref[t])
      <4>1. ref[t] \in Ref
        BY <2>2, PcFacts DEF RemoveDestroy, BaseInv, PlaceInv, Placed, WritePcs, RemovePcs
      <4> QED
        BY <1>1, <3>1, <4>1 DEF Terminate
    <3> QED
      BY <1>2, <2>2, <3>1 DEF RemoveDestroy
  <2> QED
    BY <1>2, <1>4, <2>1, <2>2
    DEF Step, LockCall, Connect, InstallClient, InsertSandbox, StopLock, StopRpc, RemoveLock, RemoveClose,
        RemoveRelease, RemoveDelete, StatusLock, StatusRead, ListNext, ListRead, MetricsNext,
        ContainerLock, ContainerRpc, CreateLock, PreCreateContainer, CreateLock2, CreateRpc,
        CreateLog
<1>5. ASSUME NEW t \in Thread, Request(t), ~Die PROVE CloudTypeOK'
  BY <1>1, <1>2, <1>5
  DEF Request, RunPodSandbox, ListPodSandbox, GetMetrics, StopPodSandbox, RemovePodSandbox,
      PodSandboxStatus, ContainerCall, CreateContainer, Lookup
<1>6. CASE Restart
  BY <1>1, <1>6 DEF Restart, Import
<1> QED
  BY <1>1, <1>2, <1>3, <1>4, <1>5, <1>6 DEF Next, Crash, Terminated, vars

\* Every step keeps the types of the handlers.
LEMMA ThreadType == ASSUME BaseInv, [Next]_vars PROVE ThreadTypeOK'
<1> USE DEF ThreadTypeOK
<1>1. /\ ThreadTypeOK
      /\ ipList \in Seq(IP) /\ vmMap \in [IP -> Ref \cup {None}]
  BY TypeParts DEF BaseInv, TypeOK
<1>2. CASE UNCHANGED threads
  BY <1>1, <1>2 DEF threads
<1>3. CASE Die
  BY <1>3, PcFacts DEF Die
<1>4. ASSUME NEW t \in Thread, Finish(t) PROVE ThreadTypeOK'
  BY <1>1, <1>4, PcFacts DEF Finish
<1>5. ASSUME NEW t \in Thread, NEW l \in Pcs, Goto(t, l),
             UNCHANGED <<arg, ref, todo>> PROVE ThreadTypeOK'
  BY <1>1, <1>5 DEF Goto
<1>6. ASSUME NEW t \in Thread, Ordinary(t) PROVE ThreadTypeOK'
  BY <1>2, <1>4, <1>5, <1>6, OrdinaryStep, PcFacts
  DEF BaseInv, Moves, Boots, Ends, Goto
<1>7. ASSUME NEW t \in Thread, Configure(t) \/ InsertSandbox(t) \/ RemoveDelete(t)
                                 \/ RemoveClose(t) \/ StatusRead(t), ~Die
      PROVE  ThreadTypeOK'
  BY <1>4, <1>5, <1>7, PcFacts
  DEF Configure, InsertSandbox, RemoveDelete, RemoveClose, StatusRead, WritePcs, RemovePcs,
      WaitPcs
<1>8. ASSUME NEW t \in Thread, ListNext(t) \/ ListRead(t) \/ MetricsNext(t), ~Die
      PROVE  ThreadTypeOK'
  <2>1. CASE Finish(t)
    BY <1>4, <2>1
  <2>2. CASE ListNext(t) /\ ~Finish(t)
    <3>1. PICK r \in todo[t] : /\ todo' = [todo EXCEPT ![t] = @ \ {r}]
                               /\ ref' = [ref EXCEPT ![t] = r]
                               /\ pc' = [pc EXCEPT ![t] = "listRead"]
                               /\ UNCHANGED arg
      BY <2>2 DEF ListNext, Goto
    <3> QED
      BY <1>1, <3>1, PcFacts
  <2>3. CASE ListRead(t)
    BY <1>1, <2>3, PcFacts DEF ListRead, Goto
  <2>4. CASE MetricsNext(t) /\ ~Finish(t)
    BY <1>1, <1>8, <2>4 DEF MetricsNext
  <2> QED
    BY <1>8, <2>1, <2>2, <2>3, <2>4
<1>9. ASSUME NEW t \in Thread, RunPodSandbox(t), ~Die PROVE ThreadTypeOK'
  <2>1. /\ ipList # <<>>
        /\ arg' = [arg EXCEPT ![t] = Front(ipList)]
        /\ \E r \in Ref : ref' = [ref EXCEPT ![t] = r]
        /\ Goto(t, "insert") \/ (~ImagePod /\ Goto(t, "provision"))
        /\ UNCHANGED todo
    BY <1>9 DEF RunPodSandbox
  <2>2. Front(ipList) \in IP
    BY <1>1, <2>1 DEF Front
  <2>3. "insert" \in Pcs /\ (~ImagePod => "provision" \in Pcs)
    BY PcFacts DEF WaitPcs, BootPcs
  <2> QED
    BY <1>1, <2>1, <2>2, <2>3 DEF Goto
<1>10. ASSUME NEW t \in Thread, ListPodSandbox(t) \/ GetMetrics(t) PROVE ThreadTypeOK'
  <2>1. CopyVMMap \subseteq Ref
    BY <1>1 DEF CopyVMMap
  <2> QED
    BY <1>1, <1>10, <2>1, PcFacts DEF ListPodSandbox, GetMetrics, Goto
<1>11. ASSUME NEW t \in Thread, NEW ip \in IP, NEW l \in WaitPcs, Lookup(t, ip, l)
       PROVE  ThreadTypeOK'
  BY <1>1, <1>11, PcFacts DEF Lookup, Goto
<1>12. ASSUME NEW t \in Thread, Request(t), ~Die PROVE ThreadTypeOK'
  BY <1>9, <1>10, <1>11, <1>12
  DEF Request, StopPodSandbox, RemovePodSandbox, PodSandboxStatus, ContainerCall,
      CreateContainer, WaitPcs
<1>13. ASSUME NEW t \in Thread, Step(t), ~Die PROVE ThreadTypeOK'
  BY <1>6, <1>7, <1>8, <1>13 DEF Step, Ordinary
<1>14. CASE Restart
  BY <1>2, <1>14 DEF Restart
<1> QED
  BY <1>2, <1>3, <1>12, <1>13, <1>14 DEF Next, Crash, Terminated, vars

\* The initial state satisfies the base invariant.
LEMMA BaseInit == Init => BaseInv
<1> SUFFICES ASSUME Init PROVE BaseInv
  OBVIOUS
<1>1. TypeOK
  BY PoolAssumption, PcFacts DEF Init, TypeOK, ClientState, InstanceState
<1>2. PlaceInv
  BY PcFacts DEF Init, PlaceInv, IdsMatch, Placed, Reserved, DownIsIdle
<1> QED
  BY <1>1, <1>2 DEF BaseInv

\* Every step keeps the base invariant.
LEMMA BaseStep == BaseInv /\ [Next]_vars => BaseInv'
<1> SUFFICES ASSUME BaseInv, [Next]_vars PROVE BaseInv'
  OBVIOUS
<1>1. PlaceInv'
  BY PlaceStep
<1>2. (DaemonTypeOK /\ PodTypeOK /\ LockTypeOK /\ CloudTypeOK /\ ThreadTypeOK)'
  BY DaemonType, PodType, LockType, CloudType, ThreadType
<1>3. TypeOK'
  BY <1>2 DEF TypeOK, DaemonTypeOK, PodTypeOK, LockTypeOK, CloudTypeOK, ThreadTypeOK
<1> QED
  BY <1>1, <1>3 DEF BaseInv

\* The base invariant holds in every reachable state.
LEMMA BaseInvariant == Spec => []BaseInv
<1> QED
  BY BaseInit, BaseStep, PTL DEF Spec

\* Every variable keeps its type, in both modes and across crashes.
THEOREM TypeCorrect == Spec => []TypeOK
<1>1. BaseInv => TypeOK
  BY DEF BaseInv
<1> QED
  BY BaseInvariant, <1>1, PTL

\* A PodData is entered in vmMap under its own address only, so the id of a
\* request and the address that its removal returns to the pool are the same.
THEOREM IdsAgree == Spec => []IdsMatch
<1>1. BaseInv => IdsMatch
  BY DEF BaseInv, PlaceInv
<1> QED
  BY BaseInvariant, <1>1, PTL

------------------------------------------------------------------------------
(* Locks.                                                                    *)


\* Where a handler holds the stateLock of the PodData it works on.
LEMMA InsideFacts ==
    /\ WritePcs = {"stopRpc", "remDestroy", "remClose", "remRelease", "remDelete"}
    /\ ReadPcs = {"statRead", "listRead", "contRpc", "crBoot", "crRpc"}
                    \cup (IF ImagePod
                          THEN {"provision", "tag", "connect", "configure", "install"}
                          ELSE {})
    /\ RunPcs = (IF ImagePod THEN {} ELSE {"provision", "tag", "connect", "configure"})
    /\ WritePcs \cap ReadPcs = {}
    /\ WaitPcs \cap (WritePcs \cup ReadPcs) = {}
    /\ {"idle", "listNext", "metrics"} \cap (WritePcs \cup ReadPcs) = {}
    /\ RunPcs \cap (WritePcs \cup ReadPcs) = {}
    /\ WritePcs \cup ReadPcs \subseteq WorkPcs \cup {"listRead"}
  BY DEF WorkPcs, RunPcs, WaitPcs, WritePcs, StopPcs, RemovePcs, ReadPcs, BootPcs

\* t changes neither the locks nor its place inside or outside of them.
Stays(t) == /\ UNCHANGED locks
            /\ \E l : /\ pc' = [pc EXCEPT ![t] = l]
                      /\ l \in WritePcs => pc[t] \in WritePcs /\ ref'[t] = ref[t]
                      /\ l \in ReadPcs => pc[t] \in ReadPcs /\ ref'[t] = ref[t]
            /\ \A u \in Thread : u # t => ref'[u] = ref[u]

\* A step of one handler leaves the locks of the others held.
LEMMA StaysHeld ==
    ASSUME TypeOK, LocksHeld, NEW t \in Thread, Stays(t)
    PROVE  LocksHeld'
  BY DEF TypeOK, LocksHeld, Stays, locks

\* Requests and the steps between two lock operations.
LEMMA QuietStays ==
    ASSUME BaseInv, NEW t \in Thread, ~Die,
           \/ Request(t) \/ SetTag(t) \/ Configure(t) \/ InsertSandbox(t)
           \/ RemoveClose(t) \/ RemoveRelease(t)
    PROVE  Stays(t)
<1> USE DEF Stays, Goto, Finish, BaseInv
<1>1. CASE SetTag(t) \/ Configure(t) \/ InsertSandbox(t) \/ RemoveClose(t) \/ RemoveRelease(t)
  <2>1. /\ {"connect", "configure"} \cap WritePcs = {}
        /\ ImagePod => {"tag", "connect", "configure", "install"} \subseteq ReadPcs
        /\ ~ImagePod => {"tag", "connect", "configure"} \cap ReadPcs = {}
        /\ {"insert", "idle"} \cap (WritePcs \cup ReadPcs) = {}
        /\ {"remClose", "remRelease", "remDelete"} \subseteq WritePcs
        /\ {"remClose", "remRelease", "remDelete", "install"} \cap (WritePcs \cap ReadPcs) = {}
    BY InsideFacts, PcFacts DEF WaitPcs
  <2>2. CASE SetTag(t)
    BY <2>1, <2>2 DEF SetTag, TypeOK
  <2>3. CASE Configure(t)
    BY <2>1, <2>3, InsideFacts, PcFacts DEF Configure, WaitPcs, TypeOK
  <2>4. CASE InsertSandbox(t)
    BY <2>1, <2>4 DEF InsertSandbox, TypeOK
  <2>5. CASE RemoveClose(t)
    BY <2>5, InsideFacts DEF RemoveClose, TypeOK
  <2>6. CASE RemoveRelease(t)
    BY <2>6, InsideFacts DEF RemoveRelease, TypeOK
  <2> QED
    BY <1>1, <2>2, <2>3, <2>4, <2>5, <2>6
<1>2. CASE ListPodSandbox(t) \/ GetMetrics(t)
  BY <1>2, InsideFacts DEF ListPodSandbox, GetMetrics
<1>3. CASE RunPodSandbox(t)
  <2>1. "insert" \notin WritePcs \cup ReadPcs
    BY InsideFacts DEF WaitPcs
  <2>2. ~ImagePod => "provision" \notin WritePcs \cup ReadPcs
    BY InsideFacts
  <2> QED
    BY <1>3, <2>1, <2>2 DEF RunPodSandbox, TypeOK
<1>4. ASSUME NEW ip \in IP, NEW l \in WaitPcs, Lookup(t, ip, l) PROVE Stays(t)
  BY <1>4, InsideFacts DEF Lookup, TypeOK
<1> QED
  BY <1>1, <1>2, <1>3, <1>4
  DEF Request, StopPodSandbox, RemovePodSandbox, PodSandboxStatus, ContainerCall,
      CreateContainer, WaitPcs

\* The effect of the lock operations on a handler's place.
Enters(t, r, P) == /\ pc[t] \notin WritePcs \cup ReadPcs
                   /\ \E l \in P : pc' = [pc EXCEPT ![t] = l]
                   /\ ref'[t] = r /\ r \in Ref
                   /\ \A u \in Thread : u # t => ref'[u] = ref[u]

Leaves(t) == /\ \E l : l \notin WritePcs \cup ReadPcs /\ pc' = [pc EXCEPT ![t] = l]
             /\ \A u \in Thread : u # t => ref'[u] = ref[u]

\* Each lock operation keeps writers and readers apart.
LEMMA LockOperations ==
    ASSUME BaseInv, LocksHeld, NEW t \in Thread,
           \/ \E r \in Ref : RLock(t, r) /\ Enters(t, r, ReadPcs)
           \/ \E r \in Ref : Lock(t, r) /\ Enters(t, r, WritePcs)
           \/ \E r \in Ref : LockUnlock(t, r) /\ Leaves(t)
           \/ /\ pc[t] \in ReadPcs /\ Leaves(t)
              /\ readers' = [readers EXCEPT ![ref[t]] = @ \ {t}]
              /\ UNCHANGED <<writer, pending>>
           \/ pc[t] \in WritePcs /\ Unlock(t, ref[t]) /\ Leaves(t)
           \/ /\ LockCall(t)
    PROVE  LocksHeld'
<1> USE DEF BaseInv
<1>0. \A u \in Thread : pc[u] \in WritePcs \cup ReadPcs => ref[u] \in Ref
  BY InsideFacts DEF PlaceInv, Placed
<1>1. ASSUME NEW r \in Ref, RLock(t, r), Enters(t, r, ReadPcs) PROVE LocksHeld'
  BY <1>0, <1>1, InsideFacts, NoneAssumption DEF RLock, Enters, LocksHeld, TypeOK
<1>2. ASSUME NEW r \in Ref, Lock(t, r), Enters(t, r, WritePcs) PROVE LocksHeld'
  BY <1>0, <1>2, InsideFacts, NoneAssumption DEF Lock, CanLock, Enters, LocksHeld, TypeOK
<1>3. ASSUME NEW r \in Ref, LockUnlock(t, r), Leaves(t) PROVE LocksHeld'
  BY <1>0, <1>3, InsideFacts, NoneAssumption DEF LockUnlock, CanLock, Leaves, LocksHeld, TypeOK
<1>4. CASE /\ pc[t] \in ReadPcs /\ Leaves(t)
           /\ readers' = [readers EXCEPT ![ref[t]] = @ \ {t}]
           /\ UNCHANGED <<writer, pending>>
  BY <1>0, <1>4, InsideFacts, NoneAssumption DEF Leaves, LocksHeld, TypeOK
<1>5. CASE pc[t] \in WritePcs /\ Unlock(t, ref[t]) /\ Leaves(t)
  BY <1>0, <1>5, InsideFacts, NoneAssumption DEF Unlock, Leaves, LocksHeld, TypeOK
<1>6. CASE LockCall(t)
  BY <1>6, NoneAssumption DEF LockCall, LocksHeld, TypeOK, threads
<1> QED
  BY <1>1, <1>2, <1>3, <1>4, <1>5, <1>6

\* Every step keeps the lock discipline.
LEMMA LocksStep == ASSUME BaseInv, LocksHeld, [Next]_vars PROVE LocksHeld'
<1> USE DEF Goto, Finish
<1>a. TypeOK /\ Placed /\ DownIsIdle
  BY DEF BaseInv, PlaceInv
<1>b. \A t \in Thread : pc[t] \in WaitPcs \cup WritePcs \cup ReadPcs => ref[t] \in Ref
  BY <1>a, InsideFacts, PcFacts DEF Placed
<1>1. CASE Die
  BY <1>1, InsideFacts DEF Die, LocksHeld
<1>2. CASE UNCHANGED <<locks, threads>>
  BY <1>2 DEF locks, threads, LocksHeld
<1>3. CASE Restart
  BY <1>3 DEF Restart, locks, threads, LocksHeld
<1>4. ASSUME NEW t \in Thread, Request(t), ~Die PROVE LocksHeld'
  BY <1>4, QuietStays, StaysHeld DEF BaseInv
<1>5. ASSUME NEW t \in Thread, Step(t), ~Die PROVE LocksHeld'
  <2> USE DEF Enters, Leaves
  <2>1. CASE \/ SetTag(t) \/ Configure(t) \/ InsertSandbox(t) \/ RemoveClose(t) \/ RemoveRelease(t)
    BY <1>5, <2>1, QuietStays, StaysHeld DEF BaseInv
  <2>2. CASE LockCall(t)
    BY <2>2, LockOperations
  <2>3. ASSUME Provision(t) \/ Connect(t) PROVE LocksHeld'
    <3>1. CASE Stays(t)
      BY <3>1, StaysHeld DEF BaseInv
    <3>2. CASE ImagePod /\ BootFails(t)
      <4>1. /\ pc[t] \in ReadPcs /\ Leaves(t)
            /\ readers' = [readers EXCEPT ![ref[t]] = @ \ {t}]
            /\ UNCHANGED <<writer, pending>>
        BY <2>3, <3>2, InsideFacts DEF Provision, Connect, BootFails, WaitPcs
      <4> QED
        BY <4>1, LockOperations
    <3>3. CASE ~ImagePod /\ BootFails(t)
      <4>1. Stays(t)
        BY <1>a, <3>3, InsideFacts DEF BootFails, Stays, TypeOK
      <4> QED
        BY <4>1, StaysHeld DEF BaseInv
    <3>4. \/ BootFails(t)
          \/ (Goto(t, "tag") \/ Goto(t, "configure")) /\ UNCHANGED <<locks, ref>>
      BY <2>3 DEF Provision, Connect
    <3>5. pc[t] = "provision" \/ pc[t] = "connect"
      BY <2>3 DEF Provision, Connect
    <3>6. BootFails(t) \/ Stays(t)
      BY <1>a, <3>4, <3>5, InsideFacts DEF Stays, TypeOK
    <3> QED
      BY <3>1, <3>2, <3>3, <3>6
  <2>4. CASE InstallClient(t)
    <3>1. pc[t] \in ReadPcs
      BY <1>a, <2>4, InsideFacts, PcFacts DEF InstallClient, TypeOK
    <3>2. Leaves(t)
      BY <2>4, InsideFacts DEF InstallClient, WaitPcs
    <3>3. /\ readers' = [readers EXCEPT ![ref[t]] = @ \ {t}]
          /\ UNCHANGED <<writer, pending>>
      BY <2>4 DEF InstallClient
    <3> QED
      BY <3>1, <3>2, <3>3, LockOperations
  <2>5. CASE StopLock(t) \/ RemoveLock(t) \/ CreateLog(t)
    <3>1. pc[t] \in WaitPcs /\ ref[t] \in Ref
      BY <1>b, <2>5 DEF StopLock, RemoveLock, CreateLog, WaitPcs
    <3>2. \/ Lock(t, ref[t]) /\ Enters(t, ref[t], WritePcs)
          \/ LockUnlock(t, ref[t]) /\ Leaves(t)
      BY <1>a, <2>5, <3>1, InsideFacts DEF StopLock, RemoveLock, CreateLog, TypeOK
    <3> QED
      BY <3>1, <3>2, LockOperations
  <2>6. CASE StopRpc(t) \/ RemoveDelete(t)
    <3>1. pc[t] \in WritePcs /\ Unlock(t, ref[t]) /\ Leaves(t)
      BY <1>a, <2>6, InsideFacts DEF StopRpc, RemoveDelete, TypeOK
    <3> QED
      BY <3>1, LockOperations
  <2>7. CASE RemoveDestroy(t)
    <3>1. Stays(t) \/ (pc[t] \in WritePcs /\ Unlock(t, ref[t]) /\ Leaves(t))
      BY <1>a, <2>7, InsideFacts DEF RemoveDestroy, Stays, TypeOK
    <3> QED
      BY <3>1, LockOperations, StaysHeld DEF BaseInv
  <2>8. CASE StatusLock(t) \/ ContainerLock(t) \/ CreateLock(t) \/ CreateLock2(t)
    <3>1. pc[t] \in WaitPcs /\ ref[t] \in Ref
      BY <1>b, <2>8 DEF StatusLock, ContainerLock, CreateLock, CreateLock2, WaitPcs
    <3>2. (RLock(t, ref[t]) /\ Enters(t, ref[t], ReadPcs)) \/ Stays(t)
      BY <1>a, <2>8, <3>1, InsideFacts
      DEF StatusLock, ContainerLock, CreateLock, CreateLock2, Stays, TypeOK, WaitPcs
    <3> QED
      BY <3>1, <3>2, LockOperations, StaysHeld DEF BaseInv
  <2>9. CASE ListNext(t)
    <3>1. (\E r \in Ref : RLock(t, r) /\ Enters(t, r, ReadPcs)) \/ Stays(t)
      BY <1>a, <2>9, InsideFacts DEF ListNext, Stays, TypeOK
    <3> QED
      BY <3>1, LockOperations, StaysHeld DEF BaseInv
  <2>10. CASE StatusRead(t) \/ ListRead(t) \/ ContainerRpc(t) \/ CreateRpc(t)
    <3>1. pc[t] \in ReadPcs /\ RUnlock(t, ref[t])
      BY <1>5, <2>10, InsideFacts DEF StatusRead, ListRead, ContainerRpc, CreateRpc
    <3>2. Leaves(t)
      BY <1>a, <1>5, <2>10, InsideFacts
      DEF StatusRead, ListRead, ContainerRpc, CreateRpc, WaitPcs, TypeOK
    <3> QED
      BY <3>1, <3>2, LockOperations DEF RUnlock
  <2>11. CASE PreCreateContainer(t)
    <3>1. \/ Stays(t)
          \/ pc[t] \in ReadPcs /\ RUnlock(t, ref[t]) /\ Leaves(t)
          \/ /\ ImagePod /\ pc[t] = "crBoot"
             /\ pc' = [pc EXCEPT ![t] = "provision"]
             /\ UNCHANGED <<readers, writer, pending, ref>>
      BY <1>a, <2>11, InsideFacts DEF PreCreateContainer, WaitPcs, TypeOK
    <3>2. CASE /\ ImagePod /\ pc[t] = "crBoot"
               /\ pc' = [pc EXCEPT ![t] = "provision"]
               /\ UNCHANGED <<readers, writer, pending, ref>>
      BY <1>a, <3>2, InsideFacts DEF LocksHeld, TypeOK
    <3> QED
      BY <3>1, <3>2, LockOperations, StaysHeld DEF BaseInv, RUnlock
  <2>12. CASE MetricsNext(t)
    <3>1. (Finish(t) /\ UNCHANGED locks) \/ UNCHANGED <<locks, pc, ref>>
      BY <1>5, <2>12 DEF MetricsNext
    <3>2. CASE Finish(t) /\ UNCHANGED locks
      <4>1. Stays(t)
        BY <1>a, <3>2, InsideFacts DEF Stays, TypeOK
      <4> QED
        BY <4>1, StaysHeld DEF BaseInv
    <3>3. CASE UNCHANGED <<locks, pc, ref>>
      BY <3>3 DEF LocksHeld, locks
    <3> QED
      BY <3>1, <3>2, <3>3
  <2> QED
    BY <1>5, <2>1, <2>2, <2>3, <2>4, <2>5, <2>6, <2>7, <2>8, <2>9, <2>10, <2>11, <2>12 DEF Step
<1> QED
  BY <1>1, <1>2, <1>3, <1>4, <1>5 DEF Next, Crash, Terminated, vars

\* The invariant behind the theorems below.
LockInv == BaseInv /\ LocksHeld

\* The lock discipline holds in every reachable state.
LEMMA LockInvariant == Spec => []LockInv
<1>1. Init => LocksHeld
  BY InsideFacts DEF Init, LocksHeld
<1>2. LockInv /\ [Next]_vars => LockInv'
  BY LocksStep, BaseStep DEF LockInv
<1> QED
  BY <1>1, <1>2, BaseInit, PTL DEF Spec, LockInv

\* PodData.stateLock does its job: a handler in a critical section holds it in the
\* mode the section needs, and a writer excludes all readers.
THEOREM LocksAreHeld == Spec => []LocksHeld
<1>1. LockInv => LocksHeld
  BY DEF LockInv
<1> QED
  BY LockInvariant, <1>1, PTL

------------------------------------------------------------------------------
(* Clients.                                                                  *)

\* A handler starts a call to the agent only through a client it found.
LEMMA RpcEntry ==
    ASSUME TypeOK, [Next]_vars, ~Die, ~Restart,
           NEW u \in Thread, pc'[u] \in RpcPcs
    PROVE  ref'[u] = ref[u] /\ (pc[u] \in RpcPcs \/ client[ref[u]] # "nil")
<1> USE DEF Goto, Finish, RpcPcs
<1>1. CASE UNCHANGED threads
  BY <1>1 DEF threads
<1>2. ASSUME NEW t \in Thread, Request(t) PROVE ref'[u] = ref[u] /\ pc[u] \in RpcPcs
  <2>1. CASE RunPodSandbox(t) \/ ListPodSandbox(t) \/ GetMetrics(t)
    BY <2>1 DEF RunPodSandbox, ListPodSandbox, GetMetrics, TypeOK
  <2>2. ASSUME NEW ip \in IP, NEW l \in WaitPcs, Lookup(t, ip, l)
        PROVE  ref'[u] = ref[u] /\ pc[u] \in RpcPcs
    BY <2>2 DEF Lookup, WaitPcs, TypeOK
  <2> QED
    BY <1>2, <2>1, <2>2
    DEF Request, StopPodSandbox, RemovePodSandbox, PodSandboxStatus, ContainerCall,
        CreateContainer, WaitPcs
<1>3. ASSUME NEW t \in Thread, Step(t)
      PROVE  ref'[u] = ref[u] /\ (pc[u] \in RpcPcs \/ client[ref[u]] # "nil")
  <2>1. CASE \/ LockCall(t) \/ SetTag(t) \/ Configure(t) \/ InstallClient(t) \/ InsertSandbox(t)
    BY <2>1 DEF LockCall, SetTag, Configure, InstallClient, InsertSandbox, TypeOK, threads
  <2>2. CASE Provision(t) \/ Connect(t)
    <3>1. \/ Finish(t)
          \/ \E l \in {"tag", "configure", "crLog"} : Goto(t, l) /\ UNCHANGED ref
      BY <2>2 DEF Provision, Connect, BootFails
    <3> QED
      BY <3>1 DEF TypeOK
  <2>3. CASE StopLock(t) \/ ContainerLock(t) \/ CreateLock2(t)
    BY <2>3 DEF StopLock, ContainerLock, CreateLock2, TypeOK
  <2>4. CASE StopRpc(t) \/ RemoveLock(t) \/ RemoveDestroy(t) \/ RemoveClose(t) \/ RemoveRelease(t)
             \/ RemoveDelete(t)
    BY <2>4 DEF StopRpc, RemoveLock, RemoveDestroy, RemoveClose, RemoveRelease, RemoveDelete,
                TypeOK
  <2>5. CASE StatusLock(t) \/ StatusRead(t) \/ ListNext(t) \/ ListRead(t) \/ MetricsNext(t)
    BY <2>5 DEF StatusLock, StatusRead, ListNext, ListRead, MetricsNext, TypeOK
  <2>6. CASE ContainerRpc(t) \/ CreateLock(t) \/ PreCreateContainer(t) \/ CreateRpc(t) \/ CreateLog(t)
    BY <2>6 DEF ContainerRpc, CreateLock, PreCreateContainer, CreateRpc, CreateLog, TypeOK
  <2> QED
    BY <1>3, <2>1, <2>2, <2>3, <2>4, <2>5, <2>6 DEF Step
<1> QED
  BY <1>1, <1>2, <1>3 DEF Next, Crash, Terminated, vars

\* Only RemovePod clears a client.
LEMMA ClientKept ==
    ASSUME TypeOK, [Next]_vars, ~Die, ~Restart, \A t \in Thread : ~RemoveClose(t),
           NEW r \in Ref, client[r] # "nil"
    PROVE  client'[r] # "nil"
<1>1. CASE UNCHANGED podData
  BY <1>1 DEF podData
<1>2. ASSUME NEW t \in Thread, RunPodSandbox(t) PROVE client'[r] # "nil"
  <2>1. \/ UNCHANGED podData
        \/ \E s \in Ref : client' = [client EXCEPT ![s] = "fake"]
    BY <1>2 DEF RunPodSandbox, NewPodData
  <2> QED
    BY <1>1, <2>1 DEF TypeOK
<1>3. ASSUME NEW t \in Thread, Configure(t) \/ InstallClient(t) \/ StopRpc(t)
      PROVE  client'[r] # "nil"
  <2>1. \/ UNCHANGED client
        \/ \E c \in {"real", "closed"} : client' = [client EXCEPT ![ref[t]] = c]
    BY <1>3 DEF Configure, InstallClient, StopRpc, NewPodData
  <2> QED
    BY <2>1 DEF TypeOK
<1>4. ASSUME NEW t \in Thread, Request(t) PROVE client'[r] # "nil"
  BY <1>1, <1>2, <1>4
  DEF Request, ListPodSandbox, GetMetrics, StopPodSandbox, RemovePodSandbox, PodSandboxStatus,
      ContainerCall, CreateContainer, Lookup
<1>5. ASSUME NEW t \in Thread, Step(t) PROVE client'[r] # "nil"
  BY <1>1, <1>3, <1>5
  DEF Step, LockCall, Provision, SetTag, Connect, InsertSandbox, StopLock, RemoveLock,
      RemoveDestroy, RemoveRelease, RemoveDelete, StatusLock, StatusRead, ListNext, ListRead,
      MetricsNext, ContainerLock, ContainerRpc, CreateLock, PreCreateContainer, CreateLock2,
      CreateRpc, CreateLog
<1> QED
  BY <1>1, <1>4, <1>5 DEF Next, Crash, Terminated, vars

\* No step clears the client of a sandbox that another handler calls.
LEMMA ClientStep ==
    ASSUME LockInv, ClientStaysDuringCall, [Next]_vars PROVE ClientStaysDuringCall'
<1> USE DEF LockInv, BaseInv, PlaceInv
<1>1. CASE Die
  BY <1>1 DEF Die, ClientStaysDuringCall, RpcPcs
<1>2. CASE Restart
  BY <1>2 DEF Restart, threads, DownIsIdle, ClientStaysDuringCall, RpcPcs
<1>3. ASSUME ~Die, ~Restart, NEW u \in Thread, pc'[u] \in RpcPcs
      PROVE  client'[ref'[u]] # "nil"
  <2>1. ref'[u] = ref[u] /\ client[ref[u]] # "nil"
    BY <1>3, RpcEntry DEF ClientStaysDuringCall
  <2>2. ASSUME NEW t \in Thread, RemoveClose(t) PROVE client'[ref'[u]] # "nil"
    <3>1. /\ pc[t] = "remClose" /\ pc' = [pc EXCEPT ![t] = "remRelease"]
          /\ client' = [client EXCEPT ![ref[t]] = "nil"]
      BY <1>3, <2>2 DEF RemoveClose, Goto
    <3>2. t # u /\ pc'[u] = pc[u]
      BY <1>3, <3>1 DEF RpcPcs, TypeOK
    <3>3. /\ ref[t] \in Ref /\ writer[ref[t]] = t /\ readers[ref[t]] = {}
      BY <3>1, InsideFacts, NoneAssumption DEF LocksHeld, Placed
    <3>4. ref[u] # ref[t]
      BY <1>3, <3>2, <3>3, InsideFacts DEF LocksHeld, RpcPcs
    <3> QED
      BY <2>1, <3>1, <3>4 DEF TypeOK
  <2>3. CASE \A t \in Thread : ~RemoveClose(t)
    <3>1. ref[u] \in Ref
      <4>1. Placed' /\ RpcPcs \subseteq WorkPcs
        BY BaseStep, PcFacts, InsideFacts DEF RpcPcs
      <4> QED
        BY <1>3, <2>1, <4>1 DEF Placed
    <3> QED
      BY <1>3, <2>1, <2>3, <3>1, ClientKept
  <2> QED
    BY <2>2, <2>3
<1> QED
  BY <1>1, <1>2, <1>3 DEF ClientStaysDuringCall

\* A handler that calls the agent of a sandbox does so through a client that no
\* removal has cleared, for any number of handlers and sandboxes.
THEOREM ClientsStay == Spec => []ClientStaysDuringCall
<1>1. Init => ClientStaysDuringCall
  BY DEF Init, ClientStaysDuringCall, RpcPcs
<1>2. LockInv /\ ClientStaysDuringCall /\ [Next]_vars => ClientStaysDuringCall'
  BY ClientStep
<1> QED
  BY <1>1, <1>2, LockInvariant, PTL DEF Spec

------------------------------------------------------------------------------
(* Addresses, when each sandbox is a VM of its own (not ImagePod).            *)

\* A step that changes neither the pool nor what is live, and claims no address.
Passive ==
    /\ UNCHANGED <<ipList, podIp, client>>
    /\ \A u \in Thread : Booting(u)' => Booting(u) /\ arg'[u] = arg[u]
    /\ \A u \in Thread : Releasing(u)' => Releasing(u) /\ ref'[u] = ref[u]

\* A step that neither moves an address nor revives a sandbox keeps the holders apart.
LEMMA PassiveHolds ==
    ASSUME AddressesHeldOnce, Passive PROVE AddressesHeldOnce'
  BY DEF Passive, AddressesHeldOnce, PoolNoDup, OneHolder, Live

\* The steps that are passive in this sense.
LEMMA PassiveSteps ==
    ASSUME TypeOK, ~ImagePod, NEW t \in Thread, ~Die, Request(t) \/ Step(t),
           ~RunPodSandbox(t), ~Configure(t), ~RemoveClose(t), ~RemoveRelease(t)
    PROVE  Passive
<1> USE DEF Passive, Goto, Finish, Booting, Releasing, daemon, podData
<1>0. RunPcs = {"provision", "tag", "connect", "configure"}
  BY InsideFacts
<1>1. CASE ListPodSandbox(t) \/ GetMetrics(t)
  BY <1>0, <1>1 DEF ListPodSandbox, GetMetrics, TypeOK
<1>2. ASSUME NEW ip \in IP, NEW l \in WaitPcs, Lookup(t, ip, l) PROVE Passive
  BY <1>0, <1>2 DEF Lookup, WaitPcs, TypeOK
<1>3. CASE LockCall(t) \/ SetTag(t) \/ InsertSandbox(t)
  BY <1>0, <1>3 DEF LockCall, SetTag, InsertSandbox, TypeOK, threads
<1>4. CASE Provision(t) \/ Connect(t)
  <2>1. \/ Finish(t)
        \/ \E l \in {"tag", "configure"} : Goto(t, l) /\ UNCHANGED <<arg, ref>>
    BY <1>4 DEF Provision, Connect, BootFails
  <2>2. pc[t] \in RunPcs /\ UNCHANGED <<ipList, podIp, client>>
    BY <1>0, <1>4 DEF Provision, Connect
  <2> QED
    BY <1>0, <2>1, <2>2 DEF TypeOK
<1>5. CASE StopLock(t) \/ StopRpc(t) \/ RemoveLock(t) \/ RemoveDestroy(t) \/ RemoveDelete(t)
  BY <1>0, <1>5 DEF StopLock, StopRpc, RemoveLock, RemoveDestroy, RemoveDelete, TypeOK
<1>6. CASE StatusLock(t) \/ StatusRead(t) \/ ListNext(t) \/ ListRead(t)
  BY <1>0, <1>6 DEF StatusLock, StatusRead, ListNext, ListRead, TypeOK
<1>7. CASE MetricsNext(t)
  <2>1. /\ UNCHANGED <<ipList, podIp, client>>
        /\ Finish(t) \/ UNCHANGED <<pc, arg, ref>>
    BY <1>7 DEF MetricsNext
  <2> QED
    BY <1>0, <2>1 DEF TypeOK
<1>8. CASE ContainerLock(t) \/ ContainerRpc(t) \/ CreateLock(t) \/ CreateLock2(t)
  BY <1>0, <1>8 DEF ContainerLock, ContainerRpc, CreateLock, CreateLock2, TypeOK
<1>9. CASE PreCreateContainer(t) \/ CreateRpc(t) \/ CreateLog(t)
  BY <1>0, <1>9 DEF PreCreateContainer, CreateRpc, CreateLog, TypeOK
<1>10. ~InstallClient(t)
  BY PcFacts DEF InstallClient, TypeOK
<1> QED
  BY <1>1, <1>2, <1>3, <1>4, <1>5, <1>6, <1>7, <1>8, <1>9, <1>10
  DEF Request, Step, StopPodSandbox, RemovePodSandbox, PodSandboxStatus, ContainerCall,
      CreateContainer, WaitPcs

\* RunPodSandbox takes an address from the pool into its own hands.
LEMMA RunHolds ==
    ASSUME BaseInv, AddressesHeldOnce, ~ImagePod, NEW t \in Thread, RunPodSandbox(t), ~Die
    PROVE  AddressesHeldOnce'
<1> USE DEF BaseInv
<1>1. /\ ipList # <<>> /\ ipList' = Shift(ipList) /\ pc[t] = "idle"
      /\ arg' = [arg EXCEPT ![t] = Front(ipList)]
      /\ pc' = [pc EXCEPT ![t] = "provision"]
      /\ \A u \in Thread : u # t => ref'[u] = ref[u]
      /\ UNCHANGED <<podIp, client>>
  BY DEF RunPodSandbox, Goto, podData, TypeOK
<1>2. /\ NoDup(Shift(ipList))
      /\ Front(ipList) \in Elems(ipList)
      /\ Front(ipList) \notin Elems(Shift(ipList))
      /\ Elems(Shift(ipList)) \subseteq Elems(ipList)
  BY <1>1, ShiftLemma DEF TypeOK, AddressesHeldOnce, PoolNoDup
<1>3. PoolNoDup'
  BY <1>1, <1>2 DEF PoolNoDup
<1>4. \A u \in Thread : Booting(u)' =>
          \/ Booting(u) /\ u # t /\ arg'[u] = arg[u]
          \/ u = t /\ arg'[u] = Front(ipList)
  BY <1>1, InsideFacts DEF Booting, TypeOK
<1>5. \A u \in Thread : Releasing(u)' => Releasing(u) /\ ref'[u] = ref[u]
  BY <1>1 DEF Releasing, TypeOK
<1>6. OneHolder'
  BY <1>1, <1>2, <1>4, <1>5 DEF OneHolder, AddressesHeldOnce, Live
<1> QED
  BY <1>3, <1>6 DEF AddressesHeldOnce

\* The end of a boot hands the address to the new PodData.
LEMMA ConfigureHolds ==
    ASSUME BaseInv, AddressesHeldOnce, ~ImagePod, NEW t \in Thread, Configure(t)
    PROVE  AddressesHeldOnce'
<1> USE DEF BaseInv
<1>1. /\ pc[t] = "configure" /\ pc' = [pc EXCEPT ![t] = "insert"]
      /\ podIp' = [podIp EXCEPT ![ref[t]] = arg[t]]
      /\ \E c : client' = [client EXCEPT ![ref[t]] = c]
      /\ UNCHANGED <<ipList, arg, ref>>
  BY DEF Configure, NewPodData, Goto, daemon
<1>2. Booting(t) /\ ref[t] \in Ref
  BY <1>1, InsideFacts DEF Booting, PlaceInv, Placed
<1>3. \A r \in Ref : Live(r)' => IF r = ref[t] THEN podIp'[r] = arg[t]
                                              ELSE Live(r) /\ podIp'[r] = podIp[r]
  BY <1>1, <1>2 DEF Live, TypeOK
<1>4. \A u \in Thread : Booting(u)' => Booting(u) /\ u # t
  BY <1>1, <1>2, InsideFacts DEF Booting, TypeOK
<1>5. \A u \in Thread : Releasing(u)' =>
          Releasing(u) /\ u # t /\ podIp'[ref[u]] = podIp[ref[u]]
  <2>1. \A u \in Thread : u # t => ref[u] # ref[t]
    BY <1>2 DEF Booting, PlaceInv, Reserved
  <2> QED
    BY <1>1, <2>1 DEF Releasing, TypeOK
<1>6. OneHolder'
  BY <1>1, <1>2, <1>3, <1>4, <1>5 DEF OneHolder, AddressesHeldOnce
<1> QED
  BY <1>1, <1>6 DEF AddressesHeldOnce, PoolNoDup

\* A removal moves the address from the PodData to the handler and on to the pool.
LEMMA RemoveHolds ==
    ASSUME BaseInv, AddressesHeldOnce, ~ImagePod, NEW t \in Thread,
           RemoveClose(t) \/ RemoveRelease(t), ~Die
    PROVE  AddressesHeldOnce'
<1> USE DEF BaseInv
<1>0. pc[t] \in WritePcs /\ ref[t] \in Ref /\ podIp[ref[t]] \in IP
  BY InsideFacts, PcFacts DEF RemoveClose, RemoveRelease, PlaceInv, Placed
<1>1. CASE RemoveClose(t)
  <2>1. /\ pc[t] = "remClose" /\ client[ref[t]] # "nil"
        /\ client' = [client EXCEPT ![ref[t]] = "nil"]
        /\ pc' = [pc EXCEPT ![t] = "remRelease"]
        /\ UNCHANGED <<ipList, podIp, arg, ref>>
    BY <1>1 DEF RemoveClose, Goto, daemon
  <2>2. Live(ref[t])
    BY <1>0, <2>1, NoneAssumption DEF Live
  <2>3. \A r \in Ref : Live(r)' => Live(r) /\ r # ref[t]
    BY <1>0, <2>1 DEF Live, TypeOK
  <2>4. \A u \in Thread : (Booting(u)' => Booting(u)) /\ (Releasing(u)' => Releasing(u) \/ u = t)
    BY <2>1, InsideFacts DEF Booting, Releasing, TypeOK
  <2>5. OneHolder'
    BY <1>0, <2>1, <2>2, <2>3, <2>4 DEF OneHolder, AddressesHeldOnce
  <2> QED
    BY <2>1, <2>5 DEF AddressesHeldOnce, PoolNoDup
<1>2. CASE RemoveRelease(t)
  <2>1. /\ pc[t] = "remRelease" /\ ipList' = PushBack(ipList, podIp[ref[t]])
        /\ pc' = [pc EXCEPT ![t] = "remDelete"]
        /\ UNCHANGED <<podIp, client, arg, ref>>
    BY <1>2 DEF RemoveRelease, Goto, podData
  <2>2. Releasing(t)
    BY <2>1 DEF Releasing
  <2>3. PoolNoDup' /\ Elems(ipList') = Elems(ipList) \cup {podIp[ref[t]]}
    BY <1>0, <2>1, <2>2, PushBackLemma DEF PoolNoDup, OneHolder, AddressesHeldOnce, TypeOK
  <2>4. \A u \in Thread : (Booting(u)' => Booting(u)) /\ (Releasing(u)' => Releasing(u) /\ u # t)
    BY <2>1, InsideFacts DEF Booting, Releasing, TypeOK
  <2>5. OneHolder'
    BY <2>1, <2>2, <2>3, <2>4 DEF OneHolder, AddressesHeldOnce, Live
  <2> QED
    BY <2>3, <2>5 DEF AddressesHeldOnce
<1> QED
  BY <1>1, <1>2

\* A restart gives every found address to one PodData and leaves it out of the pool.
LEMMA RestartHolds == ASSUME BaseInv, Restart PROVE AddressesHeldOnce'
<1>1. PICK found \in SUBSET IP, err \in BOOLEAN :
          /\ ipList' \in FindAndRemove(Pool, found)
          /\ \E new \in [found -> Ref] : Import(IF err THEN {} ELSE found, new)
  BY DEF Restart
<1>2. PICK new \in [found -> Ref] : Import(IF err THEN {} ELSE found, new)
  BY <1>1
<1> DEFINE kept == IF err THEN {} ELSE found
           of(r) == {ip \in kept : new[ip] = r}
<1>3. /\ podIp' = [r \in Ref |-> IF of(r) = {} THEN None ELSE CHOOSE ip \in of(r) : TRUE]
      /\ client' = [r \in Ref |-> IF of(r) = {} THEN "nil" ELSE "real"]
  BY <1>2 DEF Import
<1>4. NoDup(ipList') /\ Elems(ipList') \cap found = {}
  BY <1>1, PoolAssumption, FindAndRemoveLemma
<1>5. \A r \in Ref : Live(r)' => podIp'[r] \in kept /\ new[podIp'[r]] = r
  <2> SUFFICES ASSUME NEW r \in Ref, Live(r)' PROVE podIp'[r] \in of(r)
    OBVIOUS
  <2> HIDE DEF of
  <2> QED
    BY <1>3 DEF Live
<1>6. \A t \in Thread : ~Booting(t)' /\ ~Releasing(t)'
  BY InsideFacts DEF Restart, threads, BaseInv, PlaceInv, DownIsIdle, Booting, Releasing
<1>7. OneHolder'
  BY <1>4, <1>5, <1>6 DEF OneHolder
<1> QED
  BY <1>4, <1>7 DEF AddressesHeldOnce, PoolNoDup

\* Every step keeps the addresses apart.
LEMMA AddressStep == BaseInv /\ AddressesHeldOnce /\ [Next]_vars => AddressesHeldOnce'
<1> SUFFICES ASSUME BaseInv, AddressesHeldOnce, [Next]_vars, ~ImagePod PROVE AddressesHeldOnce'
  BY DEF AddressesHeldOnce
<1>1. CASE Die
  <2>1. PoolNoDup' /\ Elems(ipList') = {}
    BY <1>1 DEF Die, PoolNoDup, NoDup, Elems
  <2> QED
    BY <1>1, <2>1, InsideFacts
    DEF Die, AddressesHeldOnce, OneHolder, Live, Booting, Releasing
<1>2. CASE UNCHANGED <<daemon, podData, threads>>
  BY <1>2 DEF daemon, podData, threads, AddressesHeldOnce, PoolNoDup, OneHolder, Live,
              Booting, Releasing
<1>3. CASE Restart
  BY <1>3, RestartHolds
<1>4. ASSUME NEW t \in Thread, Request(t) \/ Step(t), ~Die PROVE AddressesHeldOnce'
  BY <1>4, PassiveSteps, PassiveHolds, RunHolds, ConfigureHolds, RemoveHolds DEF BaseInv
<1> QED
  BY <1>1, <1>2, <1>3, <1>4 DEF Next, Crash, Terminated, vars

\* With one VM per sandbox, no pod address is ever held twice: not by two sandboxes,
\* not by a sandbox and the pool, not twice by the pool, across any interleaving of
\* handlers, failed boots, panics and restarts, for a subnet of any size.
THEOREM AddressesUnique == Spec => []AddressesHeldOnce
<1>1. Init => AddressesHeldOnce
  BY PoolAssumption, InsideFacts
  DEF Init, AddressesHeldOnce, PoolNoDup, OneHolder, Live, Booting, Releasing
<1> QED
  BY <1>1, AddressStep, BaseInvariant, PTL DEF Spec

------------------------------------------------------------------------------
(* Boots, instances and the order of a removal.                              *)

\* A step that leaves the instances, the PodData and BootLock as they are, and
\* takes no handler into, out of or along the steps of a boot or a removal.
Calm ==
    /\ UNCHANGED <<instance, owner, doomed, podIp, client, booted, bootLock>>
    /\ \A u \in Thread : pc'[u] \in BootPcs \cup {"install", "remClose", "remRelease"} =>
          pc'[u] = pc[u] /\ arg'[u] = arg[u] /\ ref'[u] = ref[u]

\* The steps that are not calm.
Bold(t) == \/ RunPodSandbox(t) \/ PreCreateContainer(t)
           \/ Provision(t) \/ SetTag(t) \/ Connect(t) \/ Configure(t) \/ InstallClient(t)
           \/ RemoveDestroy(t) \/ RemoveClose(t)

\* All other steps of a running daemon are calm.
LEMMA CalmSteps ==
    ASSUME TypeOK, NEW t \in Thread, ~Die, Request(t) \/ Step(t), ~Bold(t)
    PROVE  Calm
<1> USE DEF Calm, Goto, Finish, daemon, podData, cloud, locks, BootPcs
<1>1. CASE ListPodSandbox(t) \/ GetMetrics(t)
  BY <1>1 DEF ListPodSandbox, GetMetrics, TypeOK
<1>2. ASSUME NEW ip \in IP, NEW l \in WaitPcs, Lookup(t, ip, l) PROVE Calm
  BY <1>2 DEF Lookup, WaitPcs, TypeOK
<1>3. CASE LockCall(t) \/ InsertSandbox(t)
  BY <1>3 DEF LockCall, InsertSandbox, TypeOK, threads
<1>4. CASE StopLock(t) \/ StopRpc(t) \/ RemoveLock(t)
  BY <1>4 DEF StopLock, StopRpc, RemoveLock, Lock, LockUnlock, Unlock, TypeOK
<1>5. CASE RemoveRelease(t) \/ RemoveDelete(t)
  BY <1>5 DEF RemoveRelease, RemoveDelete, Unlock, TypeOK
<1>6. CASE StatusLock(t) \/ StatusRead(t) \/ ListNext(t) \/ ListRead(t)
  BY <1>6 DEF StatusLock, StatusRead, ListNext, ListRead, RLock, RUnlock, TypeOK
<1>7. CASE MetricsNext(t)
  <2>1. /\ UNCHANGED <<instance, owner, doomed, podIp, client, booted, bootLock>>
        /\ Finish(t) \/ UNCHANGED <<pc, arg, ref>>
    BY <1>7 DEF MetricsNext
  <2>2. pc[t] = "metrics"
    BY <1>7 DEF MetricsNext
  <2> QED
    BY <2>1, <2>2 DEF TypeOK
<1>8. CASE ContainerLock(t) \/ ContainerRpc(t) \/ CreateLock(t) \/ CreateLock2(t)
  BY <1>8 DEF ContainerLock, ContainerRpc, CreateLock, CreateLock2, RLock, RUnlock, TypeOK
<1>9. CASE CreateRpc(t) \/ CreateLog(t)
  BY <1>9 DEF CreateRpc, CreateLog, RUnlock, LockUnlock, TypeOK
<1> QED
  BY <1>1, <1>2, <1>3, <1>4, <1>5, <1>6, <1>7, <1>8, <1>9
  DEF Request, Step, Bold, StopPodSandbox, RemovePodSandbox, PodSandboxStatus, ContainerCall,
      CreateContainer, WaitPcs

\* The handlers other than t stay where they are.
Others(t) == \A u \in Thread : u # t => pc'[u] = pc[u] /\ arg'[u] = arg[u] /\ ref'[u] = ref[u]

\* A boot in PreCreateContainer holds BootLock to its end, and Booted is only set
\* under it.
BootInv ==
    ImagePod => \A t \in Thread :
        /\ pc[t] \in BootPcs \cup {"install"} => bootLock[ref[t]] = t
        /\ pc[t] \in BootPcs => ~booted[ref[t]]

\* A step of a boot that succeeds, or one of its ends.
LEMMA BootOutcome ==
    ASSUME TypeOK, ImagePod, NEW t \in Thread, Provision(t) \/ SetTag(t) \/ Connect(t)
    PROVE  /\ Others(t) /\ UNCHANGED booted
           /\ pc[t] \in BootPcs
           /\ \/ /\ pc'[t] \in BootPcs /\ ref'[t] = ref[t] /\ UNCHANGED bootLock
              \/ /\ pc'[t] = "crLog"
                 /\ bootLock' = [bootLock EXCEPT ![ref[t]] = None]
<1>1. CASE Provision(t)
  BY <1>1 DEF Provision, BootFails, Goto, Others, BootPcs, TypeOK, podData, locks
<1>2. CASE SetTag(t)
  BY <1>2 DEF SetTag, Goto, Others, BootPcs, TypeOK, podData, locks
<1>3. CASE Connect(t)
  BY <1>3 DEF Connect, BootFails, Goto, Others, BootPcs, TypeOK, podData, locks
<1> QED
  BY <1>1, <1>2, <1>3

\* Every step keeps it.
LEMMA BootInvStep == BaseInv /\ BootInv /\ [Next]_vars => BootInv'
<1> SUFFICES ASSUME BaseInv, BootInv, [Next]_vars, ImagePod PROVE BootInv'
  BY DEF BootInv
<1>t. TypeOK /\ \A u \in Thread : pc[u] \in BootPcs \cup {"install"} => ref[u] \in Ref
  BY PcFacts DEF BaseInv, PlaceInv, Placed
<1>1. CASE Die
  BY <1>1 DEF Die, BootInv, BootPcs
<1>2. CASE Restart
  BY <1>2 DEF Restart, threads, BaseInv, PlaceInv, DownIsIdle, BootInv, BootPcs
<1>3. CASE UNCHANGED <<threads, podData, locks>>
  BY <1>3 DEF threads, podData, locks, BootInv
<1>4. CASE Calm
  BY <1>4 DEF Calm, BootInv
<1>5. ASSUME NEW t \in Thread, Bold(t), ~Die PROVE BootInv'
  <2>1. CASE RunPodSandbox(t)
    <3>1. PICK r \in Ref :
             /\ Free(r) /\ NewPodData(r, Front(ipList), "fake", FALSE)
             /\ Goto(t, "insert") /\ ref' = [ref EXCEPT ![t] = r]
             /\ UNCHANGED locks
      BY <1>5, <2>1 DEF RunPodSandbox
    <3> QED
      BY <1>t, <3>1 DEF Goto, NewPodData, locks, BootInv, BootPcs, TypeOK
  <2>2. CASE PreCreateContainer(t)
    <3>1. /\ pc[t] = "crBoot" /\ bootLock[ref[t]] = None
          /\ UNCHANGED <<booted, ref>>
          /\ \/ /\ UNCHANGED bootLock
                /\ \E l \in {"crLock2", "crLog"} : pc' = [pc EXCEPT ![t] = l]
             \/ /\ ~booted[ref[t]]
                /\ bootLock' = [bootLock EXCEPT ![ref[t]] = t]
                /\ pc' = [pc EXCEPT ![t] = "provision"]
      BY <2>2 DEF PreCreateContainer, RUnlock, Goto, podData
    <3>2. ref[t] \in Ref
      BY <3>1, PcFacts DEF BaseInv, PlaceInv, Placed
    <3> QED
      BY <1>t, <3>1, <3>2, NoneAssumption DEF BootInv, BootPcs, TypeOK
  <2>3. CASE Provision(t) \/ SetTag(t) \/ Connect(t)
    <3>1. \A u \in Thread : u # t /\ pc[u] \in BootPcs \cup {"install"} => ref[u] # ref[t]
      BY <2>3, BootOutcome, <1>t DEF BootInv
    <3> QED
      BY <1>t, <2>3, <3>1, BootOutcome DEF BootInv, Others, BootPcs, TypeOK
  <2>4. CASE Configure(t)
    <3>1. /\ pc[t] = "configure" /\ pc' = [pc EXCEPT ![t] = "install"]
          /\ booted' = [booted EXCEPT ![ref[t]] = TRUE]
          /\ UNCHANGED <<bootLock, ref>>
      BY <2>4 DEF Configure, Goto, locks
    <3>2. \A u \in Thread : u # t /\ pc[u] \in BootPcs \cup {"install"} => ref[u] # ref[t]
      BY <3>1 DEF BootInv, BootPcs
    <3> QED
      BY <1>t, <3>1, <3>2 DEF BootInv, BootPcs, TypeOK
  <2>5. CASE InstallClient(t)
    <3>1. /\ pc[t] = "install" /\ pc' = [pc EXCEPT ![t] = "crLock2"]
          /\ bootLock' = [bootLock EXCEPT ![ref[t]] = None]
          /\ UNCHANGED <<booted, ref>>
      BY <2>5 DEF InstallClient, Goto
    <3>2. \A u \in Thread : u # t /\ pc[u] \in BootPcs \cup {"install"} => ref[u] # ref[t]
      BY <3>1 DEF BootInv
    <3> QED
      BY <1>t, <3>1, <3>2 DEF BootInv, BootPcs, TypeOK
  <2>6. CASE RemoveDestroy(t) \/ RemoveClose(t)
    <3>1. /\ UNCHANGED <<bootLock, booted>> /\ Others(t)
          /\ pc'[t] \notin BootPcs \cup {"install"}
      BY <1>5, <2>6, <1>t
      DEF RemoveDestroy, RemoveClose, Unlock, Goto, Finish, locks, podData, Others, BootPcs, TypeOK
    <3> QED
      BY <3>1 DEF BootInv, Others
  <2> QED
    BY <1>5, <2>1, <2>2, <2>3, <2>4, <2>5, <2>6 DEF Bold
<1> QED
  BY <1>t, <1>1, <1>2, <1>3, <1>4, <1>5, CalmSteps DEF Next, Crash, Terminated, vars

\* An image pod is booted by one CreateContainer at a time and never again, for any
\* number of handlers, although Booted is written under the read lock only.
THEOREM ImagesBootOnce == Spec => []BootedOnce
<1>1. Init => BootInv
  BY DEF Init, BootInv, BootPcs
<1>2. BaseInv /\ BootInv => BootedOnce
  BY DEF BootInv, BootedOnce
<1> QED
  BY <1>1, <1>2, BootInvStep, BaseInvariant, PTL DEF Spec

\* A handler past Provision, whose instance no PodData knows yet.
Provisioned(t) == pc[t] \in {"tag", "connect", "configure"}

\* Who may name an instance: nobody names one that is gone, nor one that is still
\* being set up, and no two handlers set up the same one.
Instances ==
    /\ \A ip \in IP : instance[ip] \in Down => owner[ip] = None
    /\ \A t \in Thread : Provisioned(t) => instance[arg[t]] \notin Down /\ owner[arg[t]] = None
    /\ \A t, u \in Thread : Provisioned(t) /\ Provisioned(u) /\ arg[t] = arg[u] => t = u
    /\ \A t \in Thread : pc[t] = "install" => instance[arg[t]] \notin Down /\ owner[arg[t]] = ref[t]

CloudInv == LockInv /\ Instances /\ LiveHasInstance

\* The points a handler passes through while it boots or removes; where it works.
LEMMA CloudFacts ==
    ASSUME LockInv
    PROVE  /\ TypeOK
           /\ \A t \in Thread : pc[t] \in BootPcs \cup {"install", "crBoot", "remDestroy", "remClose", "remRelease"} =>
                 ref[t] \in Ref /\ arg[t] \in IP
           /\ \A t \in Thread : pc[t] \in {"install", "crBoot", "remDestroy", "remClose", "remRelease"} =>
                 podIp[ref[t]] = arg[t]
           /\ ImagePod => \A t \in Thread : pc[t] \in BootPcs => podIp[ref[t]] = arg[t]
<1>1. TypeOK /\ Placed
  BY DEF LockInv, BaseInv, PlaceInv
<1>2. {"crBoot", "remDestroy", "remClose", "remRelease"} \subseteq WorkPcs
  BY InsideFacts, PcFacts
<1>3. \A t \in Thread : pc[t] = "install" => pc[t] \in WorkPcs
  BY <1>1, PcFacts DEF TypeOK
<1> QED
  BY <1>1, <1>2, <1>3, PcFacts DEF Placed, BootPcs

\* A removal is alone with its sandbox: nobody else removes it, nobody boots it.
LEMMA RemovalAlone ==
    ASSUME LockInv, NEW t \in Thread, pc[t] \in RemovePcs,
           NEW u \in Thread, u # t, pc[u] \in RemovePcs \cup {"install"}
    PROVE  ref[u] # ref[t]
<1>1. TypeOK /\ Placed /\ LocksHeld
  BY DEF LockInv, BaseInv, PlaceInv
<1>2. writer[ref[t]] = t /\ ref[t] \in Ref
  BY <1>1, InsideFacts, PcFacts DEF LocksHeld, Placed, WritePcs
<1>3. pc[u] = "install" => u \in readers[ref[u]]
  BY <1>1, InsideFacts, PcFacts DEF LocksHeld, TypeOK
<1>4. pc[u] \in RemovePcs => writer[ref[u]] = u
  BY <1>1 DEF LocksHeld, WritePcs
<1> QED
  BY <1>1, <1>2, <1>3, <1>4, NoneAssumption DEF LocksHeld

\* Calm steps keep the instances and their PodData together.
LEMMA CalmCloud == ASSUME CloudInv, Calm PROVE Instances' /\ LiveHasInstance'
<1>1. Instances'
  BY DEF CloudInv, Instances, Provisioned, Calm, BootPcs
<1>2. LiveHasInstance'
  <2> SUFFICES ASSUME NEW r \in Ref, Live(r)', booted'[r],
                      r \notin doomed'
               PROVE  instance'[podIp'[r]] \notin Down /\ owner'[podIp'[r]] = r
    BY DEF LiveHasInstance
  <2>1. Live(r) /\ booted[r] /\ r \notin doomed
    BY DEF Live, Calm
  <2> QED
    BY <2>1 DEF CloudInv, LiveHasInstance, Calm
<1> QED
  BY <1>1, <1>2

\* The steps of a boot up to Connect: an instance appears, and its owner is the
\* handler alone.
LEMMA BootCloud ==
    ASSUME CloudInv, NEW t \in Thread, Provision(t) \/ SetTag(t) \/ Connect(t)
    PROVE  Instances' /\ LiveHasInstance'
<1>t. /\ TypeOK /\ Instances /\ LiveHasInstance
      /\ pc[t] \in {"provision", "tag", "connect"} /\ arg[t] \in IP /\ ref[t] \in Ref
  BY CloudFacts DEF CloudInv, Provision, SetTag, Connect, BootPcs
<1>1. /\ Others(t)
      /\ UNCHANGED <<podIp, client, booted, owner, doomed>>
      /\ pc'[t] \in {"idle", "crLog"} \/ (Provisioned(t)' /\ UNCHANGED <<arg, ref>>)
  <2>1. CASE Provision(t)
    BY <1>t, <2>1 DEF Provision, BootFails, Goto, Finish, Others, Provisioned, TypeOK, podData
  <2>2. CASE SetTag(t)
    BY <1>t, <2>2 DEF SetTag, Goto, Others, Provisioned, TypeOK, podData
  <2>3. CASE Connect(t)
    BY <1>t, <2>3 DEF Connect, BootFails, Goto, Finish, Others, Provisioned, TypeOK, podData, cloud
  <2> QED
    BY <2>1, <2>2, <2>3
<1>2. \/ /\ instance[arg[t]] = "absent" /\ pc[t] = "provision"
         /\ instance' = [instance EXCEPT ![arg[t]] = "untagged"]
      \/ /\ Provisioned(t) \/ ~Provisioned(t)'
         /\ UNCHANGED instance \/ (Provisioned(t) /\ instance' = [instance EXCEPT ![arg[t]] = "tagged"])
  <2>1. CASE Provision(t)
    BY <1>t, <2>1 DEF Provision, BootFails, Goto, Finish, Provisioned, TypeOK
  <2>2. CASE SetTag(t) \/ Connect(t)
    BY <2>2 DEF SetTag, Connect, Provisioned, cloud
  <2> QED
    BY <2>1, <2>2
<1>3. /\ \A ip \in IP : instance[ip] \notin Down => instance'[ip] \notin Down
      /\ Provisioned(t)' => instance'[arg[t]] \notin Down
      /\ \A ip \in IP : ip # arg[t] => instance'[ip] = instance[ip]
      /\ Provisioned(t)' => owner[arg[t]] = None
      /\ instance'[arg[t]] \in Down => instance[arg[t]] \in Down
      /\ Provisioned(t)' => Provisioned(t) \/ instance[arg[t]] \in Down
  BY <1>t, <1>2 DEF Instances, TypeOK, Down
<1>4. \A u \in Thread : Provisioned(u) \/ pc[u] = "install" => arg[u] \in IP /\ ref[u] \in Ref
  BY CloudFacts DEF CloudInv, Provisioned, BootPcs
<1>5. \A u \in Thread : u # t => (Provisioned(u)' <=> Provisioned(u))
  BY <1>1 DEF Others, Provisioned
<1>6. Instances'
  <2>1. \A ip \in IP : instance'[ip] \in Down => owner'[ip] = None
    BY <1>t, <1>1, <1>3 DEF Instances
  <2>2. \A u \in Thread : Provisioned(u)' => instance'[arg'[u]] \notin Down /\ owner'[arg'[u]] = None
    BY <1>t, <1>1, <1>3, <1>4, <1>5 DEF Instances, Others, Provisioned
  <2>3. \A u \in Thread : u # t /\ Provisioned(u) /\ Provisioned(t)' => arg[u] # arg[t]
    BY <1>t, <1>3 DEF Instances
  <2>4. \A u, v \in Thread : Provisioned(u)' /\ Provisioned(v)' /\ arg'[u] = arg'[v] => u = v
    BY <1>t, <1>1, <1>5, <2>3 DEF Instances, Others, Provisioned
  <2>5. \A u \in Thread : pc'[u] = "install" => instance'[arg'[u]] \notin Down /\ owner'[arg'[u]] = ref'[u]
    BY <1>t, <1>1, <1>3, <1>4 DEF Instances, Others, Provisioned
  <2> QED
    BY <2>1, <2>2, <2>4, <2>5 DEF Instances
<1>7. LiveHasInstance'
  <2> SUFFICES ASSUME NEW r \in Ref, Live(r)', booted'[r],
                      r \notin doomed'
               PROVE  instance'[podIp'[r]] \notin Down /\ owner'[podIp'[r]] = r
    BY DEF LiveHasInstance
  <2>1. Live(r) /\ booted[r] /\ r \notin doomed
    BY <1>t, <1>1 DEF Live, Others
  <2>2. podIp[r] \in IP
    BY <1>t, <2>1 DEF Live, TypeOK
  <2> QED
    BY <1>t, <1>1, <1>3, <2>1, <2>2 DEF LiveHasInstance
<1> QED
  BY <1>6, <1>7

\* Configure hands the instance from the handler to the PodData.
LEMMA ConfigureCloud ==
    ASSUME CloudInv, NEW t \in Thread, Configure(t)
    PROVE  Instances' /\ LiveHasInstance'
<1>t. /\ TypeOK /\ Instances /\ LiveHasInstance
      /\ pc[t] = "configure" /\ arg[t] \in IP /\ ref[t] \in Ref
  BY CloudFacts DEF CloudInv, Configure, BootPcs
<1>1. /\ Others(t) /\ UNCHANGED <<arg, ref>>
      /\ pc'[t] = IF ImagePod THEN "install" ELSE "insert"
      /\ owner' = [owner EXCEPT ![arg[t]] = ref[t]] /\ UNCHANGED doomed
      /\ \A ip \in IP : instance[ip] \notin Down <=> instance'[ip] \notin Down
  BY <1>t DEF Configure, Goto, Others, TypeOK, Down
<1>2. instance[arg[t]] \notin Down /\ owner[arg[t]] = None
  BY <1>t DEF Instances, Provisioned
<1>3. podIp'[ref[t]] = arg[t]
  BY <1>t, CloudFacts DEF Configure, NewPodData, TypeOK, CloudInv, BootPcs
<1>4. \A r \in Ref : r # ref[t] =>
          podIp'[r] = podIp[r] /\ client'[r] = client[r] /\ booted'[r] = booted[r]
  BY <1>t DEF Configure, NewPodData, TypeOK
<1>5. \A u \in Thread : Provisioned(u) \/ pc[u] = "install" => arg[u] \in IP /\ ref[u] \in Ref
  BY CloudFacts DEF CloudInv, Provisioned, BootPcs
<1>6. Instances'
  <2>1. \A ip \in IP : instance'[ip] \in Down => owner'[ip] = None
    BY <1>t, <1>1, <1>2 DEF Instances, TypeOK
  <2>2. \A u \in Thread : Provisioned(u)' => Provisioned(u) /\ u # t /\ arg[u] # arg[t]
    BY <1>t, <1>1 DEF Instances, Others, Provisioned
  <2>3. \A u \in Thread : u # t /\ pc[u] = "install" => arg[u] # arg[t]
    BY <1>t, <1>2, <1>5, NoneAssumption DEF Instances
  <2>4. \A u \in Thread : pc'[u] = "install" => instance'[arg'[u]] \notin Down /\ owner'[arg'[u]] = ref'[u]
    BY <1>t, <1>1, <1>2, <1>5, <2>3 DEF Instances, Others, TypeOK
  <2>5. \A u \in Thread : Provisioned(u)' => instance'[arg'[u]] \notin Down /\ owner'[arg'[u]] = None
    BY <1>t, <1>1, <1>5, <2>2 DEF Instances, TypeOK
  <2> QED
    BY <1>t, <1>1, <2>1, <2>2, <2>4, <2>5 DEF Instances
<1>7. LiveHasInstance'
  <2> SUFFICES ASSUME NEW r \in Ref, Live(r)', booted'[r],
                      r \notin doomed'
               PROVE  instance'[podIp'[r]] \notin Down /\ owner'[podIp'[r]] = r
    BY DEF LiveHasInstance
  <2>1. CASE r = ref[t]
    BY <1>t, <1>1, <1>2, <1>3, <2>1 DEF TypeOK
  <2>2. CASE r # ref[t]
    <3>1. Live(r) /\ booted[r] /\ r \notin doomed
      BY <1>t, <1>1, <1>4, <2>2 DEF Live, Others
    <3>2. podIp[r] \in IP /\ instance[podIp[r]] \notin Down /\ owner[podIp[r]] = r
      BY <1>t, <3>1 DEF Live, TypeOK, LiveHasInstance
    <3> QED
      BY <1>t, <1>1, <1>2, <1>4, <2>2, <3>2, NoneAssumption DEF TypeOK
  <2> QED
    BY <2>1, <2>2
<1> QED
  BY <1>6, <1>7

\* The other steps of image pods: the client comes after the instance.
LEMMA ImageCloud ==
    ASSUME CloudInv, NEW t \in Thread, PreCreateContainer(t) \/ InstallClient(t)
    PROVE  Instances' /\ LiveHasInstance'
<1>t. /\ TypeOK /\ Instances /\ LiveHasInstance /\ ref[t] \in Ref /\ podIp[ref[t]] = arg[t]
  BY CloudFacts DEF CloudInv, PreCreateContainer, InstallClient
<1>1. /\ pc[t] \in {"crBoot", "install"}
      /\ \E l \in {"crLock2", "crLog", "provision"} : pc' = [pc EXCEPT ![t] = l]
      /\ UNCHANGED <<instance, owner, doomed, podIp, booted, arg, ref>>
      /\ \/ UNCHANGED client
         \/ /\ pc[t] = "install"
            /\ \E c \in {"real", "closed"} : client' = [client EXCEPT ![ref[t]] = c]
  BY DEF PreCreateContainer, InstallClient, Goto, cloud, podData
<1>2. /\ \A u \in Thread : Provisioned(u)' => Provisioned(u)
      /\ \A u \in Thread : pc'[u] = "install" => pc[u] = "install"
  BY <1>t, <1>1 DEF Provisioned, TypeOK
<1>3. Instances'
  BY <1>t, <1>1, <1>2 DEF Instances
<1>4. LiveHasInstance'
  <2> SUFFICES ASSUME NEW r \in Ref, Live(r)', booted'[r],
                      r \notin doomed'
               PROVE  instance'[podIp'[r]] \notin Down /\ owner'[podIp'[r]] = r
    BY DEF LiveHasInstance
  <2>1. CASE r = ref[t] /\ pc[t] = "install"
    BY <1>t, <1>1, <2>1 DEF Instances
  <2>2. CASE ~(r = ref[t] /\ pc[t] = "install")
    <3>1. Live(r) /\ booted[r] /\ r \notin doomed
      BY <1>t, <1>1, <1>2, <2>2 DEF Live, TypeOK
    <3> QED
      BY <1>t, <1>1, <3>1 DEF LiveHasInstance
  <2> QED
    BY <2>1, <2>2
<1> QED
  BY <1>3, <1>4

\* Destroy hits only the instance of the sandbox that is removed, and no boot of it
\* is under way.
LEMMA DestroyCloud ==
    ASSUME CloudInv, NEW t \in Thread, RemoveDestroy(t) \/ RemoveClose(t), ~Die
    PROVE  Instances' /\ LiveHasInstance'
<1>t. /\ TypeOK /\ LockInv /\ Instances /\ LiveHasInstance
      /\ ref[t] \in Ref /\ pc[t] \in {"remDestroy", "remClose"}
  BY CloudFacts DEF CloudInv, RemoveDestroy, RemoveClose
<1>1. /\ Others(t)
      /\ pc'[t] \in {"idle", "remClose", "remRelease"}
      /\ UNCHANGED <<podIp, booted>>
  BY <1>t DEF RemoveDestroy, RemoveClose, Finish, Goto, Others, TypeOK, podData
<1>2. \A u \in Thread : /\ Provisioned(u)' => Provisioned(u) /\ u # t
                        /\ pc'[u] = "install" => pc[u] = "install" /\ u # t
  BY <1>1 DEF Others, Provisioned
<1>3. \A u \in Thread : Provisioned(u) \/ pc[u] = "install" => arg[u] \in IP /\ ref[u] \in Ref
  BY <1>t, CloudFacts DEF Provisioned, BootPcs
<1>4. CASE UNCHANGED cloud
  <2>1. Instances'
    BY <1>t, <1>1, <1>2, <1>4 DEF Instances, Others, cloud, Provisioned
  <2>2. \A r \in Ref : client'[r] # "nil" => client[r] # "nil"
    BY <1>t DEF RemoveDestroy, RemoveClose, podData, TypeOK
  <2>3. LiveHasInstance'
    <3> SUFFICES ASSUME NEW r \in Ref, Live(r)', booted'[r],
                        r \notin doomed'
                 PROVE  instance'[podIp'[r]] \notin Down /\ owner'[podIp'[r]] = r
      BY DEF LiveHasInstance
    <3>1. Live(r) /\ booted[r] /\ r \notin doomed
      BY <1>t, <1>1, <1>4, <2>2 DEF Live, cloud
    <3> QED
      BY <1>t, <1>1, <1>4, <3>1 DEF LiveHasInstance, cloud
  <2> QED
    BY <2>1, <2>3
<1>5. CASE pc[t] = "remDestroy" /\ UNCHANGED client /\ Terminate(ref[t])
  <2> USE DEF Terminate
  <2>1. \A u \in Thread : u # t /\ pc[u] = "install" => ref[u] # ref[t]
    BY <1>t, RemovalAlone DEF RemovePcs
  <2>a. \A ip \in IP : instance'[ip] \in Down => owner'[ip] = None
    BY <1>t, <1>5 DEF Instances, Down
  <2>b. \A u \in Thread : Provisioned(u)' => instance'[arg'[u]] \notin Down /\ owner'[arg'[u]] = None
    BY <1>t, <1>1, <1>2, <1>3, <1>5, NoneAssumption DEF Instances, Others
  <2>c. \A u, v \in Thread : Provisioned(u)' /\ Provisioned(v)' /\ arg'[u] = arg'[v] => u = v
    BY <1>t, <1>1, <1>2 DEF Instances, Others
  <2>d. \A u \in Thread : pc'[u] = "install" => instance'[arg'[u]] \notin Down /\ owner'[arg'[u]] = ref'[u]
    BY <1>t, <1>1, <1>2, <1>3, <1>5, <2>1 DEF Instances, Others
  <2>3. Instances'
    BY <2>a, <2>b, <2>c, <2>d DEF Instances
  <2>4. LiveHasInstance'
    <3> SUFFICES ASSUME NEW r \in Ref, Live(r)', booted'[r],
                        r \notin doomed'
                 PROVE  instance'[podIp'[r]] \notin Down /\ owner'[podIp'[r]] = r
      BY DEF LiveHasInstance
    <3>1. r # ref[t] /\ Live(r) /\ booted[r] /\ r \notin doomed
      BY <1>t, <1>1, <1>5 DEF Live
    <3>2. podIp[r] \in IP /\ instance[podIp[r]] \notin Down /\ owner[podIp[r]] = r
      BY <1>t, <3>1 DEF Live, TypeOK, LiveHasInstance
    <3> QED
      BY <1>1, <1>5, <3>1, <3>2
  <2> QED
    BY <2>3, <2>4
<1> QED
  BY <1>4, <1>5 DEF RemoveDestroy, RemoveClose, podData

\* A new sandbox has no instance yet, and nobody has its reference.
LEMMA RunCloud ==
    ASSUME CloudInv, NEW t \in Thread, RunPodSandbox(t), ~Die
    PROVE  Instances' /\ LiveHasInstance'
<1>t. TypeOK /\ Instances /\ LiveHasInstance
  BY CloudFacts DEF CloudInv
<1>1. PICK r \in Ref :
         /\ pc[t] = "idle"
         /\ ref' = [ref EXCEPT ![t] = r] /\ arg' = [arg EXCEPT ![t] = Front(ipList)]
         /\ pc' = [pc EXCEPT ![t] = IF ImagePod THEN "insert" ELSE "provision"]
         /\ IF ImagePod THEN NewPodData(r, Front(ipList), "fake", FALSE) ELSE UNCHANGED podData
         /\ Free(r) /\ doomed' = doomed \ {r} /\ UNCHANGED <<instance, owner>>
  BY DEF RunPodSandbox, Goto
<1>2. /\ Others(t) /\ \A u \in Thread : Provisioned(u)' => Provisioned(u) /\ u # t
      /\ \A u \in Thread : pc'[u] = "install" => pc[u] = "install" /\ u # t
  BY <1>t, <1>1 DEF Others, Provisioned, TypeOK
<1>3. Instances'
  BY <1>t, <1>1, <1>2 DEF Instances, Others
<1>4. LiveHasInstance'
  <2> SUFFICES ASSUME NEW s \in Ref, Live(s)', booted'[s],
                      s \notin doomed'
               PROVE  instance'[podIp'[s]] \notin Down /\ owner'[podIp'[s]] = s
    BY DEF LiveHasInstance
  <2>1. podIp'[s] = podIp[s] /\ client'[s] = client[s] /\ booted[s]
    BY <1>t, <1>1 DEF NewPodData, podData, TypeOK
  <2>2. Live(s) /\ s \notin doomed
    BY <1>1, <2>1 DEF Live, Free
  <2> QED
    BY <1>t, <1>1, <2>1, <2>2 DEF LiveHasInstance
<1> QED
  BY <1>3, <1>4

\* The import takes over instances that are there, each for its own PodData.
LEMMA RestartCloud == ASSUME CloudInv, Restart PROVE Instances' /\ LiveHasInstance'
<1>1. PICK found \in SUBSET {ip \in IP : instance[ip] = "ready"}, err \in BOOLEAN :
          \E new \in [found -> Ref] : Import(IF err THEN {} ELSE found, new)
  BY DEF Restart
<1>2. PICK new \in [found -> Ref] : Import(IF err THEN {} ELSE found, new)
  BY <1>1
<1> DEFINE kept == IF err THEN {} ELSE found
           of(r) == {ip \in kept : new[ip] = r}
<1>3. /\ podIp' = [r \in Ref |-> IF of(r) = {} THEN None ELSE CHOOSE ip \in of(r) : TRUE]
      /\ client' = [r \in Ref |-> IF of(r) = {} THEN "nil" ELSE "real"]
      /\ owner' = [ip \in IP |-> IF ip \in kept THEN new[ip] ELSE None]
      /\ UNCHANGED instance
  BY <1>2 DEF Import, Restart
<1>4. \A ip \in kept : ip \in IP /\ instance[ip] = "ready"
  OBVIOUS
<1>5. \A r \in Ref : Live(r)' => podIp'[r] \in kept /\ new[podIp'[r]] = r
  <2> SUFFICES ASSUME NEW r \in Ref, Live(r)' PROVE podIp'[r] \in of(r)
    OBVIOUS
  <2> HIDE DEF of
  <2> QED
    BY <1>3 DEF Live
<1>6. \A u \in Thread : pc'[u] = "idle"
  BY DEF Restart, threads, CloudInv, LockInv, BaseInv, PlaceInv, DownIsIdle
<1> HIDE DEF kept
<1>7. Instances'
  BY <1>3, <1>4, <1>6 DEF Instances, Provisioned, Down
<1>8. LiveHasInstance'
  BY <1>3, <1>4, <1>5 DEF LiveHasInstance, Down
<1> QED
  BY <1>7, <1>8

\* The end of a termination concerns an instance nobody names.
LEMMA TerminatedCloud ==
    ASSUME CloudInv, NEW ip \in IP, Terminated(ip)
    PROVE  Instances' /\ LiveHasInstance'
<1>1. /\ TypeOK /\ Instances /\ LiveHasInstance
      /\ \A i \in IP : instance'[i] \in Down <=> instance[i] \in Down
      /\ UNCHANGED <<podIp, client, booted, owner, doomed, pc, arg, ref>>
  BY CloudFacts DEF CloudInv, Terminated, Down, TypeOK, podData, threads
<1>2. \A t \in Thread : Provisioned(t) \/ pc[t] = "install" => arg[t] \in IP
  BY CloudFacts DEF CloudInv, Provisioned, BootPcs
<1>3. Instances'
  BY <1>1, <1>2 DEF Instances, Provisioned
<1>4. LiveHasInstance'
  BY <1>1 DEF LiveHasInstance, Live, TypeOK
<1> QED
  BY <1>3, <1>4

\* Every step keeps the instances and their PodData together.
LEMMA CloudStep == CloudInv /\ [Next]_vars => CloudInv'
<1> SUFFICES ASSUME CloudInv, [Next]_vars PROVE CloudInv'
  OBVIOUS
<1>t. TypeOK /\ LockInv'
  BY BaseStep, LocksStep DEF CloudInv, LockInv, BaseInv
<1>1. CASE Die
  <2>1. Instances'
    BY <1>1 DEF Die, Instances, Provisioned
  <2>2. LiveHasInstance'
    BY <1>1 DEF Die, LiveHasInstance, Live
  <2> QED
    BY <1>t, <2>1, <2>2 DEF CloudInv
<1>2. CASE Restart
  BY <1>t, <1>2, RestartCloud DEF CloudInv
<1>3. CASE UNCHANGED vars
  <2>1. Calm
    BY <1>3 DEF vars, threads, podData, locks, cloud, Calm
  <2> QED
    BY <1>t, <2>1, CalmCloud DEF CloudInv
<1>4. ASSUME NEW t \in Thread, Request(t) \/ Step(t), ~Die PROVE CloudInv'
  BY <1>t, <1>4, CalmSteps, CalmCloud, RunCloud, ImageCloud, BootCloud, ConfigureCloud, DestroyCloud
  DEF CloudInv, Bold
<1>5. ASSUME NEW ip \in IP, Terminated(ip) PROVE CloudInv'
  BY <1>t, <1>5, TerminatedCloud DEF CloudInv
<1> QED
  BY <1>1, <1>2, <1>3, <1>4, <1>5 DEF Next, Crash

\* The instances and their PodData stay together in every reachable state.
LEMMA CloudInvariant == Spec => []CloudInv
<1>1. Init => LocksHeld /\ Instances /\ LiveHasInstance
  BY InsideFacts DEF Init, LocksHeld, Instances, LiveHasInstance, Provisioned, Live
<1> QED
  BY <1>1, BaseInit, CloudStep, PTL DEF Spec, CloudInv, LockInv

\* A booted sandbox that nobody has removed has its VM, in both modes, for any
\* number of sandboxes: no removal of another sandbox, failed boot or restart takes
\* it away.
THEOREM LiveKeepsInstance == Spec => []LiveHasInstance
<1>1. CloudInv => LiveHasInstance
  BY DEF CloudInv
<1> QED
  BY CloudInvariant, <1>1, PTL

\* With one VM per sandbox: an instance that was told to terminate never runs again
\* while its sandbox has the address; a removal past Destroy has told it so, unless
\* another removal came first; and none runs under an address about to be released.
Destroyed ==
    ~ImagePod =>
        /\ \A r \in Ref : Live(r) => booted[r]
        /\ \A r \in doomed : Live(r) => instance[podIp[r]] \in Down
        /\ \A t \in Thread : pc[t] \in BootPcs => ref[t] \notin doomed
        /\ \A t \in Thread : pc[t] = "remClose" /\ Live(ref[t]) => ref[t] \in doomed
        /\ \A t \in Thread : pc[t] = "remRelease" => instance[podIp[ref[t]]] \in Down

RemovalInv == CloudInv /\ AddressesHeldOnce /\ Destroyed

\* Steps that bring back no instance and touch no sandbox that is being removed.
LEMMA DestroyedKept ==
    ASSUME RemovalInv, ~ImagePod, NEW t \in Thread,
           Provision(t) \/ SetTag(t) \/ Connect(t) \/ Configure(t)
    PROVE  Destroyed'
<1>t. /\ TypeOK /\ LockInv /\ Instances /\ Destroyed /\ OneHolder
      /\ pc[t] \in BootPcs /\ arg[t] \in IP /\ ref[t] \in Ref
  BY CloudFacts
  DEF RemovalInv, CloudInv, AddressesHeldOnce, Provision, SetTag, Connect, Configure, BootPcs
<1>2. Booting(t) /\ \A u \in Thread : u # t => ref[u] # ref[t]
  BY <1>t, PcFacts DEF Booting, LockInv, BaseInv, PlaceInv, Reserved
<1>3. /\ Others(t) /\ pc'[t] \notin {"remClose", "remRelease"}
      /\ pc'[t] \in BootPcs => ref'[t] = ref[t]
      /\ UNCHANGED doomed
  <2>1. CASE Provision(t) \/ Connect(t)
    BY <1>t, <2>1 DEF Provision, Connect, BootFails, Goto, Finish, Others, TypeOK, cloud, BootPcs
  <2>2. CASE SetTag(t) \/ Configure(t)
    BY <1>t, <2>2 DEF SetTag, Configure, Goto, Others, TypeOK
  <2> QED
    BY <2>1, <2>2
<1>4. /\ \A r \in Ref : r # ref[t] => podIp'[r] = podIp[r] /\ client'[r] = client[r] /\ booted'[r] = booted[r]
      /\ Configure(t) => booted'[ref[t]]
      /\ ~Configure(t) => UNCHANGED <<podIp, client, booted>>
  BY <1>t DEF Provision, SetTag, Connect, Configure, NewPodData, podData, TypeOK
<1>5. \A ip \in IP : ip # arg[t] => instance'[ip] = instance[ip]
  BY <1>t DEF Provision, SetTag, Connect, Configure, cloud, TypeOK
<1>6. \A u \in Thread : pc[u] \in {"remClose", "remRelease"} =>
          u # t /\ ref[u] \in Ref /\ ref[u] # ref[t] /\ podIp[ref[u]] \in IP
  BY <1>t, <1>2, CloudFacts DEF BootPcs
<1>7. /\ \A u \in Thread : pc[u] = "remRelease" => podIp[ref[u]] # arg[t]
      /\ \A r \in Ref : Live(r) => podIp[r] # arg[t] /\ podIp[r] \in IP
  BY <1>t, <1>2 DEF OneHolder, Releasing, Live, TypeOK
<1>8. \A r \in Ref : Live(r)' => booted'[r]
  BY <1>t, <1>4 DEF Destroyed, Live
<1>9. \A r \in doomed' : Live(r)' => instance'[podIp'[r]] \in Down
  <2> SUFFICES ASSUME NEW r \in doomed, Live(r)' PROVE instance'[podIp'[r]] \in Down
    BY <1>3
  <2>1. r \in Ref /\ r # ref[t]
    BY <1>t DEF Destroyed, TypeOK
  <2>2. podIp'[r] = podIp[r] /\ Live(r)
    BY <1>4, <2>1 DEF Live
  <2> QED
    BY <1>t, <1>5, <1>7, <2>1, <2>2 DEF Destroyed
<1>10. \A u \in Thread : pc'[u] \in BootPcs => ref'[u] \notin doomed'
  BY <1>t, <1>3 DEF Destroyed, Others
<1>11. \A u \in Thread : pc'[u] = "remClose" /\ Live(ref[u])' => ref'[u] \in doomed'
  BY <1>t, <1>3, <1>4, <1>6 DEF Destroyed, Others, Live
<1>12. \A u \in Thread : pc'[u] = "remRelease" => instance'[podIp'[ref'[u]]] \in Down
  BY <1>t, <1>3, <1>4, <1>5, <1>6, <1>7 DEF Destroyed, Others
<1> QED
  BY <1>8, <1>9, <1>10, <1>11, <1>12 DEF Destroyed

\* A removal has the VM terminated first.
LEMMA DestroyedFirst ==
    ASSUME RemovalInv, ~ImagePod, NEW t \in Thread, RemoveDestroy(t) \/ RemoveClose(t), ~Die
    PROVE  Destroyed'
<1>t. /\ TypeOK /\ LockInv /\ Destroyed /\ LiveHasInstance
      /\ ref[t] \in Ref /\ podIp[ref[t]] \in IP
      /\ pc[t] \in {"remDestroy", "remClose"}
  BY CloudFacts DEF RemovalInv, CloudInv, RemoveDestroy, RemoveClose
<1>1. Others(t) /\ UNCHANGED <<podIp, booted>>
  BY <1>t DEF RemoveDestroy, RemoveClose, Finish, Goto, Others, TypeOK, podData
<1>2. /\ \A ip \in IP : instance[ip] \in Down => instance'[ip] \in Down
      /\ \A r \in Ref : client'[r] # "nil" => client[r] # "nil"
  BY <1>t DEF RemoveDestroy, RemoveClose, Terminate, cloud, podData, TypeOK, Down
<1>3. \A u \in Thread : pc[u] \in {"remClose", "remRelease"} => ref[u] \in Ref /\ podIp[ref[u]] \in IP
  BY <1>t, CloudFacts
<1>4. \A r \in Ref : Live(r)' => Live(r) /\ booted'[r] /\ podIp[r] \in IP
  BY <1>t, <1>1, <1>2 DEF Destroyed, Live, TypeOK
<1>5. CASE RemoveDestroy(t)
  <2>1. \/ UNCHANGED cloud
        \/ Terminate(ref[t])
    BY <1>5 DEF RemoveDestroy
  <2>2. /\ pc'[t] \in {"idle", "remClose"}
        /\ pc'[t] = "remClose" => ref'[t] = ref[t] /\ (booted[ref[t]] => Terminate(ref[t]))
    BY <1>5, <1>t DEF RemoveDestroy, Finish, Goto, TypeOK
  <2>3. doomed \subseteq doomed' /\ doomed' \subseteq doomed \cup {ref[t]}
    BY <2>1 DEF Terminate, cloud
  <2>4. Live(ref[t]) /\ Terminate(ref[t]) => instance'[podIp[ref[t]]] \in Down
    <3> SUFFICES ASSUME Live(ref[t]), Terminate(ref[t]) PROVE instance'[podIp[ref[t]]] \in Down
      OBVIOUS
    <3>1. CASE ref[t] \in doomed
      BY <1>t, <1>2, <3>1 DEF Destroyed
    <3>2. CASE ref[t] \notin doomed
      BY <1>t, <3>2 DEF Destroyed, LiveHasInstance, Terminate, Down
    <3> QED
      BY <3>1, <3>2
  <2>5. \A r \in doomed' : Live(r)' => instance'[podIp'[r]] \in Down
    <3> SUFFICES ASSUME NEW r \in doomed', Live(r)' PROVE instance'[podIp[r]] \in Down
      BY <1>1
    <3>1. r \in Ref
      BY <1>t, <2>3 DEF TypeOK
    <3>2. CASE r \in doomed
      BY <1>t, <1>2, <1>4, <3>1, <3>2 DEF Destroyed
    <3>3. CASE r \notin doomed
      BY <1>t, <1>4, <2>1, <2>3, <2>4, <3>1, <3>3 DEF cloud
    <3> QED
      BY <3>2, <3>3
  <2>6. \A u \in Thread : pc'[u] \in BootPcs => ref'[u] \notin doomed'
    <3>1. \A u \in Thread : pc'[u] \in BootPcs => u # t /\ pc[u] \in BootPcs /\ ref'[u] = ref[u]
      BY <1>1, <2>2 DEF Others, BootPcs
    <3>2. \A u \in Thread : u # t /\ pc[u] \in BootPcs => ref[u] # ref[t]
      BY <1>t, PcFacts DEF LockInv, BaseInv, PlaceInv, Reserved
    <3> QED
      BY <1>t, <2>3, <3>1, <3>2 DEF Destroyed
  <2>7. \A u \in Thread : pc'[u] = "remClose" /\ Live(ref[u])' => ref'[u] \in doomed'
    BY <1>t, <1>1, <1>3, <1>4, <2>2, <2>3 DEF Destroyed, Others, Terminate
  <2>8. \A u \in Thread : pc'[u] = "remRelease" => instance'[podIp'[ref'[u]]] \in Down
    BY <1>t, <1>1, <1>2, <1>3, <2>2 DEF Destroyed, Others
  <2> QED
    BY <1>4, <2>5, <2>6, <2>7, <2>8 DEF Destroyed
<1>6. CASE RemoveClose(t)
  <2>1. /\ pc[t] = "remClose" /\ client[ref[t]] # "nil" /\ pc'[t] = "remRelease"
        /\ UNCHANGED <<instance, ref, doomed>>
    BY <1>6, <1>t DEF RemoveClose, Goto, TypeOK, cloud
  <2>2. instance[podIp[ref[t]]] \in Down
    BY <1>t, <2>1, NoneAssumption DEF Destroyed, Live
  <2>3. \A r \in doomed' : Live(r)' => instance'[podIp'[r]] \in Down
    BY <1>t, <1>1, <1>4, <2>1 DEF Destroyed, TypeOK
  <2>4. \A u \in Thread : pc'[u] \in BootPcs => ref'[u] \notin doomed'
    BY <1>t, <1>1, <2>1 DEF Destroyed, Others, BootPcs
  <2>5. \A u \in Thread : pc'[u] = "remClose" /\ Live(ref[u])' => ref'[u] \in doomed'
    BY <1>t, <1>1, <1>3, <1>4, <2>1 DEF Destroyed, Others
  <2>6. \A u \in Thread : pc'[u] = "remRelease" => instance'[podIp'[ref'[u]]] \in Down
    BY <1>t, <1>1, <2>1, <2>2 DEF Destroyed, Others
  <2> QED
    BY <1>4, <2>3, <2>4, <2>5, <2>6 DEF Destroyed
<1> QED
  BY <1>5, <1>6

\* Every step keeps the order.
LEMMA RemovalStep == RemovalInv /\ [Next]_vars => RemovalInv'
<1> SUFFICES ASSUME RemovalInv, [Next]_vars PROVE RemovalInv'
  OBVIOUS
<1>t. CloudInv' /\ AddressesHeldOnce' /\ TypeOK /\ LockInv
  BY CloudStep, AddressStep DEF RemovalInv, CloudInv, LockInv, BaseInv
<1>q. SUFFICES ASSUME ~ImagePod PROVE Destroyed'
  BY <1>t DEF RemovalInv, Destroyed
<1>1. CASE Die
  BY <1>1 DEF Die, Destroyed, Live, BootPcs
<1>2. CASE Restart
  <2>1. PICK found \in SUBSET IP, err \in BOOLEAN :
            \E new \in [found -> Ref] : Import(IF err THEN {} ELSE found, new)
    BY <1>2 DEF Restart
  <2>2. PICK new \in [found -> Ref] : Import(IF err THEN {} ELSE found, new)
    BY <2>1
  <2> DEFINE of(r) == {ip \in IF err THEN {} ELSE found : new[ip] = r}
  <2>3. /\ client' = [r \in Ref |-> IF of(r) = {} THEN "nil" ELSE "real"]
        /\ booted' = [r \in Ref |-> of(r) # {}]
    BY <2>2 DEF Import
  <2> HIDE DEF of
  <2>4. /\ \A u \in Thread : pc'[u] = "idle"
        /\ doomed' = {}
    BY <1>t, <1>2 DEF Restart, threads, LockInv, BaseInv, PlaceInv, DownIsIdle, RemovalInv
  <2> QED
    BY <2>3, <2>4 DEF Destroyed, Live, BootPcs
<1>3. CASE Calm
  BY <1>3 DEF Calm, RemovalInv, Destroyed, Live
<1>4. CASE UNCHANGED vars
  <2>1. Calm
    BY <1>4 DEF vars, threads, podData, locks, cloud, Calm
  <2> QED
    BY <1>3, <2>1
<1>5. ASSUME NEW t \in Thread, Bold(t), ~Die PROVE Destroyed'
  <2>1. CASE PreCreateContainer(t)
    <3>1. /\ pc' = [pc EXCEPT ![t] = "crLock2"]
          /\ UNCHANGED <<podIp, client, booted, instance, doomed, ref>>
      BY <1>q, <2>1 DEF PreCreateContainer, Goto, podData, cloud
    <3> QED
      BY <1>t, <3>1 DEF RemovalInv, Destroyed, Live, TypeOK, BootPcs
  <2>3. CASE RunPodSandbox(t)
    <3>1. PICK r \in Ref : /\ Free(r) /\ doomed' = doomed \ {r}
                          /\ ref' = [ref EXCEPT ![t] = r]
                          /\ pc' = [pc EXCEPT ![t] = "provision"]
                          /\ UNCHANGED <<podIp, client, booted, instance>>
      BY <1>5, <1>q, <2>3 DEF RunPodSandbox, Goto, podData
    <3>2. \A u \in Thread : u # t => pc'[u] = pc[u] /\ ref'[u] = ref[u] /\ ref[u] # r
      BY <1>t, <3>1 DEF Free, TypeOK
    <3>3. pc'[t] = "provision" /\ ref'[t] = r
      BY <1>t, <3>1 DEF TypeOK
    <3> QED
      BY <3>1, <3>2, <3>3, <1>q DEF RemovalInv, Destroyed, Live
  <2>2. ~InstallClient(t)
    BY <1>q, <1>t, PcFacts DEF InstallClient, TypeOK
  <2> QED
    BY <1>5, <1>q, <2>1, <2>2, <2>3, DestroyedKept, DestroyedFirst DEF Bold
<1>6. ASSUME NEW ip \in IP, Terminated(ip) PROVE Destroyed'
  <2>1. /\ \A i \in IP : instance[i] \in Down => instance'[i] \in Down
        /\ UNCHANGED <<podIp, client, booted, doomed, pc, ref>>
    BY <1>t, <1>6 DEF Terminated, Down, TypeOK, podData, threads
  <2>2. \A u \in Thread : pc[u] = "remRelease" => podIp[ref[u]] \in IP
    BY <1>t, CloudFacts
  <2> QED
    BY <1>t, <1>q, <2>1, <2>2 DEF RemovalInv, Destroyed, Live, TypeOK
<1> QED
  BY <1>t, <1>1, <1>2, <1>3, <1>4, <1>5, <1>6, CalmSteps DEF Next, Crash

\* With one VM per sandbox, an address goes back to the pool only when no running
\* instance has it: EC2 has agreed to terminate the VM, although it may still be
\* shutting down.  This holds whatever other handlers do meanwhile, after lost
\* answers of Destroy and in retried removals.
THEOREM ReleasedAfterDestroy == Spec => ReleaseAfterDestroy
<1>1. Init => LocksHeld /\ Instances /\ LiveHasInstance /\ AddressesHeldOnce /\ Destroyed
  BY InsideFacts, PoolAssumption
  DEF Init, LocksHeld, Instances, LiveHasInstance, Provisioned, Live, Destroyed,
      AddressesHeldOnce, PoolNoDup, OneHolder, Booting, Releasing, Down
<1>2. Init => RemovalInv
  BY <1>1, BaseInit DEF RemovalInv, CloudInv, LockInv
<1> DEFINE Late == ~ImagePod => \A ip \in Elems(ipList') \ Elems(ipList) :
                                    up => instance[ip] \in Down
<1>3. RemovalInv /\ [Next]_vars => Late
  <2> SUFFICES ASSUME RemovalInv, [Next]_vars, ~ImagePod, up,
                      NEW ip \in Elems(ipList'), ip \notin Elems(ipList)
               PROVE  instance[ip] \in Down
    OBVIOUS
  <2>t. TypeOK /\ LockInv /\ PoolNoDup /\ ipList \in Seq(IP)
    BY DEF RemovalInv, CloudInv, LockInv, BaseInv, AddressesHeldOnce, TypeOK
  <2>1. ~UNCHANGED ipList /\ ~Restart /\ ~UNCHANGED vars
    BY DEF Restart, vars, daemon
  <2>2. ~Die
    BY DEF Die, Elems
  <2>3. PICK t \in Thread : Request(t) \/ Step(t)
    BY <2>1, <2>2 DEF Next, Crash, Terminated, daemon
  <2>4. RunPodSandbox(t) \/ RemoveRelease(t)
    BY <2>t, <2>1, <2>2, <2>3, PassiveSteps DEF Passive, Configure, RemoveClose, daemon
  <2>5. CASE RunPodSandbox(t)
    <3>1. ipList # <<>> /\ ipList' = Shift(ipList)
      BY <2>2, <2>5 DEF RunPodSandbox
    <3> QED
      BY <2>t, <3>1, ShiftLemma DEF PoolNoDup
  <2>6. CASE RemoveRelease(t)
    <3>1. pc[t] = "remRelease" /\ ipList' = PushBack(ipList, podIp[ref[t]]) /\ podIp[ref[t]] \in IP
      BY <2>6, <2>t, CloudFacts DEF RemoveRelease
    <3>2. podIp[ref[t]] \notin Elems(ipList)
      BY <3>1 DEF RemovalInv, AddressesHeldOnce, OneHolder, Releasing
    <3>3. ip = podIp[ref[t]]
      BY <2>t, <3>1, <3>2, PushBackLemma DEF PoolNoDup
    <3> QED
      BY <3>1, <3>3 DEF RemovalInv, Destroyed
  <2> QED
    BY <2>4, <2>5, <2>6
<1> HIDE DEF Late
<1>4. Spec => [][Late]_vars
  BY <1>2, <1>3, RemovalStep, PTL DEF Spec
<1> QED
  BY <1>4 DEF ReleaseAfterDestroy, Late
==============================================================================
