------------------------------- MODULE Sandbox -------------------------------
(***************************************************************************)
(* The life cycle of pod sandboxes in the infranetes daemon: the Manager   *)
(* (pkg/infranetes/manager.go, internal.go), the PodData objects it hands  *)
(* out (provider/common/poddata.go) and the AWS pod provider that boots    *)
(* one EC2 instance per sandbox (provider/aws/aws_pod.go).                 *)
(*                                                                         *)
(* Every CRI call is served by a goroutine of its own, so the handlers are *)
(* threads that interleave at their lock acquisitions, their calls to the  *)
(* cloud and to the agent in the VM, and their accesses to shared state.   *)
(* A sandbox's id is its pod IP (RunPodSandbox passes podIp as the name).  *)
(* The critical sections of vmMapLock and of the deque's lock contain no   *)
(* other wait and are single steps.                                        *)
(***************************************************************************)
EXTENDS Deque

CONSTANTS
    IP,         \* the addresses of the pod subnet; also the sandbox ids
    Ref,        \* references to PodData objects
    Thread,     \* gRPC handler goroutines
    Pool,       \* ipList as the provider's constructor fills it
    ImagePod,   \* the provider's imagePod flag: a VM image is booted as the pod
    Listings,   \* bound: whether calls that visit all sandboxes arrive
    MaxPool,    \* bound: no removal is requested once the pool is this long
    None        \* the absent value

ASSUME PoolAssumption == Pool \in Seq(IP) /\ NoDup(Pool)
ASSUME ImagePodAssumption == ImagePod \in BOOLEAN /\ Listings \in BOOLEAN
ASSUME NoneAssumption == None \notin IP \cup Ref \cup Thread

VARIABLES
    up,         \* the daemon is running
    ipList,     \* free addresses
    vmMap,      \* sandbox id -> PodData, None if there is no entry
    podIp,      \* PodData.Ip (= PodData.Id); None for an unused reference
    client,     \* PodData.Client; "closed" is a connection already shut
    booted,     \* PodData.Booted
    podState,   \* PodData.PodState
    readers,    \* holders of PodData.stateLock in read mode
    writer,     \* the holder of PodData.stateLock in write mode
    pending,    \* the caller of Lock that now keeps new readers out
    bootLock,   \* the holder of PodData.BootLock
    instance,   \* the EC2 instance that has this private address
    owner,      \* the PodData whose VM field names that instance while it runs
    doomed,     \* the PodData whose instance EC2 has agreed to terminate
    pc,         \* what each handler does next
    arg,        \* the sandbox id the handler works for
    ref,        \* the PodData the handler works on
    todo        \* the PodData a listing handler has yet to visit

daemon  == <<up, ipList, vmMap>>
podData == <<podIp, client, booted, podState>>
locks   == <<readers, writer, pending, bootLock>>
cloud   == <<instance, owner, doomed>>
threads == <<pc, arg, ref, todo>>
vars    == <<daemon, podData, locks, cloud, threads>>

\* An instance is found at a restart once it has the "infranetes" tag and is
\* importable once its agent also stores the pod IP and the sandbox config.  One
\* that shuts down is not listed any more but still has its address.
InstanceState == {"absent", "untagged", "tagged", "ready", "terminating"}
Down == {"absent", "terminating"}
ClientState == {"nil", "fake", "real", "closed"}

BootPcs   == {"provision", "tag", "connect", "configure"}
RunPcs    == (IF ImagePod THEN {} ELSE BootPcs)
StopPcs   == {"stopRpc"}
RemovePcs == {"remDestroy", "remClose", "remRelease", "remDelete"}
\* Handlers at these points hold the stateLock of ref[t] in write or read mode.
WritePcs  == StopPcs \cup RemovePcs
ReadPcs   == {"statRead", "listRead", "contRpc", "crBoot", "crRpc"}
                \cup (IF ImagePod THEN BootPcs \cup {"install"} ELSE {})
WaitPcs   == {"stopLock", "remLock", "statLock", "contLock", "crLock", "crLock2",
              "crLog", "insert"}
ListPcs   == {"listNext", "listRead", "metrics"}
\* Handlers at these points work on the PodData of their sandbox id.
WorkPcs   == WaitPcs \cup WritePcs \cup (ReadPcs \ {"listRead"})
Pcs       == {"idle"} \cup RunPcs \cup WorkPcs \cup ListPcs

\* A PodData that still owns its sandbox: RemovePod has not cleared its client.
Live(r) == podIp[r] # None /\ client[r] # "nil"

\* A reference that nothing reaches any more can be allocated.  A sandbox that lost
\* its entry stays in view while it has an instance or a failed removal behind it:
\* it still holds its address.
Free(r) == /\ \A t \in Thread : ref[t] # r /\ r \notin todo[t]
           /\ \A ip \in IP : vmMap[ip] # r /\ owner[ip] # r
           /\ r \in doomed => client[r] = "nil"

Goto(t, l) == pc' = [pc EXCEPT ![t] = l]

Finish(t) == /\ pc'   = [pc EXCEPT ![t] = "idle"]
             /\ arg'  = [arg EXCEPT ![t] = None]
             /\ ref'  = [ref EXCEPT ![t] = None]
             /\ todo' = [todo EXCEPT ![t] = {}]

\* PodData.stateLock is a sync.RWMutex: a call of Lock first excludes the other
\* writers and new readers (LockCall), then waits for the readers that are left.
RLock(t, r) ==
    /\ writer[r] = None /\ pending[r] = None
    /\ readers' = [readers EXCEPT ![r] = @ \cup {t}]
    /\ UNCHANGED <<writer, pending, bootLock>>

RUnlock(t, r) ==
    /\ readers' = [readers EXCEPT ![r] = @ \ {t}]
    /\ UNCHANGED <<writer, pending, bootLock>>

LockCall(t) ==
    /\ pc[t] \in {"stopLock", "remLock", "crLog"}
    /\ writer[ref[t]] = None /\ pending[ref[t]] = None
    /\ pending' = [pending EXCEPT ![ref[t]] = t]
    /\ UNCHANGED <<daemon, podData, readers, writer, bootLock, cloud, threads>>

CanLock(t, r) == pending[r] = t /\ readers[r] = {}

Lock(t, r) ==
    /\ CanLock(t, r)
    /\ writer' = [writer EXCEPT ![r] = t]
    /\ pending' = [pending EXCEPT ![r] = None]
    /\ UNCHANGED <<readers, bootLock>>

\* Lock and Unlock with nothing in between that another handler could see.
LockUnlock(t, r) ==
    /\ CanLock(t, r)
    /\ pending' = [pending EXCEPT ![r] = None]
    /\ UNCHANGED <<readers, writer, bootLock>>

Unlock(t, r) ==
    /\ writer' = [writer EXCEPT ![r] = None]
    /\ UNCHANGED <<readers, pending, bootLock>>

\* The process dies: an uncaught panic in a handler, a kill or a power failure.
\* Everything in memory is lost; the instances keep running, known to nobody.
Die == /\ up' = FALSE
       /\ ipList' = <<>>
       /\ vmMap' = [ip \in IP |-> None]
       /\ podIp' = [r \in Ref |-> None]
       /\ client' = [r \in Ref |-> "nil"]
       /\ booted' = [r \in Ref |-> FALSE]
       /\ podState' = [r \in Ref |-> "READY"]
       /\ readers' = [r \in Ref |-> {}]
       /\ writer' = [r \in Ref |-> None]
       /\ pending' = [r \in Ref |-> None]
       /\ bootLock' = [r \in Ref |-> None]
       /\ owner' = [ip \in IP |-> None]
       /\ doomed' = {}
       /\ pc' = [t \in Thread |-> "idle"]
       /\ arg' = [t \in Thread |-> None]
       /\ ref' = [t \in Thread |-> None]
       /\ todo' = [t \in Thread |-> {}]
       /\ UNCHANGED instance

\* getPodData: the entry is looked up under vmMapLock and used after it is released.
Lookup(t, ip, l) ==
    /\ up /\ pc[t] = "idle"
    /\ vmMap[ip] # None
    /\ Goto(t, l)
    /\ arg' = [arg EXCEPT ![t] = ip]
    /\ ref' = [ref EXCEPT ![t] = vmMap[ip]]
    /\ UNCHANGED <<daemon, podData, locks, cloud, todo>>

\* NewPodData: the object is complete and its sandbox is ready.
NewPodData(r, ip, c, b) ==
    /\ podIp' = [podIp EXCEPT ![r] = ip]
    /\ client' = [client EXCEPT ![r] = c]
    /\ booted' = [booted EXCEPT ![r] = b]
    /\ podState' = [podState EXCEPT ![r] = "READY"]

------------------------------------------------------------------------------
(* RunPodSandbox                                                            *)

\* The provider takes an address from the front of the pool; the type assertion
\* on the nil that an empty pool yields panics.  An image pod is complete at
\* once, with a fake client and no VM.
RunPodSandbox(t) ==
    /\ up /\ pc[t] = "idle"
    /\ \/ ipList = <<>> /\ Die
       \/ /\ ipList # <<>>
          /\ \E r \in Ref :
                /\ Free(r)
                /\ ipList' = Shift(ipList)
                /\ arg' = [arg EXCEPT ![t] = Front(ipList)]
                /\ ref' = [ref EXCEPT ![t] = r]
                /\ IF ImagePod
                   THEN /\ NewPodData(r, Front(ipList), "fake", FALSE)
                        /\ Goto(t, "insert")
                   ELSE /\ Goto(t, "provision")
                        /\ UNCHANGED podData
                /\ doomed' = doomed \ {r}
                /\ UNCHANGED <<up, vmMap, locks, instance, owner, todo>>

\* createSandbox enters the finished PodData into vmMap.
InsertSandbox(t) ==
    /\ pc[t] = "insert"
    /\ vmMap' = [vmMap EXCEPT ![podIp[ref[t]]] = ref[t]]
    /\ Finish(t)
    /\ UNCHANGED <<up, ipList, podData, locks, cloud>>

\* Where bootSandbox's error leads: RunPodSandbox returns it, PreCreateContainer
\* releases BootLock and the read lock and returns it to CreateContainer, which
\* still records the log path.
BootFails(t) ==
    IF ImagePod
    THEN /\ bootLock' = [bootLock EXCEPT ![ref[t]] = None]
         /\ readers' = [readers EXCEPT ![ref[t]] = @ \ {t}]
         /\ Goto(t, "crLog")
         /\ UNCHANGED <<writer, pending, arg, ref, todo>>
    ELSE Finish(t) /\ UNCHANGED locks

\* vm.Provision asks EC2 for an instance with the address and waits until it is
\* ready; EC2 refuses an address that an instance still has, one that shuts down
\* included, and the wait may fail.
Provision(t) ==
    /\ pc[t] = "provision"
    /\ \/ /\ instance[arg[t]] = "absent"
          /\ instance' = [instance EXCEPT ![arg[t]] = "untagged"]
          /\ \/ Goto(t, "tag") /\ UNCHANGED <<locks, arg, ref, todo>>
             \/ BootFails(t)
       \/ BootFails(t) /\ UNCHANGED instance
    /\ UNCHANGED <<daemon, podData, owner, doomed>>

\* SetTag; its error is ignored.
SetTag(t) ==
    /\ pc[t] = "tag"
    /\ \/ instance' = [instance EXCEPT ![arg[t]] = "tagged"]
       \/ UNCHANGED instance
    /\ Goto(t, "connect")
    /\ UNCHANGED <<daemon, podData, locks, owner, doomed, arg, ref, todo>>

\* GetIPs and CreateRealClient; when either fails the instance is left behind.
Connect(t) ==
    /\ pc[t] = "connect"
    /\ \/ Goto(t, "configure") /\ UNCHANGED <<locks, arg, ref, todo>>
       \/ BootFails(t)
    /\ UNCHANGED <<daemon, podData, cloud>>

\* SetSandboxConfig, SetPodIP, StartProxy and SetHostname; a failure of any of
\* them is only logged, and one of StartProxy also closes the client.  Run's
\* PodData is built here; PreCreateContainer sets Booted in the existing one.
Configure(t) ==
    /\ pc[t] = "configure"
    /\ \/ /\ instance[arg[t]] = "tagged"
          /\ instance' = [instance EXCEPT ![arg[t]] = "ready"]
       \/ UNCHANGED instance
    /\ owner' = [owner EXCEPT ![arg[t]] = ref[t]]
    /\ IF ImagePod
       THEN /\ booted' = [booted EXCEPT ![ref[t]] = TRUE]
            /\ Goto(t, "install")
            /\ UNCHANGED <<podIp, client, podState>>
       ELSE /\ \E c \in {"real", "closed"} : NewPodData(ref[t], arg[t], c, TRUE)
            /\ Goto(t, "insert")
    /\ UNCHANGED <<daemon, locks, doomed, arg, ref, todo>>

\* PreCreateContainer then replaces the client, still under BootLock and the read
\* lock only, and returns.
InstallClient(t) ==
    /\ pc[t] = "install"
    /\ \E c \in {"real", "closed"} : client' = [client EXCEPT ![ref[t]] = c]
    /\ bootLock' = [bootLock EXCEPT ![ref[t]] = None]
    /\ readers' = [readers EXCEPT ![ref[t]] = @ \ {t}]
    /\ Goto(t, "crLock2")
    /\ UNCHANGED <<daemon, podIp, booted, podState, writer, pending, cloud, arg, ref, todo>>

------------------------------------------------------------------------------
(* StopPodSandbox                                                           *)

StopPodSandbox(t, ip) == Lookup(t, ip, "stopLock")

\* stopSandbox returns an error for a removed sandbox.
StopLock(t) ==
    /\ pc[t] = "stopLock"
    /\ IF client[ref[t]] = "nil"
       THEN LockUnlock(t, ref[t]) /\ Finish(t)
       ELSE /\ Lock(t, ref[t])
            /\ Goto(t, "stopRpc")
            /\ UNCHANGED <<arg, ref, todo>>
    /\ UNCHANGED <<daemon, podData, cloud>>

\* A mistake in StopRpc: the early return keeps the lock.
StopRpcKeepsLock(t) ==
    /\ pc[t] = "stopRpc"
    /\ \/ client[ref[t]] # "fake" /\ UNCHANGED <<podState, locks>>
       \/ /\ client[ref[t]] # "closed"
          /\ podState' = [podState EXCEPT ![ref[t]] = "NOTREADY"]
          /\ Unlock(t, ref[t])
    /\ Finish(t)
    /\ UNCHANGED <<daemon, podIp, client, booted, cloud>>

\* ListContainers fails, or the containers are stopped and the sandbox with them.
StopRpc(t) ==
    /\ pc[t] = "stopRpc"
    /\ \/ /\ client[ref[t]] # "fake"
          /\ UNCHANGED podState
       \/ /\ client[ref[t]] # "closed"
          /\ podState' = [podState EXCEPT ![ref[t]] = "NOTREADY"]
    /\ Unlock(t, ref[t])
    /\ Finish(t)
    /\ UNCHANGED <<daemon, podIp, client, booted, cloud>>

------------------------------------------------------------------------------
(* RemovePodSandbox                                                         *)

\* With image pods the pool can grow past its initial length (an address can be
\* returned twice), hence the bound.
RemovePodSandbox(t, ip) == Len(ipList) < MaxPool /\ Lookup(t, ip, "remLock")

\* A mistake in RemoveLock: the read lock is taken.
RemoveLockShared(t) ==
    /\ pc[t] = "remLock"
    /\ RLock(t, ref[t])
    /\ Goto(t, "remDestroy")
    /\ UNCHANGED <<daemon, podData, cloud, arg, ref, todo>>

RemoveLock(t) ==
    /\ pc[t] = "remLock"
    /\ Lock(t, ref[t])
    /\ Goto(t, "remDestroy")
    /\ UNCHANGED <<daemon, podData, cloud, arg, ref, todo>>

\* A mistake in Terminate: the instance is looked up by its address.
TerminateAddress(r) ==
    /\ instance' = [instance EXCEPT ![podIp[r]] = IF @ = "absent" THEN @ ELSE "terminating"]
    /\ owner' = [owner EXCEPT ![podIp[r]] = None]
    /\ doomed' = doomed \cup {r}

\* VM.Destroy asks EC2 to terminate the instance the PodData booted, if it still
\* runs, and does not wait for it to be gone.
Terminate(r) ==
    /\ instance' = [ip \in IP |-> IF owner[ip] = r THEN "terminating" ELSE instance[ip]]
    /\ owner' = [ip \in IP |-> IF owner[ip] = r THEN None ELSE owner[ip]]
    /\ doomed' = doomed \cup {r}

\* A mistake in RemoveDestroy: an error of Destroy is passed over.
RemoveDestroyUnchecked(t) ==
    /\ pc[t] = "remDestroy"
    /\ \/ booted[ref[t]] /\ Terminate(ref[t])
       \/ UNCHANGED cloud
    /\ Goto(t, "remClose")
    /\ UNCHANGED <<daemon, podData, locks, arg, ref, todo>>

\* An error of Destroy (a refusal, or an answer that was lost after EC2 has obeyed)
\* ends the removal, and the sandbox keeps its client, its entry and its address.
RemoveDestroy(t) ==
    /\ pc[t] = "remDestroy"
    /\ \/ /\ booted[ref[t]]
          /\ Terminate(ref[t]) \/ UNCHANGED cloud
          /\ Unlock(t, ref[t])
          /\ Finish(t)
       \/ /\ booted[ref[t]]
          /\ Terminate(ref[t])
          /\ Goto(t, "remClose")
          /\ UNCHANGED <<locks, arg, ref, todo>>
       \/ /\ ~booted[ref[t]]
          /\ Goto(t, "remClose")
          /\ UNCHANGED <<locks, cloud, arg, ref, todo>>
    /\ UNCHANGED <<daemon, podData>>

\* EC2 finishes the termination, in its own time; only now is the address free.
Terminated(ip) ==
    /\ instance[ip] = "terminating"
    /\ instance' = [instance EXCEPT ![ip] = "absent"]
    /\ UNCHANGED <<daemon, podData, locks, owner, doomed, threads>>

\* A mistake in RemoveClose: a nil client is tolerated.
RemoveCloseTolerant(t) ==
    /\ pc[t] = "remClose"
    /\ client' = [client EXCEPT ![ref[t]] = "nil"]
    /\ Goto(t, "remRelease")
    /\ UNCHANGED <<daemon, podIp, booted, podState, locks, cloud, arg, ref, todo>>

\* RemovePod closes the client; on a nil client that panics.
RemoveClose(t) ==
    /\ pc[t] = "remClose"
    /\ \/ client[ref[t]] = "nil" /\ Die
       \/ /\ client[ref[t]] # "nil"
          /\ client' = [client EXCEPT ![ref[t]] = "nil"]
          /\ Goto(t, "remRelease")
          /\ UNCHANGED <<daemon, podIp, booted, podState, locks, cloud, arg, ref, todo>>

\* A mistake in RemoveRelease: the PodData is put into the untyped list.
RemoveReleasePodData(t) ==
    /\ pc[t] = "remRelease"
    /\ ipList' = PushBack(ipList, ref[t])
    /\ Goto(t, "remDelete")
    /\ UNCHANGED <<up, vmMap, podData, locks, cloud, arg, ref, todo>>

\* The provider's RemovePodSandbox returns the address to the pool.
RemoveRelease(t) ==
    /\ pc[t] = "remRelease"
    /\ ipList' = PushBack(ipList, podIp[ref[t]])
    /\ Goto(t, "remDelete")
    /\ UNCHANGED <<up, vmMap, podData, locks, cloud, arg, ref, todo>>

\* Only then is the entry deleted, by the id of the request.
RemoveDelete(t) ==
    /\ pc[t] = "remDelete"
    /\ vmMap' = [vmMap EXCEPT ![arg[t]] = None]
    /\ Unlock(t, ref[t])
    /\ Finish(t)
    /\ UNCHANGED <<up, ipList, podData, cloud>>

------------------------------------------------------------------------------
(* Status, listings and metrics                                             *)

PodSandboxStatus(t, ip) == Lookup(t, ip, "statLock")

StatusLock(t) ==
    /\ pc[t] = "statLock"
    /\ RLock(t, ref[t])
    /\ Goto(t, "statRead")
    /\ UNCHANGED <<daemon, podData, cloud, arg, ref, todo>>

\* GetPodState asks the agent of a booted sandbox that is not stopped; it does not
\* expect a sandbox that was removed without being stopped.
StateCallPanics(r) == podState[r] = "READY" /\ booted[r] /\ client[r] = "nil"

StatusRead(t) ==
    /\ pc[t] = "statRead"
    /\ \/ StateCallPanics(ref[t]) /\ Die
       \/ /\ ~StateCallPanics(ref[t])
          /\ RUnlock(t, ref[t])
          /\ Finish(t)
          /\ UNCHANGED <<daemon, podData, cloud>>

\* ListPodSandbox and ListContainers visit a copy of vmMap, one read lock at a
\* time; GetMetrics visits it with no lock.
CopyVMMap == {vmMap[ip] : ip \in IP} \ {None}

ListPodSandbox(t) ==
    /\ up /\ pc[t] = "idle"
    /\ CopyVMMap # {}
    /\ todo' = [todo EXCEPT ![t] = CopyVMMap]
    /\ Goto(t, "listNext")
    /\ UNCHANGED <<daemon, podData, locks, cloud, arg, ref>>

ListNext(t) ==
    /\ pc[t] = "listNext"
    /\ \/ /\ todo[t] = {}
          /\ Finish(t)
          /\ UNCHANGED locks
       \/ \E r \in todo[t] :
             /\ RLock(t, r)
             /\ todo' = [todo EXCEPT ![t] = @ \ {r}]
             /\ ref' = [ref EXCEPT ![t] = r]
             /\ Goto(t, "listRead")
             /\ UNCHANGED arg
    /\ UNCHANGED <<daemon, podData, cloud>>

\* A PodData with a nil client is skipped, any other one is asked for its state
\* or for its containers.
ListRead(t) ==
    /\ pc[t] = "listRead"
    /\ RUnlock(t, ref[t])
    /\ ref' = [ref EXCEPT ![t] = None]
    /\ Goto(t, "listNext")
    /\ UNCHANGED <<daemon, podData, cloud, arg, todo>>

GetMetrics(t) ==
    /\ up /\ pc[t] = "idle"
    /\ CopyVMMap # {}
    /\ todo' = [todo EXCEPT ![t] = CopyVMMap]
    /\ Goto(t, "metrics")
    /\ UNCHANGED <<daemon, podData, locks, cloud, arg, ref>>

MetricsNext(t) ==
    /\ pc[t] = "metrics"
    /\ \/ /\ todo[t] = {}
          /\ Finish(t)
          /\ UNCHANGED <<daemon, podData, locks, cloud>>
       \/ \E r \in todo[t] :
             \/ client[r] = "nil" /\ Die
             \/ /\ client[r] # "nil"
                /\ todo' = [todo EXCEPT ![t] = @ \ {r}]
                /\ UNCHANGED <<daemon, podData, locks, cloud, pc, arg, ref>>

------------------------------------------------------------------------------
(* Containers                                                               *)

\* StartContainer, StopContainer, RemoveContainer, ContainerStatus, ExecSync,
\* Exec, Attach and PortForward: a call to the agent under the read lock, unless
\* the client is nil.
ContainerCall(t, ip) == Lookup(t, ip, "contLock")

ContainerLock(t) ==
    /\ pc[t] = "contLock"
    /\ writer[ref[t]] = None /\ pending[ref[t]] = None
    /\ IF client[ref[t]] = "nil"
       THEN Finish(t) /\ UNCHANGED locks
       ELSE /\ RLock(t, ref[t])
            /\ Goto(t, "contRpc")
            /\ UNCHANGED <<arg, ref, todo>>
    /\ UNCHANGED <<daemon, podData, cloud>>

ContainerRpc(t) ==
    /\ pc[t] = "contRpc"
    /\ RUnlock(t, ref[t])
    /\ Finish(t)
    /\ UNCHANGED <<daemon, podData, cloud>>

\* CreateContainer holds the read lock during PreCreateContainer, releases it, and
\* takes it again for the mounts and the agent's CreateContainer.
CreateContainer(t, ip) == Lookup(t, ip, "crLock")

CreateLock(t) ==
    /\ pc[t] = "crLock"
    /\ RLock(t, ref[t])
    /\ Goto(t, "crBoot")
    /\ UNCHANGED <<daemon, podData, cloud, arg, ref, todo>>

\* A mistake in PreCreateContainer: Booted is tested before BootLock is taken, here
\* without it.
PreCreateContainerUnlocked(t) ==
    /\ pc[t] = "crBoot"
    /\ \/ /\ ~ImagePod
          /\ RUnlock(t, ref[t])
          /\ Goto(t, "crLock2")
       \/ /\ ImagePod /\ booted[ref[t]]
          /\ RUnlock(t, ref[t])
          /\ Goto(t, "crLog")
       \/ /\ ImagePod /\ ~booted[ref[t]]
          /\ bootLock' = [bootLock EXCEPT ![ref[t]] = t]
          /\ Goto(t, "provision")
          /\ UNCHANGED <<readers, writer, pending>>
    /\ UNCHANGED <<daemon, podData, cloud, arg, ref, todo>>

\* PreCreateContainer under BootLock: nothing to do unless the pod is an image,
\* an error for a second container of a VM image, else the VM is booted.
PreCreateContainer(t) ==
    /\ pc[t] = "crBoot"
    /\ bootLock[ref[t]] = None
    /\ \/ /\ ~ImagePod
          /\ RUnlock(t, ref[t])
          /\ Goto(t, "crLock2")
       \/ /\ ImagePod /\ booted[ref[t]]
          /\ RUnlock(t, ref[t])
          /\ Goto(t, "crLog")
       \/ /\ ImagePod /\ ~booted[ref[t]]
          /\ bootLock' = [bootLock EXCEPT ![ref[t]] = t]
          /\ Goto(t, "provision")
          /\ UNCHANGED <<readers, writer, pending>>
    /\ UNCHANGED <<daemon, podData, cloud, arg, ref, todo>>

CreateLock2(t) ==
    /\ pc[t] = "crLock2"
    /\ writer[ref[t]] = None /\ pending[ref[t]] = None
    /\ IF client[ref[t]] = "nil"
       THEN Goto(t, "crLog") /\ UNCHANGED locks
       ELSE RLock(t, ref[t]) /\ Goto(t, "crRpc")
    /\ UNCHANGED <<daemon, podData, cloud, arg, ref, todo>>

CreateRpc(t) ==
    /\ pc[t] = "crRpc"
    /\ RUnlock(t, ref[t])
    /\ Goto(t, "crLog")
    /\ UNCHANGED <<daemon, podData, cloud, arg, ref, todo>>

\* AddContLogPath under the write lock, after success and after failure.
CreateLog(t) ==
    /\ pc[t] = "crLog"
    /\ LockUnlock(t, ref[t])
    /\ Finish(t)
    /\ UNCHANGED <<daemon, podData, cloud>>

------------------------------------------------------------------------------
(* Crash and restart                                                        *)

Crash == up /\ Die

\* importSandboxes, before the server is registered: every tagged instance is
\* contacted.  One that does not answer GetPodIP and GetSandboxConfig is passed
\* over and its address stays in the pool.  One that cannot be connected to ends
\* the import with an error: nothing is entered into vmMap, but the addresses
\* already found are gone from the pool.
Import(kept, new) ==
    LET of(r) == {ip \in kept : new[ip] = r}
    IN /\ vmMap' = [ip \in IP |-> IF ip \in kept THEN new[ip] ELSE None]
       /\ owner' = [ip \in IP |-> IF ip \in kept THEN new[ip] ELSE None]
       /\ podIp' = [r \in Ref |-> IF of(r) = {} THEN None ELSE CHOOSE ip \in of(r) : TRUE]
       /\ client' = [r \in Ref |-> IF of(r) = {} THEN "nil" ELSE "real"]
       /\ booted' = [r \in Ref |-> of(r) # {}]

Restart ==
    /\ ~up
    /\ up' = TRUE
    /\ \E found \in SUBSET {ip \in IP : instance[ip] = "ready"}, err \in BOOLEAN :
          /\ ipList' \in FindAndRemove(Pool, found)
          /\ \E new \in [found -> Ref] :
                /\ \A a, b \in found : new[a] = new[b] => a = b
                /\ Import(IF err THEN {} ELSE found, new)
    /\ doomed' = {}
    /\ UNCHANGED <<podState, locks, instance, threads>>

------------------------------------------------------------------------------
Init == /\ up = TRUE
        /\ ipList = Pool
        /\ vmMap = [ip \in IP |-> None]
        /\ podIp = [r \in Ref |-> None]
        /\ client = [r \in Ref |-> "nil"]
        /\ booted = [r \in Ref |-> FALSE]
        /\ podState = [r \in Ref |-> "READY"]
        /\ readers = [r \in Ref |-> {}]
        /\ writer = [r \in Ref |-> None]
        /\ pending = [r \in Ref |-> None]
        /\ bootLock = [r \in Ref |-> None]
        /\ instance = [ip \in IP |-> "absent"]
        /\ owner = [ip \in IP |-> None]
        /\ doomed = {}
        /\ pc = [t \in Thread |-> "idle"]
        /\ arg = [t \in Thread |-> None]
        /\ ref = [t \in Thread |-> None]
        /\ todo = [t \in Thread |-> {}]

\* A request arrives.
Request(t) ==
    \/ RunPodSandbox(t)
    \/ Listings /\ ListPodSandbox(t)
    \/ Listings /\ GetMetrics(t)
    \/ \E ip \in IP : \/ StopPodSandbox(t, ip)
                      \/ RemovePodSandbox(t, ip)
                      \/ PodSandboxStatus(t, ip)
                      \/ ContainerCall(t, ip)
                      \/ CreateContainer(t, ip)

\* A handler that has started goes on.
Step(t) ==
    \/ LockCall(t)
    \/ Provision(t) \/ SetTag(t) \/ Connect(t) \/ Configure(t) \/ InstallClient(t)
    \/ InsertSandbox(t)
    \/ StopLock(t) \/ StopRpc(t)
    \/ RemoveLock(t) \/ RemoveDestroy(t) \/ RemoveClose(t) \/ RemoveRelease(t)
    \/ RemoveDelete(t)
    \/ StatusLock(t) \/ StatusRead(t)
    \/ ListNext(t) \/ ListRead(t) \/ MetricsNext(t)
    \/ ContainerLock(t) \/ ContainerRpc(t)
    \/ CreateLock(t) \/ PreCreateContainer(t) \/ CreateLock2(t) \/ CreateRpc(t)
    \/ CreateLog(t)

Next == \/ \E t \in Thread : Request(t) \/ Step(t)
        \/ \E ip \in IP : Terminated(ip)
        \/ Crash
        \/ Restart

Spec == Init /\ [][Next]_vars

\* Calls return and Go's locks are not starved, so a started handler goes on.
FairSpec == Spec /\ \A t \in Thread : SF_vars(Step(t))

------------------------------------------------------------------------------
\* The state is well formed: the pool holds addresses of the subnet, handlers are at
\* points of the code their provider's mode has, locks are held by handlers.
TypeOK ==
    /\ up \in BOOLEAN
    /\ ipList \in Seq(IP)
    /\ vmMap \in [IP -> Ref \cup {None}]
    /\ podIp \in [Ref -> IP \cup {None}]
    /\ client \in [Ref -> ClientState]
    /\ booted \in [Ref -> BOOLEAN]
    /\ podState \in [Ref -> {"READY", "NOTREADY"}]
    /\ readers \in [Ref -> SUBSET Thread]
    /\ writer \in [Ref -> Thread \cup {None}]
    /\ pending \in [Ref -> Thread \cup {None}]
    /\ bootLock \in [Ref -> Thread \cup {None}]
    /\ instance \in [IP -> InstanceState]
    /\ owner \in [IP -> Ref \cup {None}]
    /\ doomed \in SUBSET Ref
    /\ pc \in [Thread -> Pcs]
    /\ arg \in [Thread -> IP \cup {None}]
    /\ ref \in [Thread -> Ref \cup {None}]
    /\ todo \in [Thread -> SUBSET Ref]

\* The sandbox id under which a PodData is entered is its own address, so that the
\* request's id and PodData.Id never disagree.
IdsMatch == \A ip \in IP : vmMap[ip] # None => podIp[vmMap[ip]] = ip

\* What a handler works on: a handler past its lookup has the PodData of its id,
\* and RunPodSandbox has an address of the subnet.
Placed ==
    \A t \in Thread :
        /\ pc[t] \in RunPcs => ref[t] \in Ref /\ arg[t] \in IP
        /\ pc[t] \in WorkPcs => ref[t] \in Ref /\ arg[t] \in IP /\ podIp[ref[t]] = arg[t]
        /\ pc[t] = "listRead" => ref[t] \in Ref

\* Nobody else reaches the PodData that a RunPodSandbox is about to build.
Reserved ==
    \A t \in Thread : pc[t] \in RunPcs =>
        /\ \A u \in Thread : (u # t => ref[u] # ref[t]) /\ ref[t] \notin todo[u]
        /\ \A ip \in IP : vmMap[ip] # ref[t]

\* A daemon that is down has no handlers.
DownIsIdle == ~up => \A t \in Thread : pc[t] = "idle"

\* Handlers inside a critical section hold its lock, and the lock excludes.
LocksHeld ==
    /\ \A t \in Thread : pc[t] \in WritePcs => writer[ref[t]] = t
    /\ \A t \in Thread : pc[t] \in ReadPcs => t \in readers[ref[t]]
    /\ \A r \in Ref : writer[r] # None => readers[r] = {} /\ pending[r] = None

PoolNoDup == NoDup(ipList)

Booting(t) == pc[t] \in RunPcs
Releasing(t) == pc[t] = "remRelease"

OneHolder ==
    /\ \A t \in Thread : Booting(t) => arg[t] \notin Elems(ipList)
    /\ \A r \in Ref : Live(r) => podIp[r] \notin Elems(ipList)
    /\ \A t \in Thread : Releasing(t) => podIp[ref[t]] \notin Elems(ipList)
    /\ \A t, u \in Thread : Booting(t) /\ Booting(u) /\ arg[t] = arg[u] => t = u
    /\ \A r, s \in Ref : Live(r) /\ Live(s) /\ podIp[r] = podIp[s] => r = s
    /\ \A t, u \in Thread : Releasing(t) /\ Releasing(u) /\ podIp[ref[t]] = podIp[ref[u]] => t = u
    /\ \A t \in Thread, r \in Ref : Booting(t) /\ Live(r) => arg[t] # podIp[r]
    /\ \A t, u \in Thread : Booting(t) /\ Releasing(u) => arg[t] # podIp[ref[u]]
    /\ \A t \in Thread, r \in Ref : Releasing(t) /\ Live(r) => podIp[ref[t]] # podIp[r]

\* Every address has at most one holder: one place in the pool, one RunPodSandbox
\* that is booting a VM with it, one PodData that has not been removed, or one
\* RemovePodSandbox about to return it.
AddressesHeldOnce == ~ImagePod => PoolNoDup /\ OneHolder

RpcPcs == {"stopRpc", "contRpc", "crRpc"}
\* A handler that talks to the agent of a sandbox does so through a client nobody
\* has cleared, whatever other handlers do to the sandbox meanwhile.
ClientStaysDuringCall == \A t \in Thread : pc[t] \in RpcPcs => client[ref[t]] # "nil"

\* A sandbox that has not been removed and whose VM was booted has that VM, running:
\* no other handler's Destroy, no earlier boot and no import has taken it away.  Only
\* a RemovePodSandbox of the sandbox itself, at work or failed, ends it earlier.
LiveHasInstance ==
    \A r \in Ref :
        Live(r) /\ booted[r] /\ r \notin doomed
            => instance[podIp[r]] \notin Down /\ owner[podIp[r]] = r

\* PreCreateContainer boots an image pod one handler at a time, and not again once
\* it is booted, although Booted is written under the read lock.
BootedOnce ==
    ImagePod => \A t, u \in Thread :
        /\ pc[t] \in BootPcs => ~booted[ref[t]]
        /\ /\ {pc[t], pc[u]} \subseteq BootPcs \cup {"install"}
           /\ ref[t] = ref[u]
           => t = u

\* A sandbox's address goes back to the pool only once its VM is on its way out: at
\* that step no running instance has the address.  The instance may still be
\* shutting down, since Destroy does not wait; the next boot is then refused.
ReleaseAfterDestroy ==
    [][~ImagePod => \A ip \in Elems(ipList') \ Elems(ipList) :
            up => instance[ip] \in Down]_vars

\* Every request is answered: no handler waits forever for a lock or in a call.
RequestsFinish == \A t \in Thread : (pc[t] # "idle") ~> (pc[t] = "idle")
==============================================================================
