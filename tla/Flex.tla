-------------------------------- MODULE Flex --------------------------------
(***************************************************************************)
(* Flex volumes: the driver that kubelet runs once per mount or unmount    *)
(* (cmd/infranetes_flex, pkg/infranetes_flex/providers), the two tables it *)
(* fills in the daemon (Manager.AddMount and DelMount), and the sandboxes  *)
(* and containers for which the daemon reads them (internal.go).           *)
(*                                                                         *)
(* kubelet keeps one operation per mount point at a time, calls mount only *)
(* while the point is not mounted and unmount only while it is, and retries *)
(* what failed.  Of a pod's list in volumeMap the model keeps the set of   *)
(* volumes; Devices has the order and the repetitions.                     *)
(***************************************************************************)
EXTENDS Integers

CONSTANTS
    Pod,        \* pods, by uid
    Point,      \* mount points
    PodOf,      \* the pod in whose directory a mount point is
    Vol,        \* volumes of the cloud
    Given,      \* the volumeID option of a mount point; None: one is provisioned
    Format,     \* the mount points with the option format
    Mode,       \* "fs", "device" (option deviceOnly) or "none" (option mount=false)
    OneDevice,  \* TRUE: volumes are formatted under the one AttachDevice (aws_ebs)
    Sandbox,    \* sandboxes that can exist at a time
    MaxCrash,   \* bound: crashes of the daemon
    MaxKill,    \* bound: kills of a driver process
    None        \* the absent value

ASSUME PointAssumption ==
    /\ PodOf \in [Point -> Pod]
    /\ Given \in [Point -> Vol \cup {None}]
    /\ Format \subseteq Point
    /\ Mode \in [Point -> {"fs", "device", "none"}]
ASSUME BoundAssumption == OneDevice \in BOOLEAN /\ MaxCrash \in Nat /\ MaxKill \in Nat
ASSUME NoneAssumption == None \notin Vol \cup Pod

VARIABLES
    up,         \* the daemon is running
    crashes,    \* how often it has crashed
    kills,      \* how many driver processes were killed
    mountMap,   \* Manager.mountMap: the volume of a mount point
    volumeMap,  \* Manager.volumeMap: the volumes of a pod
    wanted,     \* the pods that kubelet runs
    mounted,    \* the mount points on which the node has its placeholder mounted
    pc,         \* what the driver process of a mount point does next
    vol,        \* the volume it works with
    made,       \* volumes that exist in the cloud
    host,       \* volumes attached to the node, for formatting
    pod,        \* the pod of a sandbox, None if there is no such sandbox
    running,    \* sandboxes that have not been stopped
    listed,     \* the volumes that RunPodSandbox was given for a sandbox
    att         \* the volumes attached to a sandbox's VM

daemon == <<up, crashes, mountMap, volumeMap>>
kubelet == <<wanted, mounted>>
driver == <<kills, pc, vol>>
sandboxes == <<pod, running, listed>>
vars == <<daemon, kubelet, driver, made, host, sandboxes, att>>

Pcs == {"idle", "provision", "attach", "mkfs", "detach", "add", "loop", "undo", "del", "umount"}
PointsOf(p) == {m \in Point : PodOf[m] = p}
\* EC2 and GCE refuse to attach a volume that is attached.
Unattached(v) == v \notin host /\ \A s \in Sandbox : v \notin att[s]

Goto(m, l) == pc' = [pc EXCEPT ![m] = l]

------------------------------------------------------------------------------
(* The driver: do_mount                                                     *)

\* Options are read; what they ask for is fixed by the pod's specification.
Mount(m) ==
    /\ pc[m] = "idle" /\ PodOf[m] \in wanted /\ m \notin mounted
    /\ vol' = [vol EXCEPT ![m] = Given[m]]
    /\ Goto(m, IF Given[m] = None THEN "provision" ELSE IF m \in Format THEN "attach" ELSE "add")
    /\ UNCHANGED <<daemon, kubelet, kills, made, host, sandboxes, att>>

\* A provisioned volume is always formatted.
Provision(m) ==
    /\ pc[m] = "provision"
    /\ \/ \E v \in Vol \ made :
             /\ made' = made \cup {v}
             /\ vol' = [vol EXCEPT ![m] = v]
             /\ Goto(m, "attach")
       \/ Goto(m, "idle") /\ UNCHANGED <<vol, made>>
    /\ UNCHANGED <<daemon, kubelet, kills, host, sandboxes, att>>

\* A mistake in do_format: mkfs runs although Attach has failed.
FormatAttachUnchecked(m) ==
    /\ pc[m] = "attach"
    /\ \/ /\ Unattached(vol[m]) /\ (OneDevice => host = {})
          /\ host' = host \cup {vol[m]}
       \/ UNCHANGED host
    /\ Goto(m, "mkfs")
    /\ UNCHANGED <<daemon, kubelet, kills, vol, made, sandboxes, att>>

\* do_format; do_mount ignores its errors.  Attach is refused, or its wait times out.
FormatAttach(m) ==
    /\ pc[m] = "attach"
    /\ \/ /\ Unattached(vol[m]) /\ (OneDevice => host = {})
          /\ host' = host \cup {vol[m]}
          /\ Goto(m, "mkfs") \/ Goto(m, "add")
       \/ Goto(m, "add") /\ UNCHANGED host
    /\ UNCHANGED <<daemon, kubelet, kills, vol, made, sandboxes, att>>

\* A failure of mkfs leaves the volume attached to the node.
Mkfs(m) ==
    /\ pc[m] = "mkfs"
    /\ Goto(m, "detach") \/ Goto(m, "add")
    /\ UNCHANGED <<daemon, kubelet, kills, vol, made, host, sandboxes, att>>

FormatDetach(m) ==
    /\ pc[m] = "detach"
    /\ host' \in {host \ {vol[m]}, host}
    /\ Goto(m, "add")
    /\ UNCHANGED <<daemon, kubelet, kills, vol, made, sandboxes, att>>

\* A mistake in AddMount: the request's pod is stored for its volume.
AddMountPod(m) ==
    /\ pc[m] = "add"
    /\ IF up /\ (Mode[m] = "fs" => mountMap[m] = None)
       THEN /\ mountMap' = IF Mode[m] = "fs" THEN [mountMap EXCEPT ![m] = PodOf[m]] ELSE mountMap
            /\ volumeMap' = [volumeMap EXCEPT ![PodOf[m]] = @ \cup {vol[m]}]
            /\ Goto(m, "loop")
       ELSE Goto(m, "idle") /\ UNCHANGED <<mountMap, volumeMap>>
    /\ UNCHANGED <<up, crashes, kubelet, kills, vol, made, host, sandboxes, att>>

\* AddMount: a file system that is already in the table is refused.
AddMount(m) ==
    /\ pc[m] = "add"
    /\ IF up /\ (Mode[m] = "fs" => mountMap[m] = None)
       THEN /\ mountMap' = IF Mode[m] = "fs" THEN [mountMap EXCEPT ![m] = vol[m]] ELSE mountMap
            /\ volumeMap' = [volumeMap EXCEPT ![PodOf[m]] = @ \cup {vol[m]}]
            /\ Goto(m, "loop")
       ELSE Goto(m, "idle") /\ UNCHANGED <<mountMap, volumeMap>>
    /\ UNCHANGED <<up, crashes, kubelet, kills, vol, made, host, sandboxes, att>>

\* A mistake in do_mount: it goes on to DelMount after success.
LoopMountFallsThrough(m) ==
    /\ pc[m] = "loop" /\ Mode[m] # "none"
    /\ mounted' = mounted \cup {m}
    /\ Goto(m, "undo")
    /\ UNCHANGED <<daemon, wanted, kills, vol, made, host, sandboxes, att>>

\* The placeholder is mounted on the node; with mount=false the path is empty and
\* mount(8) fails.
LoopMountDone(m) ==
    /\ pc[m] = "loop" /\ Mode[m] # "none"
    /\ mounted' = mounted \cup {m}
    /\ Goto(m, "idle")
    /\ UNCHANGED <<daemon, wanted, kills, vol, made, host, sandboxes, att>>

LoopMountFails(m) ==
    /\ pc[m] = "loop"
    /\ Goto(m, "undo")
    /\ UNCHANGED <<daemon, kubelet, kills, vol, made, host, sandboxes, att>>

\* DelMount takes the point out of mountMap, not the volume out of volumeMap.
DelMount(m) ==
    mountMap' = IF up THEN [mountMap EXCEPT ![m] = None] ELSE mountMap

\* A mistake in do_mount: the failed mount is not taken back.
UndoMountForgotten(m) ==
    /\ pc[m] = "undo"
    /\ Goto(m, "idle")
    /\ UNCHANGED <<daemon, kubelet, kills, vol, made, host, sandboxes, att>>

UndoMount(m) ==
    /\ pc[m] = "undo"
    /\ DelMount(m)
    /\ Goto(m, "idle")
    /\ UNCHANGED <<up, crashes, volumeMap, kubelet, kills, vol, made, host, sandboxes, att>>

------------------------------------------------------------------------------
(* The driver: do_umount                                                    *)

\* kubelet unmounts the volumes of a deleted pod once it does not run any more.
Unmount(m) ==
    /\ pc[m] = "idle" /\ m \in mounted
    /\ PodOf[m] \notin wanted
    /\ \A s \in running : pod[s] # PodOf[m]
    /\ Goto(m, "del")
    /\ UNCHANGED <<daemon, kubelet, kills, vol, made, host, sandboxes, att>>

UnmountDel(m) ==
    /\ pc[m] = "del"
    /\ DelMount(m)
    /\ Goto(m, "umount")
    /\ UNCHANGED <<up, crashes, volumeMap, kubelet, kills, vol, made, host, sandboxes, att>>

Umount(m) ==
    /\ pc[m] = "umount"
    /\ mounted' \in {mounted \ {m}, mounted}
    /\ Goto(m, "idle")
    /\ UNCHANGED <<daemon, wanted, kills, vol, made, host, sandboxes, att>>

\* kubelet is restarted and takes its child processes with it.
Kill(m) ==
    /\ pc[m] # "idle" /\ kills < MaxKill
    /\ kills' = kills + 1
    /\ Goto(m, "idle")
    /\ UNCHANGED <<daemon, kubelet, vol, made, host, sandboxes, att>>

------------------------------------------------------------------------------
(* Pods and their sandboxes                                                 *)

DeletePod(p) ==
    /\ p \in wanted
    /\ wanted' = wanted \ {p}
    /\ UNCHANGED <<daemon, mounted, driver, made, host, sandboxes, att>>

\* kubelet starts a sandbox once the pod's volumes are mounted and no other sandbox
\* of the pod runs.  createSandbox hands the provider the pod's list.
RunPodSandbox(s, p) ==
    /\ up /\ pod[s] = None
    /\ p \in wanted /\ PointsOf(p) \subseteq mounted
    /\ \A t \in running : pod[t] # p
    /\ pod' = [pod EXCEPT ![s] = p]
    /\ running' = running \cup {s}
    /\ listed' = [listed EXCEPT ![s] = volumeMap[p]]
    /\ UNCHANGED <<daemon, kubelet, driver, made, host, att>>

\* bootSandbox attaches what it was given, createContainer what the table has for the
\* container's mounts; a failure is logged and changes nothing.
AttachVol(s, v) ==
    /\ up /\ s \in running
    /\ v \in listed[s] \cup {mountMap[m] : m \in PointsOf(pod[s])}
    /\ v # None /\ Unattached(v)
    /\ att' = [att EXCEPT ![s] = @ \cup {v}]
    /\ UNCHANGED <<daemon, kubelet, driver, made, host, sandboxes>>

\* StopPodSandbox detaches the volumes it was given, as far as EC2 lets it.
StopPodSandbox(s) ==
    /\ up /\ s \in running
    /\ running' = running \ {s}
    /\ \E left \in SUBSET att[s] : att' = [att EXCEPT ![s] = left]
    /\ UNCHANGED <<daemon, kubelet, driver, made, host, pod, listed>>

\* removePodSandbox destroys the VM and deletes the list of the sandbox's pod.
RemovePodSandbox(s) ==
    /\ up /\ pod[s] # None /\ s \notin running
    /\ volumeMap' = [volumeMap EXCEPT ![pod[s]] = {}]
    /\ pod' = [pod EXCEPT ![s] = None]
    /\ listed' = [listed EXCEPT ![s] = {}]
    /\ att' = [att EXCEPT ![s] = {}]
    /\ UNCHANGED <<up, crashes, mountMap, kubelet, driver, made, host, running>>

\* The tables are not stored anywhere; the VMs go on running.
Crash ==
    /\ up /\ crashes < MaxCrash
    /\ up' = FALSE
    /\ crashes' = crashes + 1
    /\ mountMap' = [m \in Point |-> None]
    /\ volumeMap' = [p \in Pod |-> {}]
    /\ UNCHANGED <<kubelet, driver, made, host, sandboxes, att>>

Restart ==
    /\ ~up
    /\ up' = TRUE
    /\ UNCHANGED <<crashes, mountMap, volumeMap, kubelet, driver, made, host, sandboxes, att>>

------------------------------------------------------------------------------
Init == /\ up = TRUE /\ crashes = 0 /\ kills = 0
        /\ mountMap = [m \in Point |-> None]
        /\ volumeMap = [p \in Pod |-> {}]
        /\ wanted = Pod
        /\ mounted = {}
        /\ pc = [m \in Point |-> "idle"]
        /\ vol = [m \in Point |-> None]
        /\ made = {Given[m] : m \in Point} \ {None}
        /\ host = {}
        /\ pod = [s \in Sandbox |-> None]
        /\ running = {}
        /\ listed = [s \in Sandbox |-> {}]
        /\ att = [s \in Sandbox |-> {}]

\* A driver process goes on.
Work(m) ==
    \/ Provision(m) \/ FormatAttach(m) \/ Mkfs(m) \/ FormatDetach(m) \/ AddMount(m)
    \/ LoopMountDone(m) \/ LoopMountFails(m) \/ UndoMount(m)
    \/ UnmountDel(m) \/ Umount(m)

Next ==
    \/ \E m \in Point : Mount(m) \/ Unmount(m) \/ Work(m) \/ Kill(m)
    \/ \E p \in Pod : DeletePod(p)
    \/ \E s \in Sandbox : \/ \E p \in Pod : RunPodSandbox(s, p)
                          \/ \E v \in Vol : AttachVol(s, v)
                          \/ StopPodSandbox(s) \/ RemovePodSandbox(s)
    \/ Crash \/ Restart

Spec == Init /\ [][Next]_vars

\* kubelet retries, driver processes run, a dead daemon is restarted, and mounting
\* the placeholder does not fail forever.
FairSpec ==
    /\ Spec
    /\ \A m \in Point : WF_vars(Mount(m)) /\ WF_vars(Work(m)) /\ SF_vars(LoopMountDone(m))
    /\ WF_vars(Restart)

------------------------------------------------------------------------------
\* The state is well formed.
TypeOK ==
    /\ up \in BOOLEAN /\ crashes \in 0..MaxCrash /\ kills \in 0..MaxKill
    /\ mountMap \in [Point -> Vol \cup {None}]
    /\ volumeMap \in [Pod -> SUBSET Vol]
    /\ wanted \subseteq Pod
    /\ mounted \subseteq Point
    /\ pc \in [Point -> Pcs]
    /\ vol \in [Point -> Vol \cup {None}]
    /\ made \subseteq Vol
    /\ host \subseteq Vol
    /\ pod \in [Sandbox -> Pod \cup {None}]
    /\ running \subseteq Sandbox
    /\ listed \in [Sandbox -> SUBSET Vol]
    /\ att \in [Sandbox -> SUBSET Vol]

\* do_format runs mkfs only on the volume it is for: that volume is attached to the
\* node, alone under the one format device, no VM has it and no other driver process
\* formats it.
FormatsOwn ==
    \A m \in Point : pc[m] \in {"mkfs", "detach"} =>
        /\ vol[m] \in host
        /\ OneDevice => host = {vol[m]}
        /\ \A s \in Sandbox : vol[m] \notin att[s]
        /\ \A n \in Point \ {m} : pc[n] \in {"mkfs", "detach"} => vol[n] # vol[m]

\* A volume is attached in one place only.
AttachedOnce ==
    \A v \in Vol : /\ v \in host => \A s \in Sandbox : v \notin att[s]
                   /\ \A s, t \in Sandbox : v \in att[s] /\ v \in att[t] => s = t

\* What createContainer does with a container's mount at the point: isFlexVolMnt
\* finds the volume in the table, or the directory is copied into the VM.
Treatment(m) == IF mountMap[m] # None THEN "flex" ELSE "copy"

\* While the daemon has not crashed, a container of a running pod gets its volume,
\* the one of the attempt that succeeded, and never a copy of the placeholder.
ContainersGetVolume ==
    crashes = 0 => \A m \in mounted :
        PodOf[m] \in wanted /\ Mode[m] = "fs" => Treatment(m) = "flex" /\ mountMap[m] = vol[m]

\* A mount that failed does not get in the way of its retry: the volume of a pod that
\* kubelet goes on running is mounted in the end, unless a driver process is killed
\* half way.
RetriesGetThrough ==
    \A m \in Point : Given[m] # None /\ Mode[m] # "none" =>
        (PodOf[m] \in wanted) ~> (m \in mounted \/ PodOf[m] \notin wanted \/ kills > 0)
==============================================================================
