------------------------------- MODULE Devices -------------------------------
(***************************************************************************)
(* The EBS volumes of one booted AWS sandbox: podData.Attach, NeedMount    *)
(* and detach (provider/aws/aws_pod.go) as bootSandbox, CreateContainer    *)
(* and StopPodSandbox use them.  Attach and NeedMount hold podData.lock    *)
(* from beginning to end, waiting for EC2 included, so each is one step.   *)
(***************************************************************************)
EXTENDS Integers, Sequences

CONSTANTS
    Vol,        \* EBS volumes
    Handler,    \* CreateContainer handlers
    Volumes,    \* the sandbox's flex volumes, as RunPodSandbox gets them
    MaxAuto,    \* the device letters 'f'..'p' are the numbers 1..MaxAuto
    Letter,     \* all device letters, those only a flex volume can name included
    None        \* no device

Request == [vol : Vol, device : Letter \cup {None}, mount : BOOLEAN]

ASSUME LetterAssumption == MaxAuto \in Nat /\ Letter \subseteq Nat /\ 1..MaxAuto \subseteq Letter
ASSUME NoneAssumption == None \notin Letter
ASSUME VolumesAssumption == Volumes \in Seq(Request)

VARIABLES
    phase,      \* of the sandbox; "down" when the daemon is not running
    made,       \* usedDevices and attached are maps, not nil
    used,       \* podData.usedDevices
    attached,   \* podData.attached
    volumes,    \* podData.volumes
    next,       \* the volume that bootSandbox is at
    ec2,        \* the device under which EC2 has the volume on this instance
    mounts,     \* how often the volume is mounted in the VM
    pc,         \* what each handler does next
    arg         \* the volume it works on

sandbox == <<phase, made, volumes, next>>
vars == <<sandbox, used, attached, ec2, mounts, pc, arg>>

MaxMounts == 2
Phases == {"booting", "bootMount", "running", "down", "gone"}

\* A mistake in the import: the maps are made, but empty.
DieMakesMaps ==
    /\ phase' = "down"
    /\ pc' = [h \in Handler |-> "idle"]
    /\ arg' = [h \in Handler |-> None]
    /\ made' = TRUE
    /\ used' = {}
    /\ attached' = [v \in Vol |-> None]
    /\ volumes' = <<>>
    /\ next' = Len(Volumes) + 1
    /\ UNCHANGED <<ec2, mounts>>

\* The daemon dies.  What an import later knows of the VM is an empty podData: no
\* volumes, nil maps.
Die == /\ phase' = "down"
       /\ pc' = [h \in Handler |-> "idle"]
       /\ arg' = [h \in Handler |-> None]
       /\ made' = FALSE
       /\ used' = {}
       /\ attached' = [v \in Vol |-> None]
       /\ volumes' = <<>>
       /\ next' = Len(Volumes) + 1
       /\ UNCHANGED <<ec2, mounts>>

\* The letter that Attach takes: the one that is asked for unless it is used, else
\* the first free one of 'f'..'p'.  There may be none.
FreeAuto == (1..MaxAuto) \ used
Choice(device) ==
    IF device # None THEN {device} \ used
    ELSE {c \in FreeAuto : \A d \in FreeAuto : c <= d}

\* A mistake in Attach: a volume that is attached is reported with its device.
AttachReturnsAgain(v, device, dev) ==
    \/ /\ attached[v] # None
       /\ dev = attached[v]
       /\ UNCHANGED <<used, attached, ec2>>
    \/ \E c \in Choice(device) :
          /\ attached[v] = None /\ made
          /\ used' = used \cup {c}
          /\ ec2' = [ec2 EXCEPT ![v] = c]
          /\ attached' = [attached EXCEPT ![v] = c]
          /\ dev = c

\* What a call of Attach may do, and what it returns: a device or None (an error).
\* The letter is marked before AttachVolume and stays marked; the volume counts as
\* attached as soon as AttachVolume succeeds, whatever the wait that follows says.
\* EC2 refuses a volume that is attached.
AttachReturns(v, device, dev) ==
    \/ /\ attached[v] # None
       /\ dev = IF attached[v] = device THEN device ELSE None
       /\ UNCHANGED <<used, attached, ec2>>
    \/ /\ attached[v] = None /\ Choice(device) = {}
       /\ dev = None
       /\ UNCHANGED <<used, attached, ec2>>
    \/ \E c \in Choice(device) :
          /\ attached[v] = None /\ made
          /\ used' = used \cup {c}
          /\ \/ dev = None /\ UNCHANGED <<attached, ec2>>
             \/ /\ ec2[v] = None
                /\ ec2' = [ec2 EXCEPT ![v] = c]
                /\ attached' = [attached EXCEPT ![v] = c]
                /\ dev \in {c, None}

\* Marking the letter in a nil map panics.
AttachPanics(v, device) == attached[v] = None /\ Choice(device) # {} /\ ~made

------------------------------------------------------------------------------
\* bootSandbox attaches the volumes one by one and mounts those with a mount
\* point; errors are only logged.
BootAttach ==
    /\ phase = "booting" /\ next <= Len(Volumes)
    /\ LET vol == Volumes[next] IN
       \E dev \in Letter \cup {None} :
          /\ AttachReturns(vol.vol, vol.device, dev)
          /\ IF dev # None /\ vol.mount
             THEN phase' = "bootMount" /\ UNCHANGED next
             ELSE next' = next + 1 /\ UNCHANGED phase
    /\ UNCHANGED <<made, volumes, mounts, pc, arg>>

Mounted(v) == mounts' = [mounts EXCEPT ![v] = IF @ = MaxMounts THEN @ ELSE @ + 1]

BootMount ==
    /\ phase = "bootMount"
    /\ Mounted(Volumes[next].vol) \/ UNCHANGED mounts
    /\ phase' = "booting"
    /\ next' = next + 1
    /\ UNCHANGED <<made, volumes, used, attached, ec2, pc, arg>>

BootDone ==
    /\ phase = "booting" /\ next > Len(Volumes)
    /\ phase' = "running"
    /\ UNCHANGED <<made, volumes, next, used, attached, ec2, mounts, pc, arg>>

\* createContainer under the sandbox's read lock: NeedMount, AttachVol, MountFs.
NeedMount(v) == attached[v] = None

CreateContainer(h, v) ==
    /\ phase = "running" /\ pc[h] = "idle"
    /\ NeedMount(v)
    /\ pc' = [pc EXCEPT ![h] = "attach"]
    /\ arg' = [arg EXCEPT ![h] = v]
    /\ UNCHANGED <<sandbox, used, attached, ec2, mounts>>

AttachVol(h) ==
    /\ pc[h] = "attach"
    /\ \/ AttachPanics(arg[h], None) /\ Die
       \/ \E dev \in Letter \cup {None} :
             /\ AttachReturns(arg[h], None, dev)
             /\ pc' = [pc EXCEPT ![h] = IF dev = None THEN "idle" ELSE "mount"]
             /\ UNCHANGED <<sandbox, mounts, arg>>

MountFs(h) ==
    /\ pc[h] = "mount"
    /\ Mounted(arg[h]) \/ UNCHANGED mounts
    /\ pc' = [pc EXCEPT ![h] = "idle"]
    /\ UNCHANGED <<sandbox, used, attached, ec2, arg>>

Listed == {volumes[i].vol : i \in 1..Len(volumes)}
WithMountPoint == {volumes[i].vol : i \in {j \in 1..Len(volumes) : volumes[j].mount}}

\* A mistake in StopPodSandbox: a volume that is not mounted is unmounted.
StopPodSandboxAll ==
    /\ phase = "running"
    /\ \A h \in Handler : pc[h] = "idle"
    /\ mounts' = [v \in Vol |-> IF v \in WithMountPoint THEN mounts[v] - 1 ELSE mounts[v]]
    /\ ec2' = [v \in Vol |-> IF v \in Listed THEN None ELSE ec2[v]]
    /\ volumes' = <<>>
    /\ UNCHANGED <<phase, made, next, used, attached, pc, arg>>

\* StopPodSandbox under the write lock: every volume is unmounted and detached, or
\* the failure is logged; the list is dropped, the maps are kept.
StopPodSandbox ==
    /\ phase = "running"
    /\ \A h \in Handler : pc[h] = "idle"
    /\ \E ok \in SUBSET WithMountPoint, off \in SUBSET Listed :
          /\ mounts' = [v \in Vol |-> IF v \in ok /\ mounts[v] > 0 THEN mounts[v] - 1 ELSE mounts[v]]
          /\ ec2' = [v \in Vol |-> IF v \in off THEN None ELSE ec2[v]]
    /\ volumes' = <<>>
    /\ UNCHANGED <<phase, made, next, used, attached, pc, arg>>

\* RemovePodSandbox destroys the VM, and EC2 detaches what it had.
RemovePodSandbox ==
    /\ phase = "running"
    /\ \A h \in Handler : pc[h] = "idle"
    /\ phase' = "gone"
    /\ ec2' = [v \in Vol |-> None]
    /\ mounts' = [v \in Vol |-> 0]
    /\ UNCHANGED <<made, volumes, next, used, attached, pc, arg>>

\* A VM whose boot was cut short is not imported; any other one is, unless its
\* agent does not answer, with an empty podData: no volumes, nil maps.
Crash == phase = "running" /\ Die

CrashWhileBooting ==
    /\ phase \in {"booting", "bootMount"}
    /\ phase' = "gone"
    /\ UNCHANGED <<made, volumes, next, used, attached, ec2, mounts, pc, arg>>

Restart ==
    /\ phase = "down"
    /\ phase' \in {"running", "gone"}
    /\ UNCHANGED <<made, volumes, next, used, attached, ec2, mounts, pc, arg>>

Init == /\ phase = "booting"
        /\ made = TRUE
        /\ used = {}
        /\ attached = [v \in Vol |-> None]
        /\ volumes = Volumes
        /\ next = 1
        /\ ec2 = [v \in Vol |-> None]
        /\ mounts = [v \in Vol |-> 0]
        /\ pc = [h \in Handler |-> "idle"]
        /\ arg = [h \in Handler |-> None]

Next == \/ BootAttach \/ BootMount \/ BootDone
        \/ \E h \in Handler : \/ \E v \in Vol : CreateContainer(h, v)
                              \/ AttachVol(h) \/ MountFs(h)
        \/ StopPodSandbox \/ RemovePodSandbox
        \/ Crash \/ CrashWhileBooting \/ Restart

Spec == Init /\ [][Next]_vars

------------------------------------------------------------------------------
\* The state is well formed; in particular no volume is mounted less than zero times.
TypeOK ==
    /\ phase \in Phases
    /\ made \in BOOLEAN
    /\ used \subseteq Letter
    /\ attached \in [Vol -> Letter \cup {None}]
    /\ volumes \in Seq(Request)
    /\ next \in 1..(Len(Volumes) + 1)
    /\ ec2 \in [Vol -> Letter \cup {None}]
    /\ mounts \in [Vol -> 0..MaxMounts]
    /\ pc \in [Handler -> {"idle", "attach", "mount"}]
    /\ arg \in [Handler -> Vol \cup {None}]

\* EC2 is never asked for a device that a volume of the instance already has, after
\* failed attachments, stopped sandboxes and restarts too.
DevicesDistinct ==
    \A v, w \in Vol : ec2[v] # None /\ ec2[v] = ec2[w] => v = w

NamedOnce(v) == \A i, j \in 1..Len(Volumes) : Volumes[i].vol = v /\ Volumes[j].vol = v => i = j
\* Containers that share a volume mount it once, although NeedMount and AttachVol
\* are two critical sections.  (A volume that AddMount was given twice, with the
\* device named, is mounted twice at boot.)
MountedOnce == \A v \in Vol : NamedOnce(v) => mounts[v] <= 1
==============================================================================
