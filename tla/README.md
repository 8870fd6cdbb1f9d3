# Infranetes in TLA+

TLA+ models of infranetes, the Kubernetes container runtime that gives every pod
a virtual machine of its own, with TLC runs on small instances and TLAPS proofs
for instances of any size. Paths below are relative to the repository (`src/`).

## 1. The system

kubelet talks CRI (gRPC) to the **infranetes daemon**. The daemon's **Manager**
serves every call in a goroutine of its own, keeps one **PodData** per sandbox,
asks a **pod provider** (AWS, GCP, vSphere, VirtualBox, fake) to boot, stop and
destroy the sandbox's VM, and forwards container calls to the **agent**
(`vmserver`) that runs in the VM. kubelet also starts the **flex volume driver**
(`infranetes_flex`), a short-lived process per mount and unmount, which tells the
daemon which cloud volumes a pod needs.

| Component | State | Operations | Talks to |
|---|---|---|---|
| Manager (`pkg/infranetes/manager.go`, `internal.go`) | `vmMap`: id to PodData; `mountMap`, `volumeMap` | the CRI calls; `AddMount`, `DelMount`; `importSandboxes` at start | provider, agent, driver |
| PodData (`provider/common/poddata.go`) | address, client, `Booted`, `PodState`, `stateLock`, `BootLock` | lock and unlock, state, status, removal | shared by all handlers of the sandbox |
| AWS provider (`provider/aws/aws_pod.go`) | the pool of addresses; per sandbox the used device letters and attached volumes | `RunPodSandbox`, `PreCreateContainer`, `StopPodSandbox`, `RemovePodSandbox`, `ListInstances`, `Attach`, `NeedMount` | EC2, agent |
| Address pool (`pkg/utils/deque.go`) | a list under a lock | `Append`, `Shift`, `FindAndRemove` | AWS and GCP providers |
| Agent client (`provider/common/client.go`) | a connection; nil, fake, open or closed | one method per agent call | agent |
| Flex driver (`cmd/infranetes_flex`, `pkg/infranetes_flex`) | none of its own; a volume may be attached to the node while it is formatted | `do_mount`, `do_umount`, provision, format | daemon, EC2 or GCE, mount(8) |
| GCP, vSphere, VirtualBox and fake providers (`provider/gcp`, `vsphere`, `virtualbox`, `fake`) | a pool of addresses (GCP, fake); VMs named after the pod's uid (GCP, vSphere) or freshly | boot, removal, `ListInstances` | GCE, vCenter, VirtualBox, agent |
| Agent (`pkg/vmserver`) | the pod's address and config, the container table, the tails of the logs, unit files | container life cycle with docker, systemd or nothing behind it, log streams, mounts, proxy | docker, systemd |
| Image providers (`aws_image.go`, `gcp_image.go`, `docker_image.go`, `fake_image.go`) | a table from names to images, or from ids back to names | pull, list, status, remove, translate | docker, EC2, GCE |

What is hard in it:

* **Concurrency.** kubelet gives up on a slow call and repeats it, so two handlers
  for one sandbox overlap. A handler looks its PodData up under `vmMapLock`,
  lets that lock go, and waits for `stateLock` while others remove the sandbox.
  Image pods write PodData fields under the read lock.
* **Failure half way.** A boot is a dozen calls to EC2 and to the agent, most of
  whose errors are logged and passed over. The address goes back to the pool
  before the id leaves `vmMap`.
* **Crashes.** Nothing is stored on disk. A restart rebuilds the pool and `vmMap`
  from the tagged instances that answer; a panic in any handler is a crash.
* **Retries.** kubelet repeats mounts, boots and removals that partly succeeded, and
  what the first try has left behind is in the way of the second.
* **Names.** VMs, units and sandboxes are found by a name that two of them can share:
  the uid of the pod, the pod and name of a container, an address given out again.
* **Streams.** Saving a container's log is a chain of three goroutines on two machines,
  set up after the start has been answered, that RemoveContainer waits for.
* **Liveness.** Locks are held across remote calls, and a waiting writer of a Go
  RWMutex keeps new readers out.

What makes the components correct: an address has one holder and is released
after its VM was told to terminate; no handler uses a client that a removal has cleared; an
image is booted once per pod; every request is answered; no two volumes share a
device; shared volumes are mounted once; mkfs only hits the volume it is for; a
failed mount can be repeated; container calls return and a removed container's
log stream ends; what a container wrote is saved, once; a container never goes back in
its life; an exited container does not run on; the image that runs is one its name has
denoted; a ready sandbox has a VM that no other has; the daemon comes up again and
pods get their sandboxes; and what the CRI and the code's comments say of the
answers holds (it does not everywhere: section 5).

## 2. Modules

| Module | Models |
|---|---|
| `Deque` | the operations of `pkg/utils/deque.go` that the providers use, on sequences |
| `Sandbox` | Manager, PodData, locks, AWS boot, removal and import |
| `SandboxHistory` | `Sandbox` plus what the daemon has answered |
| `Devices` | the EBS volumes of one AWS sandbox |
| `Flex` | flex driver, mount tables, and the sandboxes that use them |
| `Containers` | the containers of a sandbox, the docker provider of the agent, the log streams |
| `ContainerLife` | abstract: what kubelet is promised about a container; `Containers` implements it |
| `Units` | the agent's fake and systemd container providers |
| `Images` | the four image providers and the way of an image from a pod to what runs |
| `Providers` | the GCP, vSphere, VirtualBox and fake pod providers under the Manager |
| `SandboxTable` | abstract: what kubelet is promised about the table of sandboxes; `Providers` implements it where ids are names of VMs |
| `MCSandbox`, `MCSandboxHistory`, `MCDevices`, `MCFlex`, `MCUnits`, `MCProviders` | finite instances |
| `DequeProofs`, `SandboxProofs`, `DevicesProofs`, `FlexProofs`, `ContainersProofs`, `UnitsProofs`, `ImagesProofs`, `ProvidersProofs` | theorems |

Definitions named as mistakes ("A mistake in ...") are variants of an operation
with a plausible bug. No specification uses them; substituted for the operation
they make the property they belong to fail.

### Sandbox

A thread is a handler goroutine; `pc` is the point between two of its calls or
lock operations, `arg` the sandbox id of the request, `ref` the PodData found by
`getPodData`, `todo` what a listing has still to visit. A sandbox id is its pod
address, as in the code. `RunPodSandbox` to `InsertSandbox` is `createSandbox`
with `bootSandbox` split at its calls; `PreCreateContainer` enters the same boot
steps for image pods. `RemovePodSandbox` to `RemoveDelete` follow
`removePodSandbox` line by line, because the order of its last three effects
matters. `StartContainer`, `StopContainer`, `RemoveContainer`, `ContainerStatus`,
`ExecSync`, `Exec`, `Attach` and `PortForward` have the same shape and are one
operation, `ContainerCall`.

`stateLock` is modelled with Go's writer preference: `LockCall` announces the
writer and keeps new readers out, `Lock` waits for the readers that are left.
`vmMapLock` and the pool's lock protect single steps. `Die` is the end of the
process, by a kill (`Crash`) or by one of the code's panics: an empty pool
(aws_pod.go:219), `Close` on a cleared client (poddata.go:137), `Ready` on a
cleared client (poddata.go:219), and `GetMetrics` without a lock
(manager.go:531). `Restart` is `importSandboxes`; the instances it finds may
answer or not, and an error in the middle leaves the pool without the addresses
that were already taken out.

EC2 is external, the vendored libretto in front of it is not. `Terminate` is its
`VM.Destroy`: it asks EC2 to terminate the instance and returns, so the address goes
back to the pool while the instance may still be shutting down (`"terminating"`; the
end is `Terminated`, in EC2's own time). `Destroy` may also report an error after EC2
has obeyed; `doomed` has the PodData whose instance is on its way out for one of the
two reasons. `Provision` is refused while any instance has the address, and it may fail
after the instance exists; `Restart` does not see instances that are going down, since
`listInstances` asks for pending and running ones. The volumes of a sandbox (boot step 5,
`StopPodSandbox` of the provider, the mounts of `createContainer`) are left to
`Devices` and `Flex`. Labels, annotations and the list filter decide nothing
here and are left out; so are log paths, whose write lock is kept (`CreateLog`; the
paths and the streams are in `Containers`).

### SandboxHistory

Adds what callers have seen: the sandboxes returned by `RunPodSandbox` and not
removed since. It follows the steps of `Sandbox` and never restricts them.

### Devices

One sandbox from its boot on. `Attach` and `NeedMount` hold `podData.lock` from
beginning to end and are single steps; `AttachReturns` is everything one call of
`Attach` may do, with each error return. Letters are numbers; `1..MaxAuto` are
those that `Attach` picks by itself, the others can only be named by a flex
volume. After a restart the maps are nil (`made = FALSE`): `Attach` then panics.

### Flex

A driver process is the program counter of its mount point, since kubelet has
one operation per mount point at a time (its side is taken from the vendored
`pkg/volume/flexvolume`: mount only if not mounted, unmount only if mounted).
`Provision`, `FormatAttach`, `Mkfs`, `FormatDetach` are the provisioning and
formatting part, whose errors `do_mount` ignores; `AddMount` and `DelMount` are
the Manager's handlers; the placeholder mount on the node succeeds or fails. A
pod may go through several sandboxes; `listed` is what `createSandbox` read from
`volumeMap` for one of them. `Kill` is a driver that dies with kubelet.

### Containers

One sandbox that stays. A handler is a daemon goroutine together with the agent
goroutine that serves its call: `...Lock` steps are the Manager's, `...Rpc` steps the
docker provider's. The agent looks at no deadline, so when the daemon dies
(`Restart`) the agent's part goes on; such a handler is no longer among `readers`.
Per container there is one log stream: `host` is the daemon's goroutine
(`GetContLogPath`, `SaveLogs`), `logs` the agent's `Logs` handler, `tail` the goroutine
of the vendored tail library, where the waiting happens: it offers a line on an
unbuffered channel and looks whether it has been stopped only after the line was taken;
it ends when the file is gone; its `Stop` waits for its end. Reaching the end of the
file (`TailRead`), setting the first inotify watch (`ChangeEvents`) and waiting for an
event (`WaitForChanges`) are three steps: `watch` is how much of the file had been
written at the last event or, at first, when the watch was set, and what was written
between the first two raises no event. kubelet starts a container once and stops those it has seen running; it
may ask for the removal of any container, also twice.
`ContainerStatus` changes nothing; `StateOf` is the state it derives from what docker
says. Pulls, shared paths and
docker's errors are failures of `CreateRpc`; names, labels, mount bindings and
environment are left out.

### ContainerLife

The specification of a container without handlers, locks, streams or faults: created,
started, exited, removed, in that order, and a copy of its log that is at any time a
beginning of the log. `ImplementsLife` of `Containers` maps docker's state to kubelet's
word for it, the lines in the log file to `written` and those the daemon has saved to
`saved`.

### Units

Both providers keep their own table under `mapLock`, held for a whole call, so a call
is one step (`Execute`); what interleaves is the order in which calls that wait for the
lock, some of them given up on or decided on an old listing, are carried out. A
container's id is its pod and name, without the attempt, hence table entry, unit file
and unit are functions of the name. `disk` is the unit file, `loaded` what systemd has
read at its last daemon-reload, `unit` the main process and `left` the other processes
of the unit that outlived one: the unit file says KillMode=process, so a stop, like an
exit, ends the main process alone (`MainEnds`); a process that is left and runs the
container's binary does so until it ends by itself (`ChildEnds`).
`CreateFails`,
`CreateReloadFails`, `CreatePanics` and `CreateSystemd` are the exits of
`CreateContainer`; the kernel's refusal to overwrite a running program is external
(`Busy`). Nothing tells the provider when a process ends (`Exit`).

### Images

A worker is one of kubelet's pod workers with the handler it waits for: `ImageStatus`,
then `PullImage` if there was no image, then `CreateContainer` with the reference it
got. The aws and gcp providers look the image up before they take their lock, which is
why `PullCloud` and `StoreMap` are two steps. `imageMap` is each provider's table: from
names to images, or, with docker, from ids back to the last name asked for. The tables
of the docker and fake providers have no lock: `Race` is the end of a Go process that
sees a map written while it is used. Names carry a tag and can be given to another
image (`Retag`); `ever` remembers what a name has denoted. Only gcp's PullImage answers
with a reference. What kubelet does with an empty answer is not in the repository, so
`Answer` allows both: ask again, or hand the empty reference to CreateContainer.
`Translate` of the docker provider and the look-up of the gcp pod provider fail on it,
the fake agent does not look at it, and with aws libretto boots its own default AMI in
its place (`Booted`, `Default`).

### Providers

The same Manager over the other four pod providers. The control is the same up to
where names and addresses come from (`Named`, `Pooled`, `IdOf`), so one boot with the
provider as a variable models all: `Provision`, `GetIPs`, `Tag` (gcp), `Connect`,
`Configure`, `InsertSandbox`, with every failure exit (`ProvisionFails`, `BootFails`)
and every panic (an empty pool, `NoIPs`, the nil operation in `Tag`, the unlocked map
of the fake provider). What the agent stores of the sandbox (`config`, `ip`) and the
gcp label (`tag`) decide whether `Restart` finds the VM again; `RestartEmpty` is an
import that breaks off. Errors that the code only logs are choices of the step. The
cloud is external: it refuses a second VM of a name or of an address, may fail with or
without having done what it was asked for, and a VM may stop answering for a while.
libretto's vSphere and VirtualBox `Destroy` halt the VM before they delete it; an error
in between leaves a VM that is switched off and keeps its name (`Halted`), which no one
starts again.
kubelet's part is its garbage collection: it stops what it does not want, removes
stopped sandboxes of deleted pods and older ones of others, and starts a sandbox for a
pod without a ready one, also while a boot it gave up on still runs. Overlapping calls
for one sandbox and PodData's locks are in `Sandbox`.

### SandboxTable

The Manager's map as kubelet sees it: a sandbox of a pod that runs is entered where there
is none, leaves only after it was stopped, and is not ready again as long as the daemon
lives; the end of the process loses all, the import enters any as ready. Entries of
deleted pods may be replaced and lost: with vSphere a boot that kubelet gave up on can
finish while the stopped sandbox of the same name is being removed, and the removal then
deletes the new entry. `ImplementsTable` of `Providers` maps the entries under names of
VMs; under gcp all ids are addresses, which are released before the entry is deleted
(section 5), and the mapped table is empty.

## 3. Runs

| Run | Instance | Shows |
|---|---|---|
| `sandbox_vm` | 2 addresses, 2 PodData, 2 handlers, VM pods | `AddressesHeldOnce`, `ClientStaysDuringCall`, `LiveHasInstance`, `ReleaseAfterDestroy` through overlapping requests, failed boots, panics, crashes and partial imports |
| `sandbox_image` | 1 address, 2 PodData, 3 handlers, image pods | `BootedOnce`, `ClientStaysDuringCall`, `LiveHasInstance` while a third handler stops or removes the pod being booted |
| `sandbox_live` | 1 address, 1 PodData, 3 handlers | `RequestsFinish` |
| `devices` | 4 volumes, 4 letters, 3 handlers, one volume listed twice, one that names a letter the automatic choice also takes | `DevicesDistinct`, `MountedOnce` |
| `flex` | 2 pods that share a volume both want formatted, one provisioned volume, 3 mount points of all three kinds, 1 sandbox, 1 crash, 1 kill | `FormatsOwn`, `ContainersGetVolume`, `RetriesGetThrough` |
| `containers` | 1 container, 2 handlers, 1 line, 1 broken stream or restart | `TailsHaveReader`, `CallsFinish`, `StreamsEnd`, `LinesArrive`, and `ImplementsLife`: the refinement of `ContainerLife` |
| `units` | 2 containers, 2 images, 2 attempts each, 2 handlers, 1 restart, both providers | `ExitedHasNoMain`, `AttemptsNotMixed` |
| `images` | 2 names, 2 images, 2 workers, 2 faults, all four providers | `TableIsTrue`, `BootsNoOther`, `ContainersRun` |
| `providers` | 2 pods, 2 handlers, 2 addresses, 2 faults, all four providers | `AddressesHeldOnce`, `ReadyHasOwnVM`, and `ImplementsTable`: the refinement of `SandboxTable` |
| `providers_live` | the same with 1 pod | `DaemonStarts`, `PodsRun` |
| `history_listed`, `containers_removed` | small instances | counterexamples: section 5 |

Bounds. `MaxPool` stops removals once the pool has its full length; it only bites
with image pods, where an address can be returned twice. `MaxMounts` caps the
mount counter of a volume at 2, one more than `MountedOnce` allows. `MaxCrash`
and `MaxKill` bound failures in `Flex`; `Sandbox` and `Devices` crash without
bound. Two PodData let an address be reused while a handler
still has the removed PodData; with two handlers every pair of calls overlaps,
and the proofs of section 4 remove the bound for the properties that matter most.
Three handlers in the image run are needed for a boot, a second boot and a
removal at a time; `Listings` is FALSE there, which leaves out the two calls that
visit every sandbox (`ListPodSandbox`, `GetMetrics`), since three handlers of
them multiply the states. `sandbox_vm` and `sandbox_live` have them. Four volumes on three automatic
letters, of which failed attempts keep theirs, exhaust the letters. `MaxLines` is 1 in
`containers`: the line may come before the stream, before the tail's watch or after it.
`containers_removed` needs 2, since the broken stream swallows the first line and the tail
blocks on the second; that `TailsHaveReader` and `ImplementsLife` hold for any number of
lines is proved. Containers of
one sandbox meet only at the lock, which a second handler covers; the tail's stream
needs only its own container. In `Units` two names with one image make the units share
a binary, two attempts make an old process meet a new container. `MaxFault` counts what
goes wrong in `Images` (retagged or removed images, races, restarts) and in `Providers`
(crashes, failures of the cloud, outages, sandboxes found not ready): two let a failure
happen while the effects of another are not over, such as a crash after a failed boot
or a second retag between a lookup and its storing. Three fresh names let a VirtualBox or fake
pod have two VMs and boot a third. The state spaces run from a few hundred to about
two million states, each in under four minutes.

Deadlock is checked in the `Sandbox` runs and in `images`. Elsewhere the system may
stop: a `Devices` sandbox ends with its removal, in `Flex` and `Providers` nothing is
left to do once all pods are deleted, in `Containers` both handlers may hang in
RemoveContainer (section 5), and in `Units` the attempts end.

Fairness. `Sandbox` assumes strong fairness of each started handler's next step:
calls to EC2 and the agent return (most have no deadline in the code, so this is
an assumption about the network, and the run says what the locks add to it), Go's
mutexes do not starve a waiter, and the goroutine is scheduled. Requests,
crashes and restarts are not assumed. `Flex` assumes weak fairness of kubelet's
retries, of the driver's steps and of a supervisor that restarts the daemon, and
strong fairness of the placeholder mount, since kubelet retries for ever with
back-off. Volumes that are provisioned are not covered by `RetriesGetThrough`:
every attempt creates a new volume and may exhaust the quota. `Containers` assumes that
docker answers and that the goroutines of handlers and streams are scheduled, with
strong fairness for those that wait for the lock; containers need not write or exit,
and nothing has to break. `Images` assumes that workers go on, and that a pull and a run
that kubelet repeats for ever work some time (strong fairness; kubelet backs off but
does not give up). `Providers` assumes that handlers go on, that unreachable VMs answer
again and that a supervisor restarts the daemon (weak fairness), and that kubelet
repeats RunPodSandbox and its garbage collection (strong fairness, since both are
enabled only between other calls); VMs that are switched off stay so, and `DaemonStarts`
excepts them; the faults are bounded, so in the end the cloud does
what it is asked for.

## 4. Theorems

All are proved with TLAPS for every value of the constants that satisfies the
`ASSUME`s of the modules (a pool without repetitions, an absent value that is no
address, PodData or handler, letters that are numbers, and so on).

* `DequeProofs`: what `Shift`, `PushBack` and `FindAndRemove` do to the elements of
  the pool and to the absence of repetitions.
* `SandboxProofs!TypeCorrect`, `IdsAgree`: `TypeOK` is not inductive by itself, since
  a handler's next step needs to know what its `ref` and `arg` are. The base
  invariant adds `IdsMatch` (a PodData is entered under its own address), `Placed`
  (handlers have the PodData of their id), `Reserved` (nobody else reaches a PodData
  under construction) and `DownIsIdle`.
* `SandboxProofs!LocksAreHeld`, `ClientsStay`: handlers inside a critical section hold
  `stateLock` in the right mode; hence a removal, which needs the write lock, cannot
  clear the client of a running call.
* `SandboxProofs!AddressesUnique`: `AddressesHeldOnce` together with the base invariant
  is inductive. It names every place in which an address can be, and each step moves
  an address from one place to another; the removal's panic on a cleared client is
  what keeps a second removal from releasing the address again.
* `SandboxProofs!ImagesBootOnce`: `BootInv` adds to the locks that BootLock belongs to the
  handler that boots, who saw `Booted` false under it.
* `SandboxProofs!LiveKeepsInstance`: `LiveHasInstance` alone is lost at the end of a boot.
  `Instances` adds who may name an instance: nobody one that is going down, is gone or
  is still being set up, and no two handlers set up the same one. That a removal does not take the
  instance from under an `install` needs the lock theorem.
* `SandboxProofs!ReleasedAfterDestroy`, an action property: `Destroyed` carries "no
  instance of this address runs, unless to shut down" from `RemoveDestroy` over `RemoveClose` to `RemoveRelease`, and
  `AddressesHeldOnce` shows that no boot brings an instance back under that address
  meanwhile.
* `DevicesProofs!DevicesAreDistinct`, `TypeCorrect`: needs `UsedInEc2`, that every letter EC2 has in use
  is marked as long as the maps exist, and that without them `Attach` does not get as
  far as EC2.
* `DevicesProofs!VolumesMountedOnce`: `MountedOnce` does not say who is about to mount.
  `MountOf(v)` does: a handler at `MountFs` is the only one and the first one, because
  `Attach` returns a device only to the call that attached the volume; `Turns` keeps
  `bootSandbox` and the handlers apart.
* `FlexProofs!FormatsAreSafe`: `FormatsOwn` with `AttachedOnce` (a volume is attached in
  one place) and with the fact that a driver at work has a volume.
* `FlexProofs!ContainersSeeVolumes`: `ContainersGetVolume` with `Serialised` (only points
  of deleted pods are unmounted) and `Registered` (the table has the driver's volume
  between `AddMount` and the mount).
* `ContainersProofs!TailsKeepReader`, `TypeCorrect`: `TailsHaveReader` needs `StreamOK`, the
  order in which container, daemon goroutine, Logs handler and tail come into being, so
  that a stream is never started twice; the same part bounds the line counters.
* `ContainersProofs!LifeRefinement`: `Containers` implements `ContainerLife`. The initial
  states agree, and each step is one of the abstract steps or changes nothing the
  abstract specification sees; that a saved line was written, and that a removal only
  succeeds when docker has the container stopped, comes from `StreamOK` and the types.
* `UnitsProofs!TypeCorrect`, `ExitedMainDown`, `NotMixed`: `ExitedHasNoMain` is inductive with the
  types and `FakeHasNoUnits`, because each step that starts a process also sets the
  entry's state. `AttemptsNotMixed`, of main processes and of those left over, rests on the
  kernel's refusal to write a program that runs, and holds whatever was removed or
  forgotten before.
* `ImagesProofs!TypeCorrect`, `TablesAreTrue`, `BootsNoOthersImage`: the table is written
  from what a handler has found some steps earlier. `Found` says that this was found for
  the worker's own name, `WorldTrue` that registry and store only hold what names have
  denoted, and `ever` only grows.
* `ProvidersProofs!TypeCorrect`, `AddressesOnce`: the inductive invariant is `TypeOK` with
  `DownIsEmpty` (a daemon that is not running has neither entries nor calls), `JobOK`
  (what a handler works on has, at each point, the VM and the address that point needs),
  `EntryOK` (an entry is under its own id), `TagsOK` (only VMs of pods are labelled) and
  `AddressesHeldOnce` itself.
* `ProvidersProofs!ReadyKeepsVM`: two arguments, one for each way of naming VMs.
  `OwnNamed`: a pod that runs has at most one sandbox that is booted or entered, because the
  cloud refuses a second VM of its name; so garbage collection finds no older one and
  nobody destroys that VM. `OwnFresh`: a new name is that of no entry and of no other
  handler, so a removal never names the VM of a ready sandbox.
* `ProvidersProofs!TableRefinement`: `Providers` implements `SandboxTable`, from the same
  invariant. `InHand` says what `InsertSandbox` and `DeleteSandbox`, which go by id, can
  meet under it; all other steps leave the table alone or lose it as a whole.

Only model-checked: the liveness properties `RequestsFinish`, `RetriesGetThrough`,
`CallsFinish`, `StreamsEnd`, `LinesArrive`, `ContainersRun`, `DaemonStarts` and `PodsRun`
(fairness is out of the prover's reach). Every invariant, the action property and both
refinements of the passing runs are proved as well.

## 5. Where code and documentation disagree

Two runs end with a counterexample:

* `history_listed`: RemovePodSandbox can delete the entry of a newer sandbox that was
  given the address released a moment before (internal.go:126).
* `containers_removed`: `Logs` leaves its loop when sending fails and leaves the tail
  behind, registered and blocked on its next line. `RemoveContainer` then waits for the
  tail for ever, with the sandbox's read lock held; the next `CreateContainer` or
  `StopPodSandbox` waits for the write lock behind it, and every reader behind that.

Seen in the code while it was modelled. The models behave so, and the properties are
stated for what is left.

Sandboxes:

* A status or listing that finds the agent not answering says NOTREADY and does not store
  it (`GetPodState`, poddata.go:223); with the agent's next answer the sandbox is READY
  again, against the comment at poddata.go:210 "once not ready, always not ready".
* An address is back in the pool as soon as EC2 was told to terminate its instance. A
  sandbox that gets it while the instance still shuts down is refused by EC2, and its
  address is lost until the next start of the daemon. When Destroy reports an error after
  EC2 has obeyed, the sandbox stays READY in `vmMap` without an instance.
* `GetPodState` and `GetMetrics` call through a client that a removal may have cleared
  (poddata.go:219, manager.go:531): a listing during a removal can end the daemon.
* Calls to the agent have no deadline (client.go:250); `RequestsFinish` assumes that they
  return.
* A repeated RemovePodSandbox is an error (internal.go:103), where the CRI asks for success.
* With image pods a stale removal can return an address twice, so `AddressesHeldOnce` of
  `Sandbox` is stated for VM pods.

Volumes:

* `Attach` records the volume before it waits for the device (aws_pod.go:527). If the wait
  fails, `NeedMount` says no from then on, and createContainer takes that for "already
  mounted it inside the VM" (internal.go:239).
* Removing a sandbox deletes the volume list of its pod (internal.go:127): the sequence
  AddMount, RunPodSandbox, RemovePodSandbox, RunPodSandbox leaves the second sandbox
  without its volumes, although kubelet has no reason to mount again.
* After a crash of the daemon `ContainersGetVolume` does not hold (the tables are not
  rebuilt), and a driver killed between `AddMount` and the mount blocks its mount point
  (`RetriesGetThrough` excludes it).

Containers, docker agent:

* `ContainerStatus` of a container that could not be started says CREATED, because the
  second case (docker_container.go:373) repeats the condition of the first, where the
  comment at line 358 says "container has failed to start; it has a zero finishedAt time,
  but a non-zero exit code" and the branch sets EXITED (`StateOf`).
* The tail reads the end of the log (tail.go:268) before it watches the file
  (watch/inotify.go:69). A line written in between raises no event, where the comment of
  `waitForChanges` (tail.go:334) says it "waits until the file has been appended"; the next
  event brings it, and if there is none it is never saved (`Unnoticed`, which
  `LinesArrive` excepts).
* RemoveContainer is not forced (docker_container.go:247), where the CRI asks for it.

Containers, systemd and fake agents (systemd_container.go unless named):

* A filter without a state dereferences nil and ends the agent (235); so does a mount
  whose source does not exist (120). The id filter of both agents and the state filter
  of the systemd agent leave out what they should keep (fake_container.go:132, 230, 235).
* The error of writing the unit file is ignored (60). A second container of an image whose
  program runs cannot be created (99): the program is named after the image alone.
* Units have KillMode=process (51). After StopContainer, which is how StopPodSandbox ends
  containers, their other processes run on, where the CRI says of StopPodSandbox that it
  "stops any running process that is part of the sandbox"; `ExitedHasNoMain` is about main
  processes for this reason.
* RemoveContainer leaves the unit running (203), the end of a process goes unnoticed and
  its exit code is always 0, and a start that is carried out after a stop starts the
  container again.

Images:

* The docker provider has one name per id, the last one asked for: of two names of one
  image a pod may get the other's, and with it what that name denotes by then.
* PullImage of the aws, docker and fake providers returns no reference. An empty one makes
  CreateContainer fail with docker, and `ContainersRun` shows that a later attempt gets
  through; with fake it is accepted. With aws (aws_image.go:166 and 194) it boots libretto's
  default AMI, whose VM keeps the sandbox's address and is in the way of the right one,
  where the comment at aws_pod.go:287 says "Don't need to convert, getting the AMI here";
  `BootsNoOther` excepts that image, and `ContainersRun` the aws provider.
* RemoveImage with an id, which is what kubelet passes, does nothing with the aws and gcp
  providers. The gcp pod provider looks the reference it is given up as a name and so
  never boots an image pod.

Other pod providers:

* VMs of gcp and vSphere have the uid alone as their name (gcp_pod.go:185,
  vsphere_pod.go:223). A VM that a failed boot has left is in the way of every later
  sandbox of the pod, which is why `PodsRun` is not stated for them; nor can a sandbox be
  replaced before its VM is gone.
* A failed boot leaves its VM, and with gcp and the fake provider its address, behind. An
  empty pool is a panic, and so is a failed SetLabels (gcp `util.go`), whose operation is
  asked for before its error is looked at; that operation is of a zone and waited for as
  a global one.
* When StartProxy fails the client is closed but kept: the sandbox is entered, and cannot
  be stopped. A Destroy that reports failure after the VM is gone fails ever after, and the
  sandbox stays in `vmMap`.
* A vSphere VM that does not answer ends every start of the daemon (vsphere_pod.go:185).
  One that a failed Destroy has switched off but not deleted never answers, so that the
  daemon does not come up until somebody deletes it; `DaemonStarts` excepts it.
* An import makes stopped sandboxes READY, and with gcp it leaves the compute service and
  the attachments of the sandbox nil. VirtualBox sandboxes are not imported, their VMs
  stay. The fake provider's map is neither locked nor cleaned.

## 6. Not modelled, and the plan

Not modelled, and not planned:

* exec, attach and port-forward streams: bytes passed between libraries; the lookups and
  locks of the calls that open them are `ContainerCall` of `Sandbox`;
* the service proxy, iptables and routes in the VM: kernel tables written once at boot,
  whose success or failure is a choice in `Configure`;
* disks, routes and elastic addresses of the providers other than the EBS volumes of
  `Devices`, and image pods of gcp, which never boot (section 5);
* provider registries, flags and configuration files, the main programs and the manual
  test programs: read or run once;
* the older driver in `provider/aws/ebs_vol`, which nothing uses, and generated code.

Left to do, in this order:

1. The ten attempts of `CreateRealClient` and the wait loops of `Attach` and of GCE
   operations, one outcome each so far, as a bounded retry with its timing.
2. An abstract account of the addresses (free, held, lost until the next start) that
   `Sandbox` and `Providers` both refine.
