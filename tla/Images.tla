------------------------------- MODULE Images -------------------------------
(***************************************************************************)
(* The image providers of the daemon (provider/aws/aws_image.go,           *)
(* gcp_image.go, docker_image.go, fake_image.go), the Manager's image      *)
(* calls, and the way of an image from the name in a pod to what runs.     *)
(*                                                                         *)
(* kubelet asks ImageStatus for a name, calls PullImage when there is      *)
(* none, and hands the reference it got to CreateContainer, which has the  *)
(* provider translate it.  The aws and gcp providers keep a table from     *)
(* names to images under a lock, but look the image up before they take    *)
(* it.  The docker provider keeps a table from ids back to names, without  *)
(* a lock; the agent in the VM pulls that name again.  Names carry a tag;  *)
(* what a name denotes can change.                                         *)
(***************************************************************************)
EXTENDS Naturals

CONSTANTS
    Name,       \* image names, with their tag
    Id,         \* images
    Worker,     \* kubelet's pod workers, each with the handler it waits for
    Default,    \* the VM image that libretto boots when it is given none
    MaxFault,   \* bound: retagged or removed images and restarts of the daemon
    None        \* the absent value, and the empty reference

ASSUME FaultAssumption == MaxFault \in Nat
ASSUME ImagesAssumption ==
    /\ None \notin Name \cup Id /\ Name \cap Id = {}
    /\ Default \notin Name \cup Id \cup {None}

VARIABLES
    kind,       \* the image provider
    registry,   \* the image that a name denotes in the cloud or the registry
    ever,       \* all images it has denoted
    store,      \* the docker daemon of the node: images by name
    imageMap,   \* the provider's table
    pc,         \* what each worker does next
    name,       \* the name in the pod of the worker
    found,      \* what its handler or the worker itself has found for it
    faults      \* retagged or removed images and restarts so far

world == <<registry, ever, faults>>
vars  == <<kind, world, store, imageMap, pc, name, found>>

Kind == {"aws", "gcp", "docker", "fake"}
Pcs  == {"idle", "status", "note", "pull", "storeMap", "create", "run"}

Step(t, l) == pc' = [pc EXCEPT ![t] = l] /\ UNCHANGED name
Find(t, x) == found' = [found EXCEPT ![t] = x]

\* ListImages with a name.  ImageStatus of the aws and gcp providers appends a tag to
\* a name without one, so that an id is not found even if the table had it.
Listed(x) ==
    IF kind = "docker" THEN (IF x \in Name THEN store[x] ELSE None)
    ELSE IF x \in Name THEN imageMap[x] ELSE None

------------------------------------------------------------------------------
(* ImageStatus and PullImage                                                *)

\* A pod needs a container of an image.
Ask(t, n) ==
    /\ pc[t] = "idle"
    /\ pc' = [pc EXCEPT ![t] = "status"]
    /\ name' = [name EXCEPT ![t] = n]
    /\ Find(t, None)
    /\ UNCHANGED <<kind, world, store, imageMap>>

\* The docker provider has yet to note the name that was asked for.
ImageStatus(t) ==
    /\ pc[t] = "status"
    /\ Find(t, Listed(name[t]))
    /\ Step(t, IF Listed(name[t]) = None THEN "pull"
               ELSE IF kind = "docker" THEN "note" ELSE "create")
    /\ UNCHANGED <<kind, world, store, imageMap>>

\* A mistake in NoteName: the table is kept the other way round.
NoteNameInverted(t) ==
    /\ pc[t] = "note"
    /\ imageMap' = [imageMap EXCEPT ![name[t]] = found[t]]
    /\ Step(t, "create")
    /\ UNCHANGED <<kind, world, store, found>>

NoteName(t) ==
    /\ pc[t] = "note"
    /\ imageMap' = [imageMap EXCEPT ![found[t]] = name[t]]
    /\ Step(t, "create")
    /\ UNCHANGED <<kind, world, store, found>>

\* PullImage answers with a reference or with an empty one.  The CRI asks for a
\* reference: a client may ask again for one, or hand the empty one on.
Answer(t, x) ==
    /\ Find(t, x)
    /\ Step(t, "create") \/ (x = None /\ Step(t, "status"))

\* A mistake in Pulled: the name is taken for the image.
PulledName(n) == n

\* DescribeImages, Images.List or docker's pull find the image of a name.
Pulled(n) == registry[n]

\* The aws and gcp providers have looked the image up and have yet to enter it.
PullCloud(t) ==
    /\ kind \in {"aws", "gcp"}
    /\ Find(t, Pulled(name[t]))
    /\ Step(t, "storeMap")
    /\ UNCHANGED <<store, imageMap>>

\* The docker provider is done and returns no reference; nor does the fake provider,
\* whose images are their names.
PullDocker(t) ==
    /\ kind = "docker"
    /\ store' = [store EXCEPT ![name[t]] = Pulled(name[t])]
    /\ Answer(t, None)
    /\ UNCHANGED imageMap

PullFake(t) ==
    /\ kind = "fake"
    /\ imageMap' = [imageMap EXCEPT ![name[t]] = name[t]]
    /\ Answer(t, None)
    /\ UNCHANGED store

PullImage(t) ==
    /\ pc[t] = "pull"
    /\ PullCloud(t) \/ PullDocker(t) \/ PullFake(t)
    /\ UNCHANGED <<kind, world>>

\* The cloud does not answer, or names no image or several; kubelet tries again.
PullFails(t) ==
    /\ pc[t] = "pull" /\ kind # "fake"
    /\ Step(t, "status")
    /\ UNCHANGED <<kind, world, store, imageMap, found>>

\* A mistake in StoreMap: the result of a lookup is kept in the provider, where that
\* of another handler may be.
StoreMapShared(t) ==
    /\ pc[t] = "storeMap"
    /\ \E u \in Worker :
          /\ pc[u] = "storeMap"
          /\ imageMap' = [imageMap EXCEPT ![name[t]] = found[u]]
    /\ Answer(t, IF kind = "gcp" THEN found[t] ELSE None)
    /\ UNCHANGED <<kind, world, store>>

\* The image is entered under the lock, whatever the table has got meanwhile.  The
\* response of the aws provider has no reference.
StoreMap(t) ==
    /\ pc[t] = "storeMap"
    /\ imageMap' = [imageMap EXCEPT ![name[t]] = found[t]]
    /\ Answer(t, IF kind = "gcp" THEN found[t] ELSE None)
    /\ UNCHANGED <<kind, world, store>>

------------------------------------------------------------------------------
(* CreateContainer                                                          *)

\* Only the docker provider translates, from an id to a name.
Translate(x) == IF kind = "docker" THEN (IF x = None THEN None ELSE imageMap[x]) ELSE x

\* libretto: a VM without an image gets the default one.
Booted(x) == IF kind = "aws" /\ x = None THEN Default ELSE x

\* The gcp pod provider looks the reference up once more, as if it were a name.
Requested(x) == IF kind = "gcp" THEN Listed(x) ELSE Translate(x)

\* Translate of the docker provider fails without an entry, and so does the look-up
\* of the gcp pod provider.  The aws pod provider takes the reference for the image
\* to boot, an empty one too, and the agent's fake provider does not look at it.
CreateContainer(t) ==
    /\ pc[t] = "create"
    /\ LET x == Requested(found[t])
       IN /\ Find(t, Booted(x))
          /\ Step(t, IF x = None /\ kind \in {"docker", "gcp"} THEN "status" ELSE "run")
    /\ UNCHANGED <<kind, world, store, imageMap>>

\* The VM is booted from the image, or the agent in the VM pulls the name and creates
\* the container.
Run(t) ==
    /\ pc[t] = "run"
    /\ pc' = [pc EXCEPT ![t] = "idle"]
    /\ name' = [name EXCEPT ![t] = None]
    /\ Find(t, None)
    /\ UNCHANGED <<kind, world, store, imageMap>>

\* The boot, the agent's pull or docker fails; kubelet tries again.
RunFails(t) ==
    /\ pc[t] = "run"
    /\ Step(t, "status")
    /\ UNCHANGED <<kind, world, store, imageMap, found>>

------------------------------------------------------------------------------
(* Removal, other users of the registry and the daemon's process            *)

Fault == faults < MaxFault /\ faults' = faults + 1

\* A name is given to another image.
Retag(n, i) ==
    /\ Fault
    /\ registry' = [registry EXCEPT ![n] = i]
    /\ ever' = [ever EXCEPT ![n] = @ \cup {i}]
    /\ UNCHANGED <<kind, store, imageMap, pc, name, found>>

\* kubelet's garbage collection passes an id that ListImages gave it.  The tables of
\* the aws and gcp providers have only names as keys, so such a removal does nothing;
\* the ids of the fake provider are names.
RemoveEntry(x) ==
    /\ kind # "docker" /\ imageMap[x] # None
    /\ imageMap' = [imageMap EXCEPT ![x] = None]
    /\ UNCHANGED store

RemoveDocker(x) ==
    /\ kind = "docker" /\ x \in Id
    /\ store' = [n \in Name |-> IF store[n] = x THEN None ELSE store[n]]
    /\ UNCHANGED imageMap

RemoveImage(x) ==
    /\ Fault
    /\ RemoveEntry(x) \/ RemoveDocker(x)
    /\ UNCHANGED <<kind, registry, ever, pc, name, found>>

\* The daemon ends and is started again: its table is empty, its calls fail.
Die ==
    /\ imageMap' = [x \in Name \cup Id |-> None]
    /\ pc' = [t \in Worker |-> IF pc[t] = "idle" THEN "idle" ELSE "status"]
    /\ found' = [t \in Worker |-> None]
    /\ UNCHANGED <<kind, registry, ever, store, name>>

Restart == Fault /\ Die

\* Go ends a process in which it sees a map written while another goroutine uses it.
\* The tables of the docker and fake providers have no lock.
Writes(t) == <<kind, pc[t]>> \in {<<"docker", "note">>, <<"fake", "pull">>}
Uses(t) == Writes(t) \/ <<kind, pc[t]>> \in {<<"docker", "create">>, <<"fake", "status">>}

Race(t, u) ==
    /\ t # u /\ Writes(t) /\ Uses(u)
    /\ Fault /\ Die

------------------------------------------------------------------------------

Init ==
    /\ kind \in Kind
    /\ registry \in [Name -> Id]
    /\ ever = [n \in Name |-> {registry[n]}]
    /\ store = [n \in Name |-> None]
    /\ imageMap = [x \in Name \cup Id |-> None]
    /\ pc = [t \in Worker |-> "idle"]
    /\ name = [t \in Worker |-> None]
    /\ found = [t \in Worker |-> None]
    /\ faults = 0

WorkerStep(t) ==
    \/ ImageStatus(t) \/ NoteName(t) \/ PullImage(t) \/ PullFails(t) \/ StoreMap(t)
    \/ CreateContainer(t) \/ Run(t) \/ RunFails(t)

Next ==
    \/ \E t \in Worker : WorkerStep(t) \/ \E n \in Name : Ask(t, n)
    \/ \E n \in Name, i \in Id : Retag(n, i)
    \/ \E x \in Name \cup Id : RemoveImage(x)
    \/ \E t, u \in Worker : Race(t, u)
    \/ Restart

\* kubelet's workers go on, and what they try again and again works some time.
Fairness ==
    \A t \in Worker : WF_vars(WorkerStep(t)) /\ SF_vars(PullImage(t)) /\ SF_vars(Run(t))

Spec == Init /\ [][Next]_vars /\ Fairness

------------------------------------------------------------------------------
(* Properties                                                               *)

\* Every variable keeps its type.
TypeOK ==
    /\ kind \in Kind
    /\ registry \in [Name -> Id]
    /\ ever \in [Name -> SUBSET Id]
    /\ store \in [Name -> Id \cup {None}]
    /\ imageMap \in [Name \cup Id -> Name \cup Id \cup {None}]
    /\ pc \in [Worker -> Pcs]
    /\ name \in [Worker -> Name \cup {None}]
    /\ found \in [Worker -> Name \cup Id \cup {Default, None}]
    /\ faults \in 0 .. MaxFault

\* The table only says what was true once: a name it has for an image, or an image
\* it has for a name, has been denoted by that name, although lookups are stored out
\* of order and the docker table outlives the images (PullImage, ImageStatus).
TableIsTrue ==
    /\ kind \in {"aws", "gcp"} =>
          \A n \in Name : imageMap[n] # None => imageMap[n] \in ever[n]
    /\ kind = "docker" =>
          \A i \in Id : imageMap[i] # None => i \in ever[imageMap[i]]

\* A VM image about to be booted as a pod is one that the pod's image name has
\* denoted, or libretto's default: never that of another name, although lookups of
\* several workers are entered out of order (PullImage, ImageStatus,
\* PreCreateContainer of the aws pod provider).
BootsNoOther ==
    kind = "aws" =>
        \A t \in Worker : pc[t] = "run" => found[t] \in ever[name[t]] \cup {Default}

\* A container whose image is asked for is created in the end, although the docker
\* provider's pull returns no reference and Translate then fails, a restart forgets
\* the table, and images are removed between the calls.  Not so with the gcp provider,
\* which looks the reference up as a name; with aws the VM booted from the default
\* image may stay in the way.
ContainersRun ==
    \A t \in Worker :
        (kind \in {"docker", "fake"} /\ pc[t] = "status") ~> (pc[t] = "idle")
==============================================================================
