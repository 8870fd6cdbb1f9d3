----------------------------- MODULE ImagesProofs -----------------------------
(***************************************************************************)
(* Theorems about Images for any names, images and workers.                *)
(***************************************************************************)
EXTENDS Images, TLAPS

\* What a name denotes, and what the node's docker daemon has for it, it has
\* denoted at some time.
WorldTrue == /\ \A n \in Name : registry[n] \in ever[n]
             /\ \A n \in Name : store[n] # None => store[n] \in ever[n]

\* A worker that is not idle has a name, and a lookup that is yet to be entered is
\* at a provider that enters lookups.
Asked ==
    \A t \in Worker :
        /\ pc[t] # "idle" => name[t] \in Name
        /\ pc[t] = "storeMap" => kind \in {"aws", "gcp"}
        /\ pc[t] = "note" => kind = "docker"

\* What a handler has found between its steps, it has found for the worker's own
\* name: a table entry is written from it without another look at the registry.
\* Only the aws provider gets to libretto's default image.
Found ==
    \A t \in Worker :
        /\ found[t] = Default => kind = "aws"
        /\ pc[t] \in {"storeMap", "note"} => found[t] \in Id /\ found[t] \in ever[name[t]]
        /\ kind = "aws" /\ pc[t] = "create" /\ found[t] # None => found[t] \in ever[name[t]]

\* The docker provider's table leads from images to names.
NamesById == kind = "docker" => \A i \in Id : imageMap[i] \in Name \cup {None}

ImageInv == TypeOK /\ NamesById /\ WorldTrue /\ Asked /\ Found /\ TableIsTrue /\ BootsNoOther

\* A name is never forgotten what it has denoted.
Remembers == \A n \in Name : ever[n] \subseteq ever'[n]

\* A step that leaves the tables and the workers alone keeps what is true of them.
LEMMA WorldKeeps ==
    ASSUME ImageInv, Remembers, UNCHANGED <<kind, imageMap, pc, name, found>>
    PROVE  Asked' /\ Found' /\ TableIsTrue' /\ BootsNoOther'
<1>1. \A t \in Worker : pc[t] # "idle" => name[t] \in Name
  BY DEF ImageInv, Asked
<1>2. Asked' /\ Found'
  BY <1>1 DEF ImageInv, Asked, Found, Remembers
<1>3. kind = "docker" => \A i \in Id : imageMap[i] # None => imageMap[i] \in Name
  BY DEF ImageInv, NamesById
<1>4. TableIsTrue'
  BY <1>3 DEF ImageInv, TableIsTrue, Remembers
<1>5. BootsNoOther'
  BY <1>1 DEF ImageInv, BootsNoOther, Remembers
<1> QED
  BY <1>2, <1>4, <1>5

\* What is claimed of one worker, for the frame below.
Trust(t) ==
    /\ found[t] = Default => kind = "aws"
    /\ pc[t] # "idle" => name[t] \in Name
    /\ pc[t] = "storeMap" => kind \in {"aws", "gcp"}
    /\ pc[t] = "note" => kind = "docker"
    /\ pc[t] \in {"storeMap", "note"} => found[t] \in Id /\ found[t] \in ever[name[t]]
    /\ kind = "aws" /\ pc[t] = "create" /\ found[t] # None => found[t] \in ever[name[t]]
    /\ kind = "aws" /\ pc[t] = "run" => found[t] \in ever[name[t]] \cup {Default}

\* The claims about all workers are the claims about each.
LEMMA TrustAll == Asked /\ Found /\ BootsNoOther <=> \A t \in Worker : Trust(t)
  BY DEF Asked, Found, BootsNoOther, Trust

\* t takes a step of its own and the others stay where they are.
Alone(t) == /\ \A u \in Worker : u # t => pc'[u] = pc[u] /\ name'[u] = name[u] /\ found'[u] = found[u]
            /\ UNCHANGED <<kind, world>>

\* It remains to show the claims about t.
LEMMA AloneKeeps ==
    ASSUME \A u \in Worker : Trust(u), NEW t \in Worker, Alone(t), Trust(t)'
    PROVE  Asked' /\ Found' /\ BootsNoOther'
<1>1. \A u \in Worker : Trust(u)'
  BY DEF Alone, Trust, world
<1> QED
  BY <1>1 DEF Asked, Found, BootsNoOther, Trust

\* A handler's step keeps the types and moves only its own worker.
LEMMA WorkerTypes ==
    ASSUME ImageInv, NEW t \in Worker, WorkerStep(t)
    PROVE  TypeOK' /\ Alone(t)
<1> USE DEF Alone, Answer, Find, Step, world
<1>t. /\ TypeOK /\ NamesById
      /\ pc[t] # "idle" => name[t] \in Name
      /\ pc[t] \in {"note", "storeMap"} => found[t] \in Id
      /\ kind = "docker" => found[t] \in Name \cup Id \cup {None}
  BY DEF ImageInv, Asked, Found, TypeOK
<1>1. CASE ImageStatus(t)
  <2>1. Listed(name[t]) \in Name \cup Id \cup {None}
    BY <1>t DEF Listed, TypeOK
  <2> QED
    BY <1>1, <1>t, <2>1 DEF ImageStatus, TypeOK, Pcs
<1>2. CASE NoteName(t)
  BY <1>2, <1>t DEF NoteName, TypeOK, Pcs
<1>3. CASE PullImage(t)
  <2>1. Pulled(name[t]) \in Id /\ name[t] \in Name
    BY <1>3, <1>t DEF PullImage, Pulled, TypeOK
  <2>2. CASE PullCloud(t)
    BY <1>3, <1>t, <2>1, <2>2 DEF PullImage, PullCloud, TypeOK, Pcs
  <2>3. CASE PullDocker(t)
    BY <1>3, <1>t, <2>1, <2>3 DEF PullImage, PullDocker, TypeOK, Pcs
  <2>4. CASE PullFake(t)
    BY <1>3, <1>t, <2>1, <2>4 DEF PullImage, PullFake, TypeOK, Pcs
  <2> QED
    BY <1>3, <2>2, <2>3, <2>4 DEF PullImage
<1>4. CASE PullFails(t) \/ RunFails(t)
  BY <1>4, <1>t DEF PullFails, RunFails, TypeOK, Pcs
<1>5. CASE StoreMap(t)
  BY <1>5, <1>t DEF StoreMap, TypeOK, Pcs
<1>6. CASE CreateContainer(t)
  <2> DEFINE x == Requested(found[t])
  <2>1. kind \in {"gcp", "docker"} => x \in Name \cup Id \cup {None}
    BY <1>t DEF Requested, Listed, Translate, TypeOK
  <2>2. kind \notin {"gcp", "docker"} => x = found[t]
    BY DEF Requested, Translate
  <2>3. Booted(x) \in Name \cup Id \cup {Default, None}
    BY <1>t, <2>1, <2>2 DEF Booted, TypeOK
  <2>4. \E l \in {"status", "run"} : pc' = [pc EXCEPT ![t] = l]
    BY <1>6 DEF CreateContainer
  <2>5. /\ found' = [found EXCEPT ![t] = Booted(x)]
        /\ UNCHANGED <<kind, world, store, imageMap, name>>
    BY <1>6 DEF CreateContainer
  <2> HIDE DEF x
  <2> QED
    BY <1>t, <2>3, <2>4, <2>5 DEF TypeOK, Pcs
<1>7. CASE Run(t)
  BY <1>7, <1>t DEF Run, TypeOK, Pcs
<1> QED
  BY <1>1, <1>2, <1>3, <1>4, <1>5, <1>6, <1>7 DEF WorkerStep

\* A handler's step keeps the invariant: a table entry is written from what the
\* handler found for the worker's own name, however late.
LEMMA WorkerKeeps == ASSUME ImageInv, NEW t \in Worker, WorkerStep(t) PROVE ImageInv'
<1> USE ImagesAssumption DEF Answer, Find, Step, world
<1>a. TypeOK' /\ Alone(t)
  BY WorkerTypes
<1>t. TypeOK /\ WorldTrue /\ NamesById /\ TableIsTrue /\ (\A u \in Worker : Trust(u))
  BY TrustAll DEF ImageInv
<1>p. pc' \in [Worker -> Pcs] /\ pc \in [Worker -> Pcs] /\ found \in [Worker -> Name \cup Id \cup {Default, None}]
      /\ imageMap \in [Name \cup Id -> Name \cup Id \cup {None}] /\ UNCHANGED kind
  BY <1>a, <1>t DEF TypeOK, Alone
<1>q. SUFFICES ASSUME TRUE PROVE WorldTrue' /\ NamesById' /\ TableIsTrue' /\ Trust(t)'
  BY <1>a, <1>t, AloneKeeps DEF ImageInv
<1>1. CASE ImageStatus(t)
  <2>1. kind = "aws" /\ Listed(name[t]) # None => Listed(name[t]) \in ever[name[t]]
    BY <1>1, <1>t DEF ImageStatus, Trust, Listed, TableIsTrue
  <2>2. kind = "docker" /\ Listed(name[t]) # None =>
            Listed(name[t]) \in ever[name[t]] /\ Listed(name[t]) \in Id
    BY <1>1, <1>t DEF ImageStatus, Trust, Listed, WorldTrue, TypeOK
  <2>3. Listed(name[t]) # Default
    BY <1>1, <1>t DEF ImageStatus, Trust, Listed, TypeOK
  <2>4. Trust(t)'
    BY <1>1, <1>p, <1>t, <2>1, <2>2, <2>3 DEF ImageStatus, Trust
  <2> QED
    BY <1>1, <1>t, <2>4 DEF ImageStatus, WorldTrue, NamesById, TableIsTrue
<1>2. CASE NoteName(t)
  <2>1. kind = "docker" /\ found[t] \in Id /\ name[t] \in Name /\ found[t] \in ever[name[t]]
    BY <1>2, <1>t DEF NoteName, Trust
  <2>2. Trust(t)'
    BY <1>2, <1>p, <1>t, <2>1 DEF NoteName, Trust
  <2> QED
    BY <1>2, <1>p, <1>t, <2>1, <2>2 DEF NoteName, WorldTrue, NamesById, TableIsTrue
<1>3. CASE PullImage(t)
  <2>1. Pulled(name[t]) \in Id /\ name[t] \in Name /\ Pulled(name[t]) \in ever[name[t]]
    BY <1>3, <1>t DEF PullImage, Pulled, TypeOK, WorldTrue, Trust
  <2>2. CASE PullCloud(t)
    BY <1>3, <1>p, <1>t, <2>1, <2>2
    DEF PullImage, PullCloud, Trust, WorldTrue, NamesById, TableIsTrue
  <2>3. CASE PullDocker(t)
    BY <1>3, <1>p, <1>t, <2>1, <2>3
    DEF PullImage, PullDocker, Trust, WorldTrue, NamesById, TableIsTrue, TypeOK
  <2>4. CASE PullFake(t)
    BY <1>3, <1>p, <1>t, <2>1, <2>4
    DEF PullImage, PullFake, Trust, WorldTrue, NamesById, TableIsTrue
  <2> QED
    BY <1>3, <2>2, <2>3, <2>4 DEF PullImage
<1>4. CASE PullFails(t) \/ RunFails(t) \/ Run(t)
  BY <1>4, <1>p, <1>t DEF PullFails, RunFails, Run, Trust, WorldTrue, NamesById, TableIsTrue
<1>5. CASE StoreMap(t)
  <2>1. kind \in {"aws", "gcp"} /\ found[t] \in Id /\ name[t] \in Name /\ found[t] \in ever[name[t]]
    BY <1>5, <1>t DEF StoreMap, Trust
  <2>2. Trust(t)'
    BY <1>5, <1>p, <1>t, <2>1 DEF StoreMap, Trust
  <2> QED
    BY <1>5, <1>p, <1>t, <2>1, <2>2 DEF StoreMap, WorldTrue, NamesById, TableIsTrue
<1>6. CASE CreateContainer(t)
  <2> DEFINE x == Requested(found[t])
  <2>1. kind = "aws" => x = found[t]
    BY DEF Requested, Translate
  <2>2. /\ pc[t] = "create"
        /\ found' = [found EXCEPT ![t] = Booted(x)]
        /\ pc' = [pc EXCEPT ![t] =
                IF x = None /\ kind \in {"docker", "gcp"} THEN "status" ELSE "run"]
        /\ UNCHANGED <<kind, world, store, imageMap, name>>
    BY <1>6 DEF CreateContainer
  <2>3. x = Default => kind = "aws"
    BY <1>p, <1>t DEF Requested, Listed, Translate, Trust, TypeOK
  <2> HIDE DEF x
  <2>4. Trust(t)'
    BY <1>p, <1>t, <2>1, <2>2, <2>3 DEF Trust, Booted
  <2> QED
    BY <1>t, <2>2, <2>4 DEF WorldTrue, NamesById, TableIsTrue
<1> QED
  BY <1>1, <1>2, <1>3, <1>4, <1>5, <1>6 DEF WorkerStep

\* A restart empties the table and sends the workers back to ImageStatus.
LEMMA DieKeeps == ASSUME ImageInv, Die, Fault PROVE ImageInv'
<1>1. TypeOK'
  BY FaultAssumption DEF ImageInv, TypeOK, Die, Fault, Pcs
<1>2. NamesById' /\ TableIsTrue' /\ WorldTrue'
  BY DEF ImageInv, NamesById, TableIsTrue, WorldTrue, Die
<1>3. Asked' /\ Found' /\ BootsNoOther'
  BY ImagesAssumption DEF ImageInv, Asked, Found, BootsNoOther, Die, TypeOK
<1> QED
  BY <1>1, <1>2, <1>3 DEF ImageInv

\* Every step of Images keeps the invariant.
LEMMA ImageStep == ImageInv /\ [Next]_vars => ImageInv'
<1> SUFFICES ASSUME ImageInv, [Next]_vars PROVE ImageInv'
  OBVIOUS
<1>t. TypeOK /\ NamesById /\ WorldTrue /\ TableIsTrue
  BY DEF ImageInv
<1>1. ASSUME NEW t \in Worker, NEW n \in Name, Ask(t, n) PROVE ImageInv'
  <2>1. TypeOK' /\ Alone(t)
    BY <1>1, <1>t DEF Ask, Find, TypeOK, Pcs, Alone, world
  <2>2. Trust(t)'
    BY <1>1, <1>t, ImagesAssumption DEF Ask, Find, Trust, TypeOK
  <2>3. Asked' /\ Found' /\ BootsNoOther'
    BY <2>1, <2>2, AloneKeeps, TrustAll DEF ImageInv
  <2> QED
    BY <1>1, <1>t, <2>1, <2>3 DEF Ask, ImageInv, NamesById, WorldTrue, TableIsTrue, world
<1>2. ASSUME NEW n \in Name, NEW i \in Id, Retag(n, i) PROVE ImageInv'
  <2>1. TypeOK' /\ Remembers /\ WorldTrue'
    BY <1>2, <1>t, FaultAssumption DEF Retag, Fault, TypeOK, Remembers, WorldTrue
  <2> QED
    BY <1>2, <1>t, <2>1, WorldKeeps DEF Retag, ImageInv, NamesById
<1>3. ASSUME NEW x \in Name \cup Id, RemoveImage(x) PROVE ImageInv'
  <2>1. TypeOK' /\ WorldTrue'
    BY <1>3, <1>t, FaultAssumption
    DEF RemoveImage, RemoveEntry, RemoveDocker, Fault, TypeOK, WorldTrue
  <2>2. NamesById' /\ TableIsTrue'
    BY <1>3, <1>t DEF RemoveImage, RemoveEntry, RemoveDocker, TypeOK, NamesById, TableIsTrue
  <2> QED
    BY <1>3, <2>1, <2>2
    DEF RemoveImage, RemoveEntry, RemoveDocker, ImageInv, Asked, Found, BootsNoOther
<1>4. CASE UNCHANGED vars
  BY <1>4 DEF vars, world, ImageInv, TypeOK, NamesById, WorldTrue, TableIsTrue, Asked, Found, BootsNoOther
<1> QED
  BY <1>1, <1>2, <1>3, <1>4, WorkerKeeps, DieKeeps DEF Next, Race, Restart

\* The invariant holds in every reachable state.
LEMMA ImageInvariant == Spec => []ImageInv
<1>1. Init => ImageInv
  <2> SUFFICES ASSUME Init PROVE ImageInv
    OBVIOUS
  <2>1. TypeOK
    BY FaultAssumption DEF Init, TypeOK, Pcs
  <2> QED
    BY <2>1, ImagesAssumption DEF Init, ImageInv, NamesById, WorldTrue, TableIsTrue, Asked, Found, BootsNoOther
<1> QED
  BY <1>1, ImageStep, PTL DEF Spec

\* Every variable of the image providers keeps its type.
THEOREM TypeCorrect == Spec => []TypeOK
<1>1. ImageInv => TypeOK
  BY DEF ImageInv
<1> QED
  BY ImageInvariant, <1>1, PTL

\* A provider's table only says what was true once, for any number of pulls that
\* overlap, retagged and removed images, restarts and racing handlers.
THEOREM TablesAreTrue == Spec => []TableIsTrue
<1>1. ImageInv => TableIsTrue
  BY DEF ImageInv
<1> QED
  BY ImageInvariant, <1>1, PTL

\* The aws provider never boots a VM from an image of another name: it is one that
\* the pod's image name has denoted, or libretto's default.
THEOREM BootsNoOthersImage == Spec => []BootsNoOther
<1>1. ImageInv => BootsNoOther
  BY DEF ImageInv
<1> QED
  BY ImageInvariant, <1>1, PTL
===============================================================================
