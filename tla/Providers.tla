------------------------------ MODULE Providers ------------------------------
(***************************************************************************)
(* The pod providers for GCE, vSphere, VirtualBox and tests                *)
(* (provider/gcp, vsphere, virtualbox, fake) under the Manager's           *)
(* createSandbox, removePodSandbox and importSandboxes: how a sandbox gets *)
(* its VM, its address and its id, what a failed boot leaves behind, and   *)
(* what a restarted daemon finds again.                                    *)
(*                                                                         *)
(* GCE and vSphere VMs are named after the uid of the pod, which stands    *)
(* for that name here; VirtualBox and fake VMs get fresh names.  kubelet   *)
(* starts a sandbox for a pod without a ready one, also while a call that  *)
(* timed out still runs.  It removes stopped sandboxes of deleted pods,    *)
(* and older ones of other pods.  A deleted pod does not come back.  The   *)
(* locks of PodData and overlapping calls for one sandbox are in Sandbox.  *)
(***************************************************************************)
EXTENDS Deque

CONSTANTS
    Pod,        \* pods, by uid
    Fresh,      \* names of VirtualBox and fake VMs
    Template,   \* a VM of somebody else: vSphere's template
    IP,         \* addresses
    Pool,       \* ipList as the provider's constructor fills it
    Handler,    \* request handlers of the daemon
    MaxFault,   \* bound: crashes, failures of the cloud, sandboxes found not ready
    None        \* the absent value

Name == Pod \cup Fresh \cup {Template}
Id   == IP \cup Name

ASSUME PoolAssumption == Pool \in Seq(IP) /\ NoDup(Pool)
ASSUME NameAssumption ==
    /\ Pod \cap Fresh = {} /\ Template \notin Pod \cup Fresh
    /\ IP \cap Name = {} /\ None \notin Id
ASSUME FaultAssumption == MaxFault \in Nat

VARIABLES
    kind,       \* the pod provider
    up,         \* the daemon is running
    ipList,     \* the provider's free addresses
    vmMap,      \* the Manager's sandboxes, by id
    cloud,      \* the VMs that exist, by name
    wanted,     \* the pods that kubelet runs
    pc,         \* what each handler does next
    job,        \* the sandbox it works on
    faults      \* crashes, failures of the cloud and sandboxes found not ready so far

vars == <<kind, up, ipList, vmMap, cloud, wanted, pc, job, faults>>

Kind == {"gcp", "vsphere", "virtualbox", "fake"}
Pcs  == {"idle", "provision", "ips", "tag", "connect", "configure", "insert",
         "destroy", "release", "delete"}

\* PodData: open is FALSE once its client was closed, ready once it was stopped.
Data == [pod : Pod, vm : Name \cup {None}, addr : IP \cup {None}, open : BOOLEAN, ready : BOOLEAN]
\* A VM, its infranetes label, what its agent stores, and whether it is powered off.
VM == [addr : IP \cup {None}, tag : BOOLEAN, config : BOOLEAN, ip : BOOLEAN, answers : BOOLEAN,
       off : BOOLEAN]

ASSUME NoneAssumption ==
    None \notin Data /\ None \notin VM /\ None \notin [pod : Pod, ready : BOOLEAN]

\* A mistake: VirtualBox VMs are named after the pod too.
NamedAll == kind # "fake"

\* VM names are made from the uid of the pod.
Named == kind \in {"gcp", "vsphere"}
\* Addresses come from ipList.
Pooled == kind \in {"gcp", "fake"}
\* The key in vmMap.
IdOf(d) == IF kind = "gcp" THEN d.addr ELSE d.vm

ReadyOf(p)  == {i \in Id : vmMap[i] # None /\ vmMap[i].pod = p /\ vmMap[i].ready}
Removing(h) == pc[h] \in {"destroy", "release", "delete"}
Busy(d)     == \E h \in Handler : Removing(h) /\ job[h] = d

Goto(h, l) == pc' = [pc EXCEPT ![h] = l]
\* The handler returns.
Return(h) == Goto(h, "idle") /\ job' = [job EXCEPT ![h] = None]

\* The process ends, by a panic or a kill.
Die ==
    /\ up' = FALSE
    /\ ipList' = Pool
    /\ vmMap' = [i \in Id |-> None]
    /\ pc' = [h \in Handler |-> "idle"]
    /\ job' = [h \in Handler |-> None]

Fault == faults < MaxFault /\ faults' = faults + 1

------------------------------------------------------------------------------
(* RunPodSandbox                                                            *)

\* Shift of an empty list returns nil, whose type assertion panics.
RunPodSandbox(h, p) ==
    /\ up /\ pc[h] = "idle" /\ p \in wanted /\ ReadyOf(p) = {}
    /\ IF Pooled /\ ipList = <<>>
       THEN Die
       ELSE /\ job' = [job EXCEPT ![h] =
                  [pod |-> p, vm |-> IF Named THEN p ELSE None,
                   addr |-> IF Pooled THEN Front(ipList) ELSE None,
                   open |-> TRUE, ready |-> TRUE]]
            /\ ipList' = IF Pooled THEN Shift(ipList) ELSE ipList
            /\ Goto(h, "provision")
            /\ UNCHANGED <<up, vmMap>>
    /\ UNCHANGED <<kind, cloud, wanted, faults>>

\* The names that Provision can give the VM of a handler.  A fresh name is one that
\* the daemon does not know.
NamesFor(h) ==
    IF Named THEN {job[h].pod}
    ELSE {n \in Fresh : /\ \A i \in Id : vmMap[i] = None \/ vmMap[i].vm # n
                        /\ \A g \in Handler : job[g] = None \/ job[g].vm # n}

\* The addresses that it can have: the one asked for, or what DHCP gives; none are
\* kept for VirtualBox.
AddressesFor(h) ==
    IF kind = "virtualbox" THEN {None}
    ELSE {a \in IP : /\ kind = "gcp" => a = job[h].addr
                     /\ \A n \in Name : cloud[n] = None \/ cloud[n].off \/ cloud[n].addr # a}

CanBoot(h, n, a) == n \in NamesFor(h) /\ (Named => cloud[n] = None) /\ a \in AddressesFor(h)

Boots(h, n, a) ==
    /\ CanBoot(h, n, a)
    /\ cloud' = [cloud EXCEPT ![n] =
          [addr |-> a, tag |-> FALSE, config |-> FALSE, ip |-> FALSE, answers |-> TRUE,
           off |-> FALSE]]

\* A mistake: a VM of that name that exists is taken for the one that was asked for.
ProvisionSkipsExisting(h) ==
    /\ pc[h] = "provision" /\ kind # "fake"
    /\ \E n \in Name, a \in IP \cup {None} :
          /\ \/ Boots(h, n, a)
             \/ n \in NamesFor(h) /\ cloud[n] # None /\ UNCHANGED cloud
                /\ a = IF kind = "gcp" THEN job[h].addr ELSE cloud[n].addr
          /\ job' = [job EXCEPT ![h] = [@ EXCEPT !.vm = n, !.addr = a]]
    /\ Goto(h, "ips")
    /\ UNCHANGED <<kind, up, ipList, vmMap, wanted, faults>>

\* vm.Provision: neither a second VM of a name nor a second use of an address.
Provision(h) ==
    /\ pc[h] = "provision" /\ kind # "fake"
    /\ \E n \in Name, a \in IP \cup {None} :
          /\ Boots(h, n, a)
          /\ job' = [job EXCEPT ![h] = [@ EXCEPT !.vm = n, !.addr = a]]
    /\ Goto(h, "ips")
    /\ UNCHANGED <<kind, up, ipList, vmMap, wanted, faults>>

\* The cloud refuses, or fails and the VM may exist nevertheless.  The address is not
\* returned to ipList.
ProvisionFails(h) ==
    /\ pc[h] = "provision" /\ kind # "fake"
    /\ \/ /\ \A n \in Name, a \in IP \cup {None} : ~CanBoot(h, n, a)
          /\ UNCHANGED <<cloud, faults>>
       \/ Fault /\ UNCHANGED cloud
       \/ Fault /\ \E n \in Name, a \in IP \cup {None} : Boots(h, n, a)
    /\ Return(h)
    /\ UNCHANGED <<kind, up, ipList, vmMap, wanted>>

\* The fake provider makes up a name and enters it in its map instances, which has
\* no lock: Go ends a process in which it sees two such writes at a time.
FakeInstance(h) ==
    /\ pc[h] = "provision" /\ kind = "fake"
    /\ \E n \in NamesFor(h) : job' = [job EXCEPT ![h] = [@ EXCEPT !.vm = n]]
    /\ Goto(h, "insert")
    /\ UNCHANGED <<kind, up, ipList, vmMap, cloud, wanted, faults>>

FakeRace(h, g) ==
    /\ h # g /\ kind = "fake" /\ pc[h] = "provision" /\ pc[g] = "provision"
    /\ Fault /\ Die
    /\ UNCHANGED <<kind, cloud, wanted>>

GetIPs(h) ==
    /\ pc[h] = "ips"
    /\ Goto(h, IF kind = "gcp" THEN "tag" ELSE "connect")
    /\ UNCHANGED <<kind, up, ipList, vmMap, cloud, wanted, job, faults>>

\* The first of the addresses is taken although there may be none.
NoIPs(h) ==
    /\ pc[h] = "ips" /\ kind # "gcp"
    /\ Fault /\ Die
    /\ UNCHANGED <<kind, cloud, wanted>>

\* TagNewInstance labels the VM, or fails and may have labelled it nevertheless.
TagNewInstance(n) ==
    \/ /\ cloud[n] # None
       /\ cloud' = [cloud EXCEPT ![n] = [@ EXCEPT !.tag = TRUE]]
    \/ UNCHANGED cloud

\* tagImage only logs errors; SetLabels is asked for its operation before its error
\* is looked at, which panics if there is one.
Tag(h) ==
    /\ pc[h] = "tag"
    /\ \/ /\ TagNewInstance(job[h].vm)
          /\ Goto(h, "connect")
          /\ UNCHANGED <<up, ipList, vmMap, job, faults>>
       \/ Fault /\ Die /\ UNCHANGED cloud
    /\ UNCHANGED <<kind, wanted>>

\* The agent of a sandbox can be called.
Reachable(d) ==
    /\ d.open
    /\ kind # "fake" => cloud[d.vm] # None /\ cloud[d.vm].answers

\* CreateRealClient.
Connect(h) ==
    /\ pc[h] = "connect" /\ Reachable(job[h])
    /\ Goto(h, IF kind = "virtualbox" THEN "insert" ELSE "configure")
    /\ UNCHANGED <<kind, up, ipList, vmMap, cloud, wanted, job, faults>>

\* GetIPs or all tries of CreateRealClient fail.  The VM stays.
BootFails(h) ==
    /\ pc[h] \in {"ips", "connect"}
    /\ Fault \/ (~Reachable(job[h]) /\ UNCHANGED faults)
    /\ Return(h)
    /\ UNCHANGED <<kind, up, ipList, vmMap, cloud, wanted>>

Stores(n, c, i) ==
    cloud' = IF cloud[n] = None THEN cloud
             ELSE [cloud EXCEPT ![n] = [@ EXCEPT !.config = c, !.ip = i]]

\* A mistake: the client that did not start its proxy is dropped.
ConfigureDrops(h) ==
    /\ pc[h] = "configure"
    /\ \E c, i \in BOOLEAN : Stores(job[h].vm, c, i)
    /\ \E o \in {TRUE, None} : job' = [job EXCEPT ![h] = [@ EXCEPT !.open = o]]
    /\ Goto(h, "insert")
    /\ UNCHANGED <<kind, up, ipList, vmMap, wanted, faults>>

\* SetSandboxConfig, SetPodIP and StartProxy only log their errors; the last one then
\* closes the client.
Configure(h) ==
    /\ pc[h] = "configure"
    /\ \E c, i \in BOOLEAN : Stores(job[h].vm, c, i)
    /\ \E o \in BOOLEAN : job' = [job EXCEPT ![h] = [@ EXCEPT !.open = o]]
    /\ Goto(h, "insert")
    /\ UNCHANGED <<kind, up, ipList, vmMap, wanted, faults>>

\* createSandbox enters what the provider returned.
InsertSandbox(h) ==
    /\ pc[h] = "insert"
    /\ vmMap' = [vmMap EXCEPT ![IdOf(job[h])] = job[h]]
    /\ Return(h)
    /\ UNCHANGED <<kind, up, ipList, cloud, wanted, faults>>

------------------------------------------------------------------------------
(* StopPodSandbox and RemovePodSandbox                                      *)

\* kubelet stops what it does not want, one of two ready sandboxes of a pod, and what
\* was not ready when it looked; by now the agent must answer.
StopPodSandbox(i) ==
    /\ up /\ vmMap[i] # None
    /\ vmMap[i].ready /\ Reachable(vmMap[i])
    /\ \/ /\ vmMap[i].pod \notin wanted \/ ReadyOf(vmMap[i].pod) # {i}
          /\ UNCHANGED faults
       \/ Fault
    /\ vmMap' = [vmMap EXCEPT ![i] = [@ EXCEPT !.ready = FALSE]]
    /\ UNCHANGED <<kind, up, ipList, cloud, wanted, pc, job>>

\* kubelet's garbage collection keeps the newest sandbox of a pod that it runs, here
\* any one of them.
RemovePodSandbox(h, i) ==
    /\ up /\ pc[h] = "idle"
    /\ vmMap[i] # None /\ ~vmMap[i].ready /\ ~Busy(vmMap[i])
    /\ \/ vmMap[i].pod \notin wanted
       \/ \E j \in Id \ {i} : vmMap[j] # None /\ vmMap[j].pod = vmMap[i].pod
    /\ job' = [job EXCEPT ![h] = vmMap[i]]
    /\ Goto(h, "destroy")
    /\ UNCHANGED <<kind, up, ipList, vmMap, cloud, wanted, faults>>

\* Destroy goes by name, and there is nothing to destroy for the fake provider.
Destroy(h) ==
    /\ pc[h] = "destroy"
    /\ \/ kind = "fake" /\ UNCHANGED cloud
       \/ /\ kind # "fake" /\ cloud[job[h].vm] # None
          /\ cloud' = [cloud EXCEPT ![job[h].vm] = None]
    /\ Goto(h, "release")
    /\ UNCHANGED <<kind, up, ipList, vmMap, wanted, job, faults>>

\* libretto halts a vSphere or VirtualBox VM before it deletes it.
Halted(n) ==
    [cloud EXCEPT ![n] =
        IF cloud[n] = None \/ kind = "gcp" THEN cloud[n]
        ELSE [cloud[n] EXCEPT !.answers = FALSE, !.off = TRUE]]

\* Destroy fails for a VM that is gone, and may fail before it has done anything, after
\* it has halted the VM, or after the VM is gone.
DestroyFails(h) ==
    /\ pc[h] = "destroy" /\ kind # "fake"
    /\ LET n == job[h].vm
       IN \/ cloud[n] = None /\ UNCHANGED <<cloud, faults>>
          \/ Fault /\ cloud' \in {cloud, Halted(n), [cloud EXCEPT ![n] = None]}
    /\ Return(h)
    /\ UNCHANGED <<kind, up, ipList, vmMap, wanted>>

Release(h) ==
    /\ pc[h] = "release"
    /\ ipList' = IF Pooled THEN PushBack(ipList, job[h].addr) ELSE ipList
    /\ Goto(h, "delete")
    /\ UNCHANGED <<kind, up, vmMap, cloud, wanted, job, faults>>

\* removePodSandbox deletes the entry of the id, whatever it is by now.
DeleteSandbox(h) ==
    /\ pc[h] = "delete"
    /\ vmMap' = [vmMap EXCEPT ![IdOf(job[h])] = None]
    /\ Return(h)
    /\ UNCHANGED <<kind, up, ipList, cloud, wanted, faults>>

------------------------------------------------------------------------------
(* Pods, VMs and the daemon's process                                       *)

DeletePod(p) ==
    /\ p \in wanted
    /\ wanted' = wanted \ {p}
    /\ UNCHANGED <<kind, up, ipList, vmMap, cloud, pc, job, faults>>

Answers(n, b) ==
    /\ cloud[n] # None /\ cloud[n].answers = ~b
    /\ cloud' = [cloud EXCEPT ![n] = [@ EXCEPT !.answers = b]]
    /\ UNCHANGED <<kind, up, ipList, vmMap, wanted, pc, job>>

Outage(n)  == Answers(n, FALSE) /\ Fault
\* Nobody starts a VM that was halted.
Recover(n) ==
    /\ n # Template
    /\ Answers(n, TRUE) /\ ~cloud[n].off
    /\ UNCHANGED faults

Crash ==
    /\ up /\ Fault /\ Die
    /\ UNCHANGED <<kind, cloud, wanted>>

\* A mistake: VMs that are not infranetes' are not skipped.
InstancesAll ==
    {n \in Name : cloud[n] # None /\ kind \in {"gcp", "vsphere"}}

Labelled == {n \in Name : cloud[n] # None /\ cloud[n].tag}
Prefixed == {n \in Pod : cloud[n] # None}

\* The VMs that ListInstances looks at: with the label, with the prefix, or none.
Instances ==
    IF kind = "gcp" THEN Labelled ELSE IF kind = "vsphere" THEN Prefixed ELSE {}

\* GetPodIP and GetSandboxConfig succeed.
Known(S) == {n \in S : cloud[n].ip /\ cloud[n].config}

Recovered(n) ==
    [pod |-> n, vm |-> n, addr |-> cloud[n].addr, open |-> TRUE, ready |-> TRUE]

\* A mistake: the addresses of the VMs that were found stay in the list.
RestartKeepsPool ==
    /\ ~up /\ \A n \in Instances : cloud[n].answers
    /\ up' = TRUE
    /\ ipList' = Pool
    /\ vmMap' = [i \in Id |-> IF \E n \in Known(Instances) : IdOf(Recovered(n)) = i
                              THEN Recovered(CHOOSE n \in Known(Instances) : IdOf(Recovered(n)) = i)
                              ELSE None]
    /\ UNCHANGED <<kind, cloud, wanted, pc, job, faults>>

\* importSandboxes: every VM answers.
Restart ==
    /\ ~up /\ \A n \in Instances : cloud[n].answers
    /\ up' = TRUE
    /\ ipList' \in FindAndRemove(Pool, IF kind = "gcp" THEN {cloud[n].addr : n \in Known(Instances)} ELSE {})
    /\ vmMap' = [i \in Id |-> IF \E n \in Known(Instances) : IdOf(Recovered(n)) = i
                              THEN Recovered(CHOOSE n \in Known(Instances) : IdOf(Recovered(n)) = i)
                              ELSE None]
    /\ UNCHANGED <<kind, cloud, wanted, pc, job, faults>>

\* The cloud is not reached, or, with the gcp provider, one of the VMs is not: nothing
\* is entered, but the addresses seen so far are out of the list.  The vSphere
\* provider uses a client that it has not got, and the daemon ends before it is up.
RestartEmpty ==
    /\ ~up /\ Named
    /\ up' = TRUE
    /\ \E S \in SUBSET {n \in Instances : cloud[n].answers} :
          /\ S # {} => kind = "gcp" /\ \E n \in Instances : ~cloud[n].answers
          /\ ipList' \in FindAndRemove(Pool, {cloud[n].addr : n \in Known(S)})
    /\ UNCHANGED <<kind, vmMap, cloud, wanted, pc, job, faults>>

------------------------------------------------------------------------------

Init ==
    /\ kind \in Kind
    /\ up = TRUE
    /\ ipList = Pool
    /\ vmMap = [i \in Id |-> None]
    /\ cloud = [n \in Name |-> IF n = Template THEN
          [addr |-> None, tag |-> FALSE, config |-> FALSE, ip |-> FALSE, answers |-> FALSE,
           off |-> TRUE]
          ELSE None]
    /\ wanted = Pod
    /\ pc = [h \in Handler |-> "idle"]
    /\ job = [h \in Handler |-> None]
    /\ faults = 0

\* A handler goes on.
Work(h) ==
    \/ Provision(h) \/ ProvisionFails(h) \/ FakeInstance(h) \/ GetIPs(h) \/ Tag(h)
    \/ Connect(h) \/ BootFails(h) \/ Configure(h) \/ InsertSandbox(h)
    \/ Destroy(h) \/ DestroyFails(h) \/ Release(h) \/ DeleteSandbox(h)

Next ==
    \/ \E h \in Handler : \/ Work(h) \/ NoIPs(h)
                          \/ \E p \in Pod : RunPodSandbox(h, p)
                          \/ \E i \in Id : RemovePodSandbox(h, i)
                          \/ \E g \in Handler : FakeRace(h, g)
    \/ \E i \in Id : StopPodSandbox(i)
    \/ \E p \in Pod : DeletePod(p)
    \/ \E n \in Name : Outage(n) \/ Recover(n)
    \/ Crash \/ Restart \/ RestartEmpty

\* kubelet retries, handlers go on, VMs answer again and a dead daemon is restarted.
\* After MaxFault faults the cloud does what it is asked for, if it can.
Fairness ==
    /\ WF_vars(Restart)
    /\ WF_vars(\E n \in Name : Recover(n))
    /\ \A p \in Pod : SF_vars(\E h \in Handler : RunPodSandbox(h, p))
    /\ SF_vars(\E h \in Handler, i \in Id : RemovePodSandbox(h, i))
    /\ \A h \in Handler : WF_vars(Work(h))

Spec == Init /\ [][Next]_vars /\ Fairness

------------------------------------------------------------------------------
(* Properties                                                               *)

\* Every variable keeps its type.
TypeOK ==
    /\ kind \in Kind
    /\ up \in BOOLEAN
    /\ ipList \in Seq(IP)
    /\ vmMap \in [Id -> Data \cup {None}]
    /\ cloud \in [Name -> VM \cup {None}]
    /\ wanted \subseteq Pod
    /\ pc \in [Handler -> Pcs]
    /\ job \in [Handler -> Data \cup {None}]
    /\ faults \in 0 .. MaxFault

\* A handler that boots has an address, one that removes has it until Release.
Holds(h) == pc[h] \notin {"idle", "delete"}
\* An entry that is removed does not count once its address is released.
Released(d) == \E h \in Handler : pc[h] = "delete" /\ job[h] = d
Live(i) == vmMap[i] # None /\ ~Released(vmMap[i])

\* No address of the pool has two holders: a free address is not that of a sandbox or
\* of a handler that boots one, and two sandboxes have different ones, after failed
\* boots and imports that were broken off too (RunPodSandbox, RemovePodSandbox and
\* ListInstances of the gcp and fake providers).
AddressesHeldOnce ==
    Pooled =>
        /\ NoDup(ipList)
        /\ \A h \in Handler : Holds(h) => job[h].addr \notin Elems(ipList)
        /\ \A i \in Id : Live(i) => vmMap[i].addr \notin Elems(ipList)
        /\ \A h, g \in Handler : Holds(h) /\ Holds(g) /\ h # g => job[h].addr # job[g].addr
        /\ \A i, j \in Id : Live(i) /\ Live(j) /\ i # j => vmMap[i].addr # vmMap[j].addr
        /\ \A h \in Handler, i \in Id :
              Holds(h) /\ Live(i) /\ job[h].addr = vmMap[i].addr => Removing(h) /\ job[h] = vmMap[i]

\* A ready sandbox of a pod that kubelet runs has a VM of its own, with its address:
\* neither a retried boot, nor a removal, which goes by the name of the VM, nor an
\* import takes it away or gives it to two (bootSandbox, removePodSandbox,
\* ListInstances).
ReadyHasOwnVM ==
    kind # "fake" => \A p \in wanted : \A i \in ReadyOf(p) :
        /\ cloud[vmMap[i].vm] # None
        /\ cloud[vmMap[i].vm].addr = vmMap[i].addr
        /\ \A j \in ReadyOf(p) \ {i} : vmMap[j].vm # vmMap[i].vm

\* A sandbox in the terms of SandboxTable.
TableEntry(d) == IF d = None THEN None ELSE [pod |-> d.pod, ready |-> d.ready]

Table == INSTANCE SandboxTable
         WITH Id <- Name, on <- up, table <- [n \in Name |-> TableEntry(vmMap[n])]

\* Where the id of a sandbox is the name of its VM, vmMap is the table that kubelet is
\* promised: createSandbox overwrites no sandbox of a running pod, and what
\* removePodSandbox deletes by id, after it has let go of the VM, is not a newer one
\* that is ready.  (Not so for ids that are addresses, with the gcp provider.)
ImplementsTable == Table!Spec

\* A daemon that ended comes up again once the VMs of its own sandboxes answer, though
\* the vSphere provider ends it for each one that does not (ListInstances): a VM of
\* somebody else does not keep it down, only one that its own Destroy has halted and
\* not deleted does.
DaemonStarts == ~up ~> (up \/ \E n \in Pod : cloud[n] # None /\ cloud[n].off)

\* Every pod gets a sandbox in the end, after boots that failed, sandboxes that had to
\* be replaced, an exhausted pool and restarts of the daemon (the virtualbox and fake
\* providers).  Not so where VMs are named by uid: there a VM that a failed boot has
\* left is in the way of every later sandbox of the pod.
PodsRun ==
    \A p \in Pod : kind \in {"virtualbox", "fake"} =>
        p \in wanted ~> (p \notin wanted \/ ReadyOf(p) # {})
==============================================================================
