--------------------------- MODULE ProvidersProofs ---------------------------
(* Type correctness of Providers, that no address has two holders, that a   *)
(* ready sandbox has a VM of its own, and that vmMap implements the table   *)
(* of SandboxTable.                                                         *)
EXTENDS Providers, DequeProofs

\* A daemon that is down has neither handlers nor sandboxes.
DownIsEmpty ==
    ~up => /\ \A h \in Handler : pc[h] = "idle"
           /\ \A i \in Id : vmMap[i] = None

\* What a handler knows about the sandbox it works on.
JobOK(h) ==
    pc[h] # "idle" =>
        /\ job[h] # None
        /\ Pooled => job[h].addr \in IP
        /\ Named => job[h].vm = job[h].pod
        /\ pc[h] \notin {"provision", "insert"} => kind # "fake" \/ Removing(h)
        /\ pc[h] = "tag" => kind = "gcp"
        /\ job[h].ready = ~Removing(h)

\* An entry of vmMap is found under its own id.
EntryOK(i) ==
    vmMap[i] # None =>
        /\ IdOf(vmMap[i]) = i
        /\ Pooled => vmMap[i].addr \in IP
        /\ Named => vmMap[i].vm = vmMap[i].pod

\* Only VMs of pods have the label.
TagsOK == \A n \in Name : cloud[n] # None /\ cloud[n].tag => n \in Pod

\* The inductive invariant.
IndInv ==
    /\ TypeOK
    /\ DownIsEmpty
    /\ \A h \in Handler : JobOK(h)
    /\ \A i \in Id : EntryOK(i)
    /\ TagsOK
    /\ AddressesHeldOnce

------------------------------------------------------------------------------

\* The end of the process empties what could share an address.
LEMMA DieStep ==
    ASSUME IndInv, Die, UNCHANGED <<kind, cloud, wanted>>, faults' \in 0 .. MaxFault
    PROVE  IndInv'
<1>1. TypeOK'
  BY PoolAssumption DEF IndInv, Die, TypeOK, Pcs
<1>2. DownIsEmpty' /\ (\A h \in Handler : JobOK(h)') /\ (\A i \in Id : EntryOK(i)')
  BY DEF Die, DownIsEmpty, JobOK, EntryOK
<1>3. TagsOK'
  BY DEF IndInv, TagsOK
<1>4. AddressesHeldOnce'
  BY PoolAssumption DEF Die, AddressesHeldOnce, Holds, Live
<1> QED BY <1>1, <1>2, <1>3, <1>4 DEF IndInv

\* A handler that boots a sandbox goes on with it, and keeps its address.
LEMMA BootStep ==
    ASSUME IndInv, NEW h \in Handler, NEW l \in Pcs, NEW d \in Data,
           pc[h] \notin {"idle", "destroy", "release", "delete"},
           l \notin {"idle", "destroy", "release", "delete"},
           kind # "fake" \/ l = "insert", l = "tag" => kind = "gcp",
           d.ready, Pooled => d.addr = job[h].addr, Named => d.vm = d.pod,
           pc' = [pc EXCEPT ![h] = l], job' = [job EXCEPT ![h] = d],
           UNCHANGED <<kind, up, ipList, vmMap, wanted, faults>>,
           cloud' \in [Name -> VM \cup {None}], TagsOK'
    PROVE  IndInv'
<1>1. TypeOK'
  BY DEF IndInv, TypeOK
<1>2. DownIsEmpty'
  BY DEF IndInv, TypeOK, DownIsEmpty
<1>3. ASSUME NEW g \in Handler PROVE JobOK(g)'
  BY <1>1, NoneAssumption DEF IndInv, TypeOK, JobOK, Removing, Pooled, Named, Pcs
<1>4. ASSUME NEW i \in Id PROVE EntryOK(i)'
  BY DEF IndInv, EntryOK, IdOf, Pooled, Named
<1>5. AddressesHeldOnce'
  BY DEF IndInv, TypeOK, AddressesHeldOnce, Holds, Live, Released, Removing, Pooled, Pcs
<1> QED BY <1>1, <1>2, <1>3, <1>4, <1>5 DEF IndInv

\* A handler returns without an entry in vmMap.
LEMMA ReturnStep ==
    ASSUME IndInv, NEW h \in Handler, pc[h] \notin {"idle", "delete"}, Return(h),
           UNCHANGED <<kind, up, ipList, vmMap, wanted>>, faults' \in 0 .. MaxFault,
           cloud' \in [Name -> VM \cup {None}], TagsOK'
    PROVE  IndInv'
<1> USE DEF Return, Goto
<1>1. TypeOK'
  BY DEF IndInv, TypeOK, Pcs
<1>2. DownIsEmpty'
  BY DEF IndInv, TypeOK, DownIsEmpty
<1>3. ASSUME NEW g \in Handler PROVE JobOK(g)'
  BY DEF IndInv, TypeOK, JobOK, Removing, Pooled, Named
<1>4. ASSUME NEW i \in Id PROVE EntryOK(i)'
  BY DEF IndInv, EntryOK, IdOf, Pooled, Named
<1>5. AddressesHeldOnce'
  BY DEF IndInv, TypeOK, AddressesHeldOnce, Holds, Live, Released, Removing, Pooled
<1> QED BY <1>1, <1>2, <1>3, <1>4, <1>5 DEF IndInv

\* Handlers, entries and the pool stay.
LEMMA WorldStep ==
    ASSUME IndInv, UNCHANGED <<kind, up, ipList, vmMap, pc, job>>,
           wanted' \subseteq Pod, faults' \in 0 .. MaxFault,
           cloud' \in [Name -> VM \cup {None}], TagsOK'
    PROVE  IndInv'
<1>1. TypeOK' /\ DownIsEmpty'
  BY DEF IndInv, TypeOK, DownIsEmpty
<1>2. ASSUME NEW g \in Handler PROVE JobOK(g)'
  BY DEF IndInv, JobOK, Removing, Pooled, Named
<1>3. ASSUME NEW i \in Id PROVE EntryOK(i)'
  BY DEF IndInv, EntryOK, IdOf, Pooled, Named
<1>4. AddressesHeldOnce'
  BY DEF IndInv, AddressesHeldOnce, Holds, Live, Released, Removing, Pooled
<1> QED BY <1>1, <1>2, <1>3, <1>4 DEF IndInv

LEMMA FaultFact ==
    ASSUME IndInv, Fault
    PROVE  faults' \in 0 .. MaxFault
BY FaultAssumption DEF IndInv, TypeOK, Fault

------------------------------------------------------------------------------

\* RunPodSandbox: the address taken from the pool has no other holder.
LEMMA RunStep ==
    ASSUME IndInv, NEW h \in Handler, NEW p \in Pod, RunPodSandbox(h, p)
    PROVE  IndInv'
<1>1. CASE Pooled /\ ipList = <<>>
  BY <1>1, DieStep DEF RunPodSandbox, IndInv, TypeOK
<1>2. CASE ~(Pooled /\ ipList = <<>>)
  <2> DEFINE a == IF Pooled THEN Front(ipList) ELSE None
             d == [pod |-> p, vm |-> IF Named THEN p ELSE None, addr |-> a,
                   open |-> TRUE, ready |-> TRUE]
  <2>1. /\ up /\ pc[h] = "idle"
        /\ job' = [job EXCEPT ![h] = d]
        /\ ipList' = IF Pooled THEN Shift(ipList) ELSE ipList
        /\ pc' = [pc EXCEPT ![h] = "provision"]
        /\ UNCHANGED <<kind, up, vmMap, cloud, wanted, faults>>
    BY <1>2 DEF RunPodSandbox, Goto
  <2>2. ASSUME Pooled
        PROVE  /\ a \in IP /\ Shift(ipList) \in Seq(IP) /\ NoDup(Shift(ipList))
               /\ a \in Elems(ipList) /\ a \notin Elems(Shift(ipList))
               /\ Elems(Shift(ipList)) \subseteq Elems(ipList)
    <3>1. NoDup(ipList) /\ ipList \in Seq(IP)
      BY <2>2 DEF IndInv, TypeOK, AddressesHeldOnce
    <3> QED BY <3>1, <2>2, <1>2, ShiftLemma
  <2>3. d \in Data /\ d.addr = a /\ d.ready = TRUE /\ d.pod = p /\ (Named => d.vm = p)
    BY <2>2 DEF Data, Name
  <2> HIDE DEF a, d
  <2>4. TypeOK'
    BY <2>1, <2>2, <2>3 DEF IndInv, TypeOK, Pcs
  <2>5. DownIsEmpty' /\ TagsOK'
    BY <2>1 DEF IndInv, DownIsEmpty, TagsOK
  <2>6. ASSUME NEW g \in Handler PROVE JobOK(g)'
    BY <2>1, <2>2, <2>3, NoneAssumption DEF IndInv, TypeOK, JobOK, Removing, Pooled, Named
  <2>7. ASSUME NEW i \in Id PROVE EntryOK(i)'
    BY <2>1 DEF IndInv, EntryOK, IdOf, Pooled, Named
  <2>8. AddressesHeldOnce'
    BY <2>1, <2>2, <2>3
    DEF IndInv, TypeOK, AddressesHeldOnce, Holds, Live, Released, Removing, Pooled
  <2> QED BY <2>4, <2>5, <2>6, <2>7, <2>8 DEF IndInv
<1> QED BY <1>1, <1>2

\* A VM that is booted has its type and no label.
LEMMA BootsFacts ==
    ASSUME IndInv, NEW h \in Handler, NEW n \in Name, NEW a \in IP \cup {None}, Boots(h, n, a)
    PROVE  /\ cloud' \in [Name -> VM \cup {None}]
           /\ TagsOK'
           /\ Named => n = job[h].pod
           /\ kind = "gcp" => a = job[h].addr
<1> DEFINE m == [addr |-> a, tag |-> FALSE, config |-> FALSE, ip |-> FALSE, answers |-> TRUE,
               off |-> FALSE]
<1>1. cloud' = [cloud EXCEPT ![n] = m] /\ n \in NamesFor(h) /\ a \in AddressesFor(h)
  BY DEF Boots, CanBoot
<1>2. m \in VM /\ m.tag = FALSE
  BY DEF VM
<1> HIDE DEF m
<1>3. cloud' \in [Name -> VM \cup {None}] /\ TagsOK'
  BY <1>1, <1>2 DEF IndInv, TypeOK, TagsOK
<1>4. (Named => n = job[h].pod) /\ (kind = "gcp" => a = job[h].addr)
  BY <1>1 DEF NamesFor, AddressesFor
<1> QED BY <1>3, <1>4

\* The steps of a boot.
LEMMA ProvisionStep ==
    ASSUME IndInv, NEW h \in Handler, Provision(h) \/ ProvisionFails(h)
    PROVE  IndInv'
<1>0. pc[h] = "provision" /\ kind # "fake" /\ job[h] \in Data /\ job[h].ready
  BY DEF Provision, ProvisionFails, IndInv, TypeOK, JobOK, Removing
<1>1. CASE Provision(h)
  <2>1. PICK n \in Name, a \in IP \cup {None} :
           Boots(h, n, a) /\ job' = [job EXCEPT ![h] = [job[h] EXCEPT !.vm = n, !.addr = a]]
    BY <1>1 DEF Provision
  <2> DEFINE d == [job[h] EXCEPT !.vm = n, !.addr = a]
  <2>2. /\ d \in Data /\ d.ready /\ d.pod = job[h].pod /\ d.vm = n /\ d.addr = a
    BY <1>0 DEF Data
  <2>3. /\ pc' = [pc EXCEPT ![h] = "ips"] /\ job' = [job EXCEPT ![h] = d]
        /\ UNCHANGED <<kind, up, ipList, vmMap, wanted, faults>>
    BY <1>1, <2>1 DEF Provision, Goto
  <2> HIDE DEF d
  <2>4. "ips" \in Pcs
    BY DEF Pcs
  <2>5. (Pooled => d.addr = job[h].addr) /\ (Named => d.vm = d.pod)
    BY <1>0, <2>1, <2>2, BootsFacts DEF Pooled
  <2> QED BY <1>0, <2>1, <2>2, <2>3, <2>4, <2>5, BootsFacts, BootStep
<1>2. CASE ProvisionFails(h)
  <2>1. cloud' \in [Name -> VM \cup {None}] /\ TagsOK'
    <3>1. CASE UNCHANGED cloud
      BY <3>1 DEF IndInv, TypeOK, TagsOK
    <3>2. CASE \E n \in Name, a \in IP \cup {None} : Boots(h, n, a)
      BY <3>2, BootsFacts
    <3> QED BY <1>2, <3>1, <3>2 DEF ProvisionFails
  <2>2. faults' \in 0 .. MaxFault
    BY <1>2, FaultFact DEF ProvisionFails, IndInv, TypeOK
  <2> QED BY <1>0, <1>2, <2>1, <2>2, ReturnStep DEF ProvisionFails
<1> QED BY <1>1, <1>2

LEMMA FakeInstanceStep ==
    ASSUME IndInv, NEW h \in Handler, FakeInstance(h)
    PROVE  IndInv'
<1>1. PICK n \in NamesFor(h) : job' = [job EXCEPT ![h] = [job[h] EXCEPT !.vm = n]]
  BY DEF FakeInstance
<1>2. pc[h] = "provision" /\ kind = "fake" /\ ~Named /\ job[h] \in Data /\ job[h].ready
  BY DEF FakeInstance, IndInv, TypeOK, JobOK, Removing, Named
<1> DEFINE d == [job[h] EXCEPT !.vm = n]
<1>3. d \in Data /\ d.ready /\ d.addr = job[h].addr
  BY <1>1, <1>2 DEF Data, NamesFor, Name
<1>4. /\ pc' = [pc EXCEPT ![h] = "insert"] /\ job' = [job EXCEPT ![h] = d]
      /\ UNCHANGED <<kind, up, ipList, vmMap, cloud, wanted, faults>>
  BY <1>1 DEF FakeInstance, Goto
<1> HIDE DEF d
<1>5. "insert" \in Pcs /\ cloud' \in [Name -> VM \cup {None}] /\ TagsOK'
  BY <1>4 DEF Pcs, IndInv, TypeOK, TagsOK
<1> QED BY <1>2, <1>3, <1>4, <1>5, BootStep

LEMMA GetIPsStep ==
    ASSUME IndInv, NEW h \in Handler, GetIPs(h) \/ Connect(h)
    PROVE  IndInv'
<1>1. PICK l \in {"tag", "connect", "insert", "configure"} :
         pc' = [pc EXCEPT ![h] = l] /\ (l = "tag" => kind = "gcp")
  BY DEF GetIPs, Connect, Goto
<1>2. /\ pc[h] \in {"ips", "connect"}
      /\ UNCHANGED <<kind, up, ipList, vmMap, cloud, wanted, job, faults>>
  BY DEF GetIPs, Connect
<1>3. /\ job[h] \in Data /\ job[h].ready /\ kind # "fake" /\ l \in Pcs
      /\ (Named => job[h].vm = job[h].pod)
  BY <1>1, <1>2 DEF IndInv, TypeOK, JobOK, Removing, Pcs
<1>4. job' = [job EXCEPT ![h] = job[h]]
  BY <1>2 DEF IndInv, TypeOK
<1>5. cloud' \in [Name -> VM \cup {None}] /\ TagsOK'
  BY <1>2 DEF IndInv, TypeOK, TagsOK
<1> QED BY <1>1, <1>2, <1>3, <1>4, <1>5, BootStep

LEMMA TagStep ==
    ASSUME IndInv, NEW h \in Handler, Tag(h)
    PROVE  IndInv'
<1>1. CASE Fault /\ Die /\ UNCHANGED cloud
  BY <1>1, DieStep, FaultFact DEF Tag
<1>2. CASE Goto(h, "connect") /\ UNCHANGED <<up, ipList, vmMap, job, faults>>
  <2>1. /\ pc[h] = "tag" /\ job[h] \in Data /\ job[h].ready /\ kind = "gcp"
        /\ job[h].vm = job[h].pod
    BY DEF Tag, IndInv, TypeOK, JobOK, Removing, Named
  <2> DEFINE v == job[h].vm
  <2>2. v \in Pod
    BY <2>1 DEF Data
  <2> HIDE DEF v
  <2>3. cloud' \in [Name -> VM \cup {None}] /\ TagsOK'
    <3>1. CASE UNCHANGED cloud
      BY <3>1 DEF IndInv, TypeOK, TagsOK
    <3>2. CASE cloud[v] # None /\ cloud' = [cloud EXCEPT ![v] = [cloud[v] EXCEPT !.tag = TRUE]]
      <4>1. cloud[v] \in VM
        BY <2>2, <3>2 DEF IndInv, TypeOK, Name
      <4>2. [cloud[v] EXCEPT !.tag = TRUE] \in VM
        BY <4>1 DEF VM
      <4> QED BY <2>2, <3>2, <4>2 DEF IndInv, TypeOK, TagsOK
    <3>3. \/ UNCHANGED cloud
          \/ cloud[v] # None /\ cloud' = [cloud EXCEPT ![v] = [cloud[v] EXCEPT !.tag = TRUE]]
      BY DEF Tag, TagNewInstance, v
    <3> QED BY <3>1, <3>2, <3>3
  <2>4. pc' = [pc EXCEPT ![h] = "connect"] /\ job' = [job EXCEPT ![h] = job[h]] /\ "connect" \in Pcs
    BY <1>2 DEF Goto, IndInv, TypeOK, Pcs
  <2>5. UNCHANGED <<kind, up, ipList, vmMap, wanted, faults>>
    BY <1>2 DEF Tag
  <2> QED BY <2>1, <2>3, <2>4, <2>5, BootStep
<1> QED BY <1>1, <1>2 DEF Tag

LEMMA ConfigureStep ==
    ASSUME IndInv, NEW h \in Handler, Configure(h)
    PROVE  IndInv'
<1>1. /\ pc[h] = "configure" /\ job[h] \in Data /\ job[h].ready /\ kind # "fake"
      /\ (Named => job[h].vm = job[h].pod)
  BY DEF Configure, IndInv, TypeOK, JobOK, Removing
<1>2. PICK o \in BOOLEAN : job' = [job EXCEPT ![h] = [job[h] EXCEPT !.open = o]]
  BY DEF Configure
<1> DEFINE d == [job[h] EXCEPT !.open = o]
<1>3. /\ d \in Data /\ d.ready /\ d.addr = job[h].addr
      /\ d.vm = job[h].vm /\ d.pod = job[h].pod
  BY <1>1 DEF Data
<1>4. cloud' \in [Name -> VM \cup {None}] /\ TagsOK'
  <2>1. PICK c \in BOOLEAN, i \in BOOLEAN : Stores(job[h].vm, c, i)
    BY DEF Configure
  <2> DEFINE v == job[h].vm
  <2>2. CASE UNCHANGED cloud
    BY <2>2 DEF IndInv, TypeOK, TagsOK
  <2>3. CASE /\ cloud[v] # None
             /\ cloud' = [cloud EXCEPT ![v] = [cloud[v] EXCEPT !.config = c, !.ip = i]]
    <3> HIDE DEF v
    <3>1. CASE v \notin Name
      <4>1. cloud' = cloud
        BY <2>3, <3>1 DEF IndInv, TypeOK
      <4> QED BY <4>1 DEF IndInv, TypeOK, TagsOK
    <3>2. CASE v \in Name
      <4>1. cloud[v] \in VM
        BY <2>3, <3>2 DEF IndInv, TypeOK
      <4>2. /\ [cloud[v] EXCEPT !.config = c, !.ip = i] \in VM
            /\ [cloud[v] EXCEPT !.config = c, !.ip = i].tag = cloud[v].tag
        BY <4>1 DEF VM
      <4> QED BY <2>3, <3>2, <4>2 DEF IndInv, TypeOK, TagsOK
    <3> QED BY <3>1, <3>2
  <2> QED BY <2>1, <2>2, <2>3 DEF Stores
<1>5. /\ pc' = [pc EXCEPT ![h] = "insert"] /\ job' = [job EXCEPT ![h] = d] /\ "insert" \in Pcs
      /\ UNCHANGED <<kind, up, ipList, vmMap, wanted, faults>>
  BY <1>2 DEF Configure, Goto, Pcs
<1> HIDE DEF d
<1> QED BY <1>1, <1>3, <1>4, <1>5, BootStep

\* createSandbox: the address goes from the handler to the entry.
LEMMA InsertStep ==
    ASSUME IndInv, NEW h \in Handler, InsertSandbox(h)
    PROVE  IndInv'
<1> DEFINE d == job[h]
           k == IdOf(d)
<1>1. /\ pc[h] = "insert" /\ d \in Data /\ d # None /\ d.ready /\ up
      /\ (Pooled => d.addr \in IP) /\ (Named => d.vm = d.pod)
  BY DEF InsertSandbox, IndInv, TypeOK, JobOK, Removing, DownIsEmpty
<1>2. /\ vmMap' = [vmMap EXCEPT ![k] = d]
      /\ pc' = [pc EXCEPT ![h] = "idle"] /\ job' = [job EXCEPT ![h] = None]
      /\ UNCHANGED <<kind, up, ipList, cloud, wanted, faults>>
  BY DEF InsertSandbox, Return, Goto
<1>3. \A g \in Handler : pc[g] = "delete" => job[g] # d
  BY <1>1 DEF IndInv, JobOK, Removing
<1>4. Pooled => /\ d.addr \notin Elems(ipList)
                /\ \A g \in Handler : g # h /\ Holds(g) => job[g].addr # d.addr
                /\ \A i \in Id : Live(i) => vmMap[i].addr # d.addr
  BY <1>1 DEF IndInv, AddressesHeldOnce, Holds, Removing
<1>5. \A i \in Id : i # k => vmMap'[i] = vmMap[i]
  BY <1>2 DEF IndInv, TypeOK
<1>6. k \in Id => vmMap'[k] = d
  BY <1>2 DEF IndInv, TypeOK
<1>7. TypeOK'
  BY <1>1, <1>2 DEF IndInv, TypeOK, Pcs
<1>8. DownIsEmpty' /\ TagsOK'
  BY <1>1, <1>2 DEF IndInv, DownIsEmpty, TagsOK
<1>9. ASSUME NEW g \in Handler PROVE JobOK(g)'
  BY <1>2 DEF IndInv, TypeOK, JobOK, Removing, Pooled, Named
<1>10. ASSUME NEW i \in Id PROVE EntryOK(i)'
  <2>1. CASE i = k
    <3>1. vmMap'[i] = d /\ kind' = kind
      BY <1>2, <1>6, <2>1
    <3>2. IF kind = "gcp" THEN d.addr = i ELSE d.vm = i
      BY <2>1 DEF IdOf
    <3> QED BY <1>1, <3>1, <3>2 DEF EntryOK, IdOf, Pooled, Named
  <2>2. CASE i # k
    BY <1>2, <1>5, <2>2 DEF IndInv, EntryOK, IdOf, Pooled, Named
  <2> QED BY <2>1, <2>2
<1> HIDE DEF d, k
<1>11. \A g \in Handler : /\ g # h => pc'[g] = pc[g] /\ job'[g] = job[g]
                          /\ pc'[h] = "idle"
  BY <1>2 DEF IndInv, TypeOK
<1>12. \A i \in Id : i # k /\ Live(i)' => Live(i)
  BY <1>1, <1>5, <1>11 DEF Live, Released
<1>13. AddressesHeldOnce'
  BY <1>2, <1>4, <1>5, <1>6, <1>11, <1>12
  DEF IndInv, AddressesHeldOnce, Holds, Removing, Pooled
<1> QED BY <1>7, <1>8, <1>9, <1>10, <1>13 DEF IndInv

------------------------------------------------------------------------------

\* StopPodSandbox: no handler works on a sandbox that is ready.
LEMMA StopStep ==
    ASSUME IndInv, NEW i \in Id, StopPodSandbox(i)
    PROVE  IndInv'
<1> DEFINE d == [vmMap[i] EXCEPT !.ready = FALSE]
<1>1. /\ up /\ vmMap[i] \in Data /\ vmMap[i] # None /\ vmMap[i].ready
      /\ vmMap' = [vmMap EXCEPT ![i] = d]
      /\ UNCHANGED <<kind, up, ipList, cloud, wanted, pc, job>>
  BY DEF StopPodSandbox, IndInv, TypeOK
<1>2. /\ d \in Data /\ d.addr = vmMap[i].addr /\ d.vm = vmMap[i].vm /\ d.pod = vmMap[i].pod
      /\ d # None
  BY <1>1, NoneAssumption DEF Data
<1> HIDE DEF d
<1>3. faults' \in 0 .. MaxFault
  BY FaultFact DEF StopPodSandbox, IndInv, TypeOK
<1>4. /\ \A j \in Id : j # i => vmMap'[j] = vmMap[j]
      /\ vmMap'[i] = d
  BY <1>1 DEF IndInv, TypeOK
<1>5. \A h \in Handler : Removing(h) => job[h] # vmMap[i]
  BY <1>1 DEF IndInv, JobOK, Removing
<1>6. Live(i)
  BY <1>1, <1>5 DEF Live, Released, Removing
<1>7. TypeOK' /\ DownIsEmpty' /\ TagsOK'
  BY <1>1, <1>2, <1>3 DEF IndInv, TypeOK, DownIsEmpty, TagsOK
<1>8. ASSUME NEW g \in Handler PROVE JobOK(g)'
  BY <1>1 DEF IndInv, JobOK, Removing, Pooled, Named
<1>9. ASSUME NEW j \in Id PROVE EntryOK(j)'
  BY <1>1, <1>2, <1>4 DEF IndInv, EntryOK, IdOf, Pooled, Named
<1>10. \A j \in Id : Live(j)' => Live(j)
  BY <1>1, <1>4, <1>6 DEF Live, Released
<1>11. \A j \in Id : vmMap'[j] # None => vmMap'[j].addr = vmMap[j].addr
  BY <1>2, <1>4
<1>12. Pooled => \A h \in Handler : Holds(h) => job[h].addr # vmMap[i].addr
  BY <1>5, <1>6 DEF IndInv, AddressesHeldOnce
<1>13. AddressesHeldOnce'
  BY <1>1, <1>4, <1>10, <1>11, <1>12 DEF IndInv, AddressesHeldOnce, Holds, Live, Removing, Pooled
<1> QED BY <1>7, <1>8, <1>9, <1>13 DEF IndInv

\* RemovePodSandbox: at most one handler removes a sandbox.
LEMMA RemoveStep ==
    ASSUME IndInv, NEW h \in Handler, NEW i \in Id, RemovePodSandbox(h, i)
    PROVE  IndInv'
<1> DEFINE d == vmMap[i]
<1>1. /\ up /\ pc[h] = "idle" /\ d \in Data /\ d # None /\ ~d.ready
      /\ (Pooled => d.addr \in IP) /\ (Named => d.vm = d.pod)
  BY DEF RemovePodSandbox, IndInv, TypeOK, EntryOK
<1>2. /\ job' = [job EXCEPT ![h] = d] /\ pc' = [pc EXCEPT ![h] = "destroy"]
      /\ UNCHANGED <<kind, up, ipList, vmMap, cloud, wanted, faults>>
  BY DEF RemovePodSandbox, Goto
<1>3. \A g \in Handler : pc[g] # "idle" => job[g] # d
  <2>1. ASSUME NEW g \in Handler, pc[g] # "idle", job[g] = d PROVE FALSE
    <3>1. ~Removing(g)
      BY <2>1 DEF RemovePodSandbox, Busy
    <3> QED BY <1>1, <2>1, <3>1 DEF IndInv, JobOK
  <2> QED BY <2>1
<1>4. Live(i)
  BY <1>1, <1>3 DEF Live, Released
<1>5. TypeOK'
  BY <1>1, <1>2 DEF IndInv, TypeOK, Pcs
<1>6. DownIsEmpty' /\ TagsOK'
  BY <1>1, <1>2 DEF IndInv, DownIsEmpty, TagsOK
<1>7. ASSUME NEW g \in Handler PROVE JobOK(g)'
  BY <1>1, <1>2 DEF IndInv, TypeOK, JobOK, Removing, Pooled, Named, Data
<1>8. ASSUME NEW j \in Id PROVE EntryOK(j)'
  BY <1>2 DEF IndInv, EntryOK, IdOf, Pooled, Named
<1>9. Pooled => /\ d.addr \notin Elems(ipList)
                /\ \A g \in Handler : Holds(g) => job[g].addr # d.addr
                /\ \A j \in Id : Live(j) /\ vmMap[j].addr = d.addr => j = i
  BY <1>3, <1>4 DEF IndInv, AddressesHeldOnce, Holds
<1>10. /\ \A g \in Handler : g # h => pc'[g] = pc[g] /\ job'[g] = job[g]
       /\ pc'[h] = "destroy" /\ job'[h] = d
  BY <1>2 DEF IndInv, TypeOK
<1>11. \A j \in Id : Live(j)' => Live(j)
  BY <1>1, <1>2, <1>10 DEF Live, Released
<1>12. AddressesHeldOnce'
  BY <1>2, <1>9, <1>10, <1>11 DEF IndInv, AddressesHeldOnce, Holds, Removing, Pooled
<1> QED BY <1>5, <1>6, <1>7, <1>8, <1>12 DEF IndInv

\* A VM that is halted keeps its label.
LEMMA HaltedKeeps ==
    ASSUME IndInv, NEW n
    PROVE  /\ Halted(n) \in [Name -> VM \cup {None}]
           /\ \A m \in Name : /\ m # n => Halted(n)[m] = cloud[m]
                              /\ Halted(n)[m] = None <=> cloud[m] = None
                              /\ Halted(n)[m] # None => Halted(n)[m].tag = cloud[m].tag
<1> DEFINE w == IF cloud[n] = None \/ kind = "gcp" THEN cloud[n]
                ELSE [cloud[n] EXCEPT !.answers = FALSE, !.off = TRUE]
<1>1. cloud \in [Name -> VM \cup {None}]
  BY DEF IndInv, TypeOK
<1>2. ASSUME n \in Name
      PROVE  w \in VM \cup {None} /\ (w = None <=> cloud[n] = None) /\ (w # None => w.tag = cloud[n].tag)
  <2>1. CASE cloud[n] = None \/ kind = "gcp"
    BY <1>1, <1>2, <2>1
  <2>2. CASE ~(cloud[n] = None \/ kind = "gcp")
    <3> DEFINE o == cloud[n]
    <3>1. o \in VM
      BY <1>1, <1>2, <2>2
    <3>2. w = [o EXCEPT !.answers = FALSE, !.off = TRUE]
      BY <2>2
    <3> HIDE DEF o
    <3>3. [o EXCEPT !.answers = FALSE, !.off = TRUE] \in VM
          /\ [o EXCEPT !.answers = FALSE, !.off = TRUE].tag = o.tag
      BY <3>1 DEF VM
    <3>4. w \in VM /\ w.tag = o.tag
      BY <3>2, <3>3
    <3> QED
      BY <2>2, <3>4, NoneAssumption DEF o
  <2> QED
    BY <2>1, <2>2
<1>3. Halted(n) = [cloud EXCEPT ![n] = w]
  BY DEF Halted
<1> HIDE DEF w
<1> QED
  BY <1>1, <1>2, <1>3

LEMMA DestroyStep ==
    ASSUME IndInv, NEW h \in Handler, Destroy(h) \/ DestroyFails(h)
    PROVE  IndInv'
<1>1. pc[h] = "destroy" /\ UNCHANGED <<kind, up, ipList, vmMap, wanted>>
  BY DEF Destroy, DestroyFails
<1>2. cloud' \in [Name -> VM \cup {None}] /\ TagsOK'
  <2>1. CASE UNCHANGED cloud
    BY <2>1 DEF IndInv, TypeOK, TagsOK
  <2>2. CASE cloud' = [cloud EXCEPT ![job[h].vm] = None]
    BY <2>2 DEF IndInv, TypeOK, TagsOK
  <2>3. CASE cloud' = Halted(job[h].vm)
    BY <2>3, HaltedKeeps DEF IndInv, TypeOK, TagsOK
  <2> QED BY <2>1, <2>2, <2>3 DEF Destroy, DestroyFails
<1>3. CASE Destroy(h)
  <2>1. pc' = [pc EXCEPT ![h] = "release"] /\ UNCHANGED <<job, faults>>
    BY <1>3 DEF Destroy, Goto
  <2>2. TypeOK'
    BY <1>1, <1>2, <2>1 DEF IndInv, TypeOK, Pcs
  <2>3. DownIsEmpty'
    BY <1>1, <2>1 DEF IndInv, TypeOK, DownIsEmpty
  <2>4. ASSUME NEW g \in Handler PROVE JobOK(g)'
    BY <1>1, <2>1 DEF IndInv, TypeOK, JobOK, Removing, Pooled, Named
  <2>5. ASSUME NEW i \in Id PROVE EntryOK(i)'
    BY <1>1 DEF IndInv, EntryOK, IdOf, Pooled, Named
  <2>6. AddressesHeldOnce'
    BY <1>1, <2>1 DEF IndInv, TypeOK, AddressesHeldOnce, Holds, Live, Released, Removing, Pooled
  <2> QED BY <1>2, <2>2, <2>3, <2>4, <2>5, <2>6 DEF IndInv
<1>4. CASE DestroyFails(h)
  <2>1. faults' \in 0 .. MaxFault
    BY <1>4, FaultFact DEF DestroyFails, IndInv, TypeOK
  <2> QED BY <1>1, <1>2, <1>4, <2>1, ReturnStep DEF DestroyFails
<1> QED BY <1>3, <1>4

\* RemovePodSandbox of the provider: the entry of the handler is not live any more.
LEMMA ReleaseStep ==
    ASSUME IndInv, NEW h \in Handler, Release(h)
    PROVE  IndInv'
<1> DEFINE d == job[h]
<1>1. /\ pc[h] = "release" /\ pc' = [pc EXCEPT ![h] = "delete"]
      /\ ipList' = IF Pooled THEN PushBack(ipList, d.addr) ELSE ipList
      /\ UNCHANGED <<kind, up, vmMap, cloud, wanted, job, faults>>
  BY DEF Release, Goto
<1>2. Pooled => /\ d.addr \in IP /\ d.addr \notin Elems(ipList) /\ NoDup(ipList)
                /\ \A g \in Handler : g # h /\ Holds(g) => job[g].addr # d.addr
                /\ \A i \in Id : Live(i) /\ vmMap[i].addr = d.addr => vmMap[i] = d
  BY <1>1 DEF IndInv, JobOK, AddressesHeldOnce, Holds
<1>3. Pooled => /\ ipList' \in Seq(IP) /\ NoDup(ipList')
                /\ Elems(ipList') = Elems(ipList) \cup {d.addr}
  BY <1>1, <1>2, PushBackLemma DEF IndInv, TypeOK
<1> HIDE DEF d
<1>4. TypeOK'
  BY <1>1, <1>3 DEF IndInv, TypeOK, Pcs
<1>5. DownIsEmpty' /\ TagsOK'
  BY <1>1 DEF IndInv, TypeOK, DownIsEmpty, TagsOK
<1>6. ASSUME NEW g \in Handler PROVE JobOK(g)'
  BY <1>1 DEF IndInv, TypeOK, JobOK, Removing, Pooled, Named
<1>7. ASSUME NEW i \in Id PROVE EntryOK(i)'
  BY <1>1 DEF IndInv, EntryOK, IdOf, Pooled, Named
<1>8. /\ \A g \in Handler : g # h => pc'[g] = pc[g]
      /\ pc'[h] = "delete" /\ job'[h] = d
  BY <1>1 DEF IndInv, TypeOK, d
<1>9. \A i \in Id : Live(i)' => Live(i) /\ vmMap[i] # d
  BY <1>1, <1>8 DEF Live, Released
<1>10. AddressesHeldOnce'
  BY <1>1, <1>2, <1>3, <1>8, <1>9 DEF IndInv, AddressesHeldOnce, Holds, Removing, Pooled
<1> QED BY <1>4, <1>5, <1>6, <1>7, <1>10 DEF IndInv

\* removePodSandbox: no other entry becomes live when the handler returns.
LEMMA DeleteStep ==
    ASSUME IndInv, NEW h \in Handler, DeleteSandbox(h)
    PROVE  IndInv'
<1> DEFINE d == job[h]
           k == IdOf(d)
<1>1. /\ pc[h] = "delete"
      /\ vmMap' = [vmMap EXCEPT ![k] = None]
      /\ pc' = [pc EXCEPT ![h] = "idle"] /\ job' = [job EXCEPT ![h] = None]
      /\ UNCHANGED <<kind, up, ipList, cloud, wanted, faults>>
  BY DEF DeleteSandbox, Return, Goto
<1>2. \A i \in Id : i # k /\ vmMap[i] # None => vmMap[i] # d
  BY DEF IndInv, EntryOK
<1>3. \A i \in Id : vmMap'[i] = IF i = k THEN None ELSE vmMap[i]
  BY <1>1 DEF IndInv, TypeOK
<1> HIDE DEF k
<1>4. TypeOK'
  BY <1>1 DEF IndInv, TypeOK, Pcs
<1>5. DownIsEmpty' /\ TagsOK'
  BY <1>1, <1>3 DEF IndInv, TypeOK, DownIsEmpty, TagsOK
<1>6. ASSUME NEW g \in Handler PROVE JobOK(g)'
  BY <1>1 DEF IndInv, TypeOK, JobOK, Removing, Pooled, Named
<1>7. ASSUME NEW i \in Id PROVE EntryOK(i)'
  BY <1>1, <1>3 DEF IndInv, EntryOK, IdOf, Pooled, Named
<1>8. \A g \in Handler : /\ g # h => pc'[g] = pc[g] /\ job'[g] = job[g]
                         /\ pc'[h] = "idle"
  BY <1>1 DEF IndInv, TypeOK
<1>9. \A i \in Id : Live(i)' => Live(i) /\ vmMap'[i] = vmMap[i]
  BY <1>2, <1>3, <1>8 DEF Live, Released
<1>10. AddressesHeldOnce'
  BY <1>1, <1>8, <1>9 DEF IndInv, AddressesHeldOnce, Holds, Removing, Pooled
<1> QED BY <1>4, <1>5, <1>6, <1>7, <1>10 DEF IndInv

LEMMA AnswersStep ==
    ASSUME IndInv, NEW n \in Name, Outage(n) \/ Recover(n)
    PROVE  IndInv'
<1>1. PICK b \in BOOLEAN : Answers(n, b)
  BY DEF Outage, Recover
<1>2. faults' \in 0 .. MaxFault
  BY FaultFact DEF Outage, Recover, IndInv, TypeOK
<1>3. cloud[n] \in VM /\ cloud' = [cloud EXCEPT ![n] = [cloud[n] EXCEPT !.answers = b]]
  BY <1>1 DEF Answers, IndInv, TypeOK
<1>4. /\ [cloud[n] EXCEPT !.answers = b] \in VM
      /\ [cloud[n] EXCEPT !.answers = b].tag = cloud[n].tag
  BY <1>3 DEF VM
<1>5. cloud' \in [Name -> VM \cup {None}] /\ TagsOK'
  BY <1>3, <1>4, NoneAssumption DEF IndInv, TypeOK, TagsOK
<1> QED BY <1>1, <1>2, <1>5, WorldStep DEF Answers, IndInv, TypeOK

\* importSandboxes: the address of every sandbox that is entered leaves the pool.
LEMMA RestartStep ==
    ASSUME IndInv, Restart
    PROVE  IndInv'
<1> DEFINE S == Known(Instances)
           R == IF kind = "gcp" THEN {cloud[n].addr : n \in S} ELSE {}
<1>1. /\ up' = TRUE /\ UNCHANGED <<kind, cloud, wanted, pc, job, faults>>
      /\ ipList' \in FindAndRemove(Pool, R)
      /\ vmMap' = [i \in Id |-> IF \E n \in S : IdOf(Recovered(n)) = i
                                THEN Recovered(CHOOSE n \in S : IdOf(Recovered(n)) = i)
                                ELSE None]
  BY DEF Restart
<1>2. \A h \in Handler : pc[h] = "idle"
  BY DEF Restart, IndInv, DownIsEmpty
<1>3. ipList' \in Seq(IP) /\ NoDup(ipList') /\ Elems(ipList') \cap R = {}
  BY <1>1, PoolAssumption, FindAndRemoveLemma
<1>4. \A n \in S : /\ n \in Pod /\ cloud[n] \in VM /\ Named /\ kind # "fake"
                   /\ kind = "gcp" => cloud[n].addr \in R
  <2>1. CASE kind = "gcp"
    BY <2>1 DEF Known, Instances, Labelled, Named, IndInv, TypeOK, TagsOK
  <2>2. CASE kind = "vsphere"
    BY <2>2 DEF Known, Instances, Prefixed, Named, Name, IndInv, TypeOK
  <2>3. CASE kind \notin {"gcp", "vsphere"}
    BY <2>3 DEF Known, Instances
  <2> QED BY <2>1, <2>2, <2>3
<1>5. \A n \in S : /\ Recovered(n) \in Data /\ Recovered(n).addr = cloud[n].addr
                   /\ Recovered(n).vm = n /\ Recovered(n).pod = n
  BY <1>4 DEF Recovered, Data, VM, Name
<1> HIDE DEF S, R
<1>6. \A i \in Id : \/ vmMap'[i] = None
                    \/ \E n \in S : vmMap'[i] = Recovered(n) /\ IdOf(Recovered(n)) = i
  <2>1. ASSUME NEW i \in Id, NEW n \in S, IdOf(Recovered(n)) = i
        PROVE  \E m \in S : vmMap'[i] = Recovered(m) /\ IdOf(Recovered(m)) = i
    <3> DEFINE m == CHOOSE x \in S : IdOf(Recovered(x)) = i
    <3>1. m \in S /\ IdOf(Recovered(m)) = i
      BY <2>1
    <3>2. vmMap'[i] = Recovered(m)
      BY <1>1, <2>1
    <3> QED BY <3>1, <3>2
  <2>2. ASSUME NEW i \in Id, ~ \E n \in S : IdOf(Recovered(n)) = i
        PROVE  vmMap'[i] = None
    BY <1>1, <2>2
  <2> QED BY <2>1, <2>2
<1>7. vmMap' \in [Id -> Data \cup {None}]
  <2>1. vmMap' = [i \in Id |-> vmMap'[i]]
    BY <1>1
  <2> QED BY <1>5, <1>6, <2>1
<1>8. TypeOK'
  BY <1>1, <1>3, <1>7 DEF IndInv, TypeOK
<1>9. DownIsEmpty' /\ TagsOK'
  BY <1>1 DEF IndInv, DownIsEmpty, TagsOK
<1>10. ASSUME NEW h \in Handler PROVE JobOK(h)'
  BY <1>1, <1>2 DEF JobOK
<1>11. ASSUME NEW i \in Id, vmMap'[i] # None
       PROVE  /\ EntryOK(i)'
              /\ Pooled => kind = "gcp" /\ vmMap'[i].addr = i /\ vmMap'[i].addr \in R
  <2>1. PICK n \in S : vmMap'[i] = Recovered(n) /\ IdOf(Recovered(n)) = i
    BY <1>6, <1>11
  <2>2. /\ Named /\ kind # "fake" /\ vmMap'[i].addr = cloud[n].addr
        /\ vmMap'[i].vm = n /\ vmMap'[i].pod = n
        /\ kind = "gcp" => cloud[n].addr \in R /\ cloud[n].addr = i
        /\ kind # "gcp" => n = i
    BY <1>4, <1>5, <2>1 DEF IdOf
  <2>3. Pooled => vmMap'[i].addr \in IP
    BY <2>2, <1>4, NameAssumption DEF Pooled, VM
  <2> QED BY <1>1, <2>2, <2>3 DEF EntryOK, IdOf, Pooled, Named
<1>12. AddressesHeldOnce'
  <2>1. \A h \in Handler : ~Holds(h)'
    BY <1>1, <1>2 DEF Holds
  <2>2. Pooled' = Pooled
    BY <1>1 DEF Pooled
  <2>3. \A i \in Id : Live(i)' => vmMap'[i] # None
    BY DEF Live
  <2> QED BY <1>3, <1>11, <2>1, <2>2, <2>3 DEF AddressesHeldOnce
<1> QED BY <1>8, <1>9, <1>10, <1>11, <1>12 DEF IndInv, EntryOK

LEMMA RestartEmptyStep ==
    ASSUME IndInv, RestartEmpty
    PROVE  IndInv'
<1>1. /\ up' = TRUE /\ UNCHANGED <<kind, vmMap, cloud, wanted, pc, job, faults>>
      /\ \A h \in Handler : pc[h] = "idle"
      /\ \A i \in Id : vmMap[i] = None
  BY DEF RestartEmpty, IndInv, DownIsEmpty
<1>2. ipList' \in Seq(IP) /\ NoDup(ipList')
  BY PoolAssumption, FindAndRemoveLemma DEF RestartEmpty
<1>3. TypeOK'
  BY <1>1, <1>2 DEF IndInv, TypeOK
<1>4. DownIsEmpty' /\ (\A h \in Handler : JobOK(h)') /\ (\A i \in Id : EntryOK(i)')
  BY <1>1 DEF DownIsEmpty, JobOK, EntryOK
<1>5. TagsOK' /\ AddressesHeldOnce'
  BY <1>1, <1>2 DEF IndInv, TagsOK, AddressesHeldOnce, Holds, Live
<1> QED BY <1>3, <1>4, <1>5 DEF IndInv

------------------------------------------------------------------------------

LEMMA InitStep == Init => IndInv
<1> SUFFICES ASSUME Init PROVE IndInv
  OBVIOUS
<1>1. cloud \in [Name -> VM \cup {None}] /\ TagsOK
  <2> DEFINE t == [addr |-> None, tag |-> FALSE, config |-> FALSE, ip |-> FALSE, answers |-> FALSE,
               off |-> TRUE]
  <2>1. t \in VM /\ t.tag = FALSE
    BY DEF VM
  <2>2. cloud = [n \in Name |-> IF n = Template THEN t ELSE None]
    BY DEF Init
  <2> HIDE DEF t
  <2> QED BY <2>1, <2>2 DEF TagsOK
<1>2. TypeOK
  <2>1. 0 \in 0 .. MaxFault
    BY FaultAssumption
  <2>2. pc \in [Handler -> Pcs] /\ job \in [Handler -> Data \cup {None}]
    BY DEF Init, Pcs
  <2> QED BY <1>1, <2>1, <2>2, PoolAssumption DEF Init, TypeOK
<1>3. DownIsEmpty /\ (\A h \in Handler : JobOK(h)) /\ (\A i \in Id : EntryOK(i))
  BY DEF Init, DownIsEmpty, JobOK, EntryOK
<1>4. AddressesHeldOnce
  BY PoolAssumption DEF Init, AddressesHeldOnce, Holds, Live
<1> QED BY <1>1, <1>2, <1>3, <1>4 DEF IndInv

LEMMA NextStep == IndInv /\ [Next]_vars => IndInv'
<1> SUFFICES ASSUME IndInv, [Next]_vars PROVE IndInv'
  OBVIOUS
<1>0. cloud \in [Name -> VM \cup {None}] /\ wanted \subseteq Pod /\ faults \in 0 .. MaxFault
  BY DEF IndInv, TypeOK
<1>1. CASE UNCHANGED vars
  <2>1. TagsOK'
    BY <1>1 DEF vars, IndInv, TagsOK
  <2> QED BY <1>0, <1>1, <2>1, WorldStep DEF vars
<1>2. ASSUME NEW h \in Handler, Work(h) PROVE IndInv'
  <2>1. CASE BootFails(h)
    <3>1. faults' \in 0 .. MaxFault
      BY <1>0, <2>1, FaultFact DEF BootFails
    <3>2. TagsOK'
      BY <2>1 DEF BootFails, IndInv, TagsOK
    <3> QED BY <1>0, <2>1, <3>1, <3>2, ReturnStep DEF BootFails
  <2> QED
    BY <1>2, <2>1, ProvisionStep, FakeInstanceStep, GetIPsStep, TagStep, ConfigureStep,
       InsertStep, DestroyStep, ReleaseStep, DeleteStep DEF Work
<1>3. ASSUME NEW h \in Handler, NEW g \in Handler, FakeRace(h, g) PROVE IndInv'
  BY <1>3, DieStep, FaultFact DEF FakeRace
<1>4. ASSUME NEW h \in Handler, NoIPs(h) PROVE IndInv'
  BY <1>4, DieStep, FaultFact DEF NoIPs
<1>5. ASSUME NEW p \in Pod, DeletePod(p) PROVE IndInv'
  <2>1. TagsOK'
    BY <1>5 DEF DeletePod, IndInv, TagsOK
  <2> QED BY <1>0, <1>5, <2>1, WorldStep DEF DeletePod
<1>6. CASE Crash
  BY <1>6, DieStep, FaultFact DEF Crash
<1> QED
  BY <1>1, <1>2, <1>3, <1>4, <1>5, <1>6, RunStep, RemoveStep, StopStep, AnswersStep,
     RestartStep, RestartEmptyStep DEF Next

LEMMA Inductive == Spec => []IndInv
BY InitStep, NextStep, PTL DEF Spec

\* Every variable of the providers, the Manager's table and the cloud keeps its type
\* in every reachable state, whatever fails and in whatever order handlers run.
THEOREM TypeCorrect == Spec => []TypeOK
<1>1. IndInv => TypeOK
  BY DEF IndInv
<1> QED BY <1>1, Inductive, PTL

\* No pod address has two holders with the gcp and fake providers: RunPodSandbox takes
\* it out of ipList, RemovePodSandbox returns it once and ListInstances takes out the
\* addresses of the sandboxes it finds.
THEOREM AddressesOnce == Spec => []AddressesHeldOnce
<1>1. IndInv => AddressesHeldOnce
  BY DEF IndInv
<1> QED BY <1>1, Inductive, PTL

------------------------------------------------------------------------------
(* A ready sandbox has a VM of its own.                                      *)

\* A handler whose VM is booted and whose sandbox is not entered yet.
Booted(h) == pc[h] \in {"ips", "tag", "connect", "configure", "insert"}

\* The VM of a sandbox is there, with its address; the fake provider has no VMs.
HasVM(d) == kind # "fake" => cloud[d.vm] # None /\ cloud[d.vm].addr = d.addr

\* VMs named after pods: a pod that kubelet runs has one VM, and one sandbox that is
\* booted or entered; it is kept because nobody removes a sandbox of such a pod.
OwnNamed ==
    Named => \A p \in wanted :
        /\ \A h \in Handler : Removing(h) => job[h].pod # p
        /\ \A h \in Handler : Booted(h) /\ job[h].pod = p =>
              /\ HasVM(job[h])
              /\ \A g \in Handler : Booted(g) /\ job[g].pod = p => g = h
              /\ \A i \in Id : vmMap[i] # None => vmMap[i].pod # p
        /\ \A i \in Id : vmMap[i] # None /\ vmMap[i].pod = p => HasVM(vmMap[i])

\* VMs with fresh names: a VM that is booted is that of no other handler and of no
\* entry, and a removal names no VM of a ready sandbox.
OwnFresh ==
    ~Named =>
        /\ \A h \in Handler : Booted(h) =>
              /\ job[h].vm \in Fresh /\ HasVM(job[h])
              /\ \A i \in Id : vmMap[i] # None => vmMap[i].vm # job[h].vm
              /\ \A g \in Handler : g # h /\ job[g] # None => job[g].vm # job[h].vm
        /\ \A h \in Handler, i \in Id :
              Removing(h) /\ vmMap[i] # None /\ vmMap[i].vm = job[h].vm => ~vmMap[i].ready
        /\ \A i \in Id : vmMap[i] # None /\ vmMap[i].ready => HasVM(vmMap[i])

OwnInv == IndInv /\ OwnNamed /\ OwnFresh

\* The types that the lemmas below use.
LEMMA OwnFacts ==
    ASSUME IndInv
    PROVE  /\ \A h \in Handler : pc[h] # "idle" => job[h] # None /\ job[h] \in Data
           /\ \A h \in Handler : job[h] # None => job[h].vm \in Name \cup {None}
           /\ \A i \in Id : vmMap[i] # None => vmMap[i] \in Data /\ IdOf(vmMap[i]) = i
           /\ Named => \A h \in Handler : pc[h] # "idle" =>
                 job[h].vm = job[h].pod /\ job[h].pod \in Pod
           /\ Named => \A i \in Id : vmMap[i] # None =>
                 vmMap[i].vm = vmMap[i].pod /\ vmMap[i].pod \in Pod
           /\ ~Named => \A i \in Id : vmMap[i] # None => vmMap[i].vm = i
           /\ None \notin Name /\ wanted \subseteq Pod /\ Pod \subseteq Name
<1>1. /\ \A h \in Handler : JobOK(h) /\ job[h] \in Data \cup {None}
      /\ \A i \in Id : EntryOK(i) /\ vmMap[i] \in Data \cup {None}
      /\ wanted \subseteq Pod
  BY DEF IndInv, TypeOK
<1>2. \A d \in Data : d.vm \in Name \cup {None} /\ d.pod \in Pod
  BY DEF Data
<1>3. None \notin Name /\ Pod \subseteq Name
  BY NameAssumption DEF Id, Name
<1> QED
  BY <1>1, <1>2, <1>3 DEF JobOK, EntryOK, IdOf, Named

\* The invariant is what the property says.
LEMMA OwnIsOwn == ASSUME OwnInv PROVE ReadyHasOwnVM
<1> SUFFICES ASSUME kind # "fake", NEW p \in wanted, NEW i \in ReadyOf(p)
             PROVE  /\ HasVM(vmMap[i])
                    /\ \A j \in ReadyOf(p) \ {i} : vmMap[j].vm # vmMap[i].vm
  BY DEF ReadyHasOwnVM, HasVM
<1>1. kind \in {"gcp", "vsphere", "virtualbox"} /\ IndInv
  BY DEF OwnInv, IndInv, TypeOK, Kind
<1>2. i \in Id /\ vmMap[i] # None /\ vmMap[i].pod = p /\ vmMap[i].ready
  BY DEF ReadyOf
<1>3. HasVM(vmMap[i])
  BY <1>1, <1>2 DEF OwnInv, OwnNamed, OwnFresh, Named
<1>4. ASSUME NEW j \in ReadyOf(p), vmMap[j].vm = vmMap[i].vm PROVE j = i
  <2>1. j \in Id /\ vmMap[j] # None /\ vmMap[j].pod = p
    BY DEF ReadyOf
  <2>2. kind = "gcp" => HasVM(vmMap[j])
    BY <2>1 DEF OwnInv, OwnNamed, Named
  <2> QED
    BY <1>1, <1>2, <1>3, <1>4, <2>1, <2>2, OwnFacts DEF HasVM, IdOf
<1> QED
  BY <1>3, <1>4

\* No VM goes, and none changes its address.
KeepsVMs == \A n \in Name : cloud[n] # None => cloud'[n] # None /\ cloud'[n].addr = cloud[n].addr

\* A step that enters no sandbox, starts no removal and boots or destroys no VM.
Quiet ==
    /\ kind' = kind /\ wanted' \subseteq wanted /\ KeepsVMs
    /\ \A i \in Id : vmMap'[i] # None =>
          /\ vmMap[i] # None /\ vmMap'[i].pod = vmMap[i].pod
          /\ vmMap'[i].vm = vmMap[i].vm /\ vmMap'[i].addr = vmMap[i].addr
          /\ vmMap'[i].ready => vmMap[i].ready
    /\ \A h \in Handler :
          /\ Removing(h)' => Removing(h) /\ job'[h] = job[h]
          /\ Booted(h)' => /\ Booted(h) /\ job'[h].pod = job[h].pod
                           /\ job'[h].vm = job[h].vm /\ job'[h].addr = job[h].addr
          /\ ~Named => \/ job'[h] = None \/ job'[h].vm = None
                       \/ job[h] # None /\ job'[h].vm = job[h].vm

\* Quiet steps keep the VMs with their sandboxes.
LEMMA QuietOwn == ASSUME OwnInv, Quiet PROVE OwnNamed' /\ OwnFresh'
<1>i. IndInv /\ OwnNamed /\ OwnFresh
  BY DEF OwnInv
<1>u. kind' = kind /\ wanted' \subseteq wanted /\ (Named' <=> Named)
  BY DEF Quiet, Named
<1>b. \A h \in Handler : Booted(h) => pc[h] # "idle"
  BY DEF Booted
<1>r. \A h \in Handler : Removing(h)' => Removing(h) /\ job'[h] = job[h]
  BY DEF Quiet
<1>j. \A h \in Handler : Booted(h)' =>
          /\ Booted(h) /\ job'[h].pod = job[h].pod
          /\ job'[h].vm = job[h].vm /\ job'[h].addr = job[h].addr
  BY DEF Quiet
<1>e. \A i \in Id : vmMap'[i] # None =>
          /\ vmMap[i] # None /\ vmMap'[i].pod = vmMap[i].pod
          /\ vmMap'[i].vm = vmMap[i].vm /\ vmMap'[i].addr = vmMap[i].addr
          /\ vmMap'[i].ready => vmMap[i].ready
  BY DEF Quiet
<1>1. ASSUME NEW h \in Handler, Booted(h)', HasVM(job[h]), job[h].vm \in Name PROVE HasVM(job[h])'
  BY <1>1, <1>j DEF HasVM, Quiet, KeepsVMs
<1>2. ASSUME NEW i \in Id, vmMap'[i] # None, HasVM(vmMap[i]), vmMap[i].vm \in Name
      PROVE  HasVM(vmMap[i])'
  BY <1>2, <1>e DEF HasVM, Quiet, KeepsVMs
<1>3. OwnNamed'
  BY <1>i, <1>u, <1>b, <1>r, <1>j, <1>e, <1>1, <1>2, OwnFacts DEF OwnNamed
<1>4. OwnFresh'
  <2> SUFFICES ASSUME ~Named PROVE OwnFresh'
    BY <1>u DEF OwnFresh
  <2>1. \A h \in Handler : Booted(h)' =>
              /\ job'[h].vm \in Fresh /\ HasVM(job[h])'
              /\ \A i \in Id : vmMap'[i] # None => vmMap'[i].vm # job'[h].vm
    BY <1>i, <1>j, <1>e, <1>1, OwnFacts DEF OwnFresh, Name
  <2>2. \A g \in Handler : job'[g] = None \/ job'[g].vm = None
                           \/ (job[g] # None /\ job'[g].vm = job[g].vm)
    BY <1>i, OwnFacts DEF Quiet
  <2>3. \A h, g \in Handler : Booted(h)' /\ g # h /\ job'[g] # None => job'[g].vm # job'[h].vm
    BY <1>i, <1>j, <2>1, <2>2, OwnFacts DEF OwnFresh, Name
  <2>4. \A i \in Id : vmMap'[i] # None /\ vmMap'[i].ready => HasVM(vmMap[i])'
    <3> SUFFICES ASSUME NEW i \in Id, vmMap'[i] # None, vmMap'[i].ready PROVE HasVM(vmMap[i])'
      OBVIOUS
    <3>1. vmMap[i].vm \in Name
      BY <1>i, <1>e, OwnFacts, NameAssumption DEF Data, Id
    <3> QED
      BY <1>i, <1>e, <1>2, <3>1 DEF OwnFresh
  <2>5. \A h \in Handler, i \in Id :
            Removing(h)' /\ vmMap'[i] # None /\ vmMap'[i].vm = job'[h].vm => ~vmMap'[i].ready
    BY <1>i, <1>r, <1>e DEF OwnFresh
  <2> QED
    BY <1>u, <2>1, <2>3, <2>4, <2>5 DEF OwnFresh
<1> QED
  BY <1>3, <1>4

\* The handlers other than h stay where they are.
Apart(h) == \A g \in Handler : g # h => pc'[g] = pc[g] /\ job'[g] = job[g]

\* A boot takes a name that no sandbox of a running pod and no other handler has.
LEMMA BootOwn ==
    ASSUME OwnInv, NEW h \in Handler, NEW n \in Name, NEW a \in IP \cup {None},
           pc[h] = "provision", n \in NamesFor(h),
           IF kind = "fake" THEN UNCHANGED cloud ELSE Boots(h, n, a),
           UNCHANGED <<kind, vmMap, wanted>>, Apart(h),
           \/ pc'[h] = "idle" /\ job'[h] = None
           \/ Booted(h)' /\ job'[h].vm = n /\ job'[h].addr = a /\ job'[h].pod = job[h].pod
    PROVE  OwnNamed' /\ OwnFresh'
<1>i. IndInv /\ OwnNamed /\ OwnFresh /\ job[h] \in Data
  BY OwnFacts DEF OwnInv
<1>u. UNCHANGED <<kind, vmMap, wanted>> /\ (Named' <=> Named)
  BY DEF Named
<1>1. /\ \A m \in Name : m # n => cloud'[m] = cloud[m]
      /\ Named => cloud[n] = None /\ n = job[h].pod
      /\ kind # "fake" => cloud'[n] # None /\ cloud'[n].addr = a
  <2>0. CASE kind = "fake"
    BY <2>0 DEF Named
  <2> DEFINE w == [addr |-> a, tag |-> FALSE, config |-> FALSE, ip |-> FALSE, answers |-> TRUE,
               off |-> FALSE]
  <2>1. w \in VM /\ w.addr = a
    BY DEF VM
  <2>2. kind # "fake" => cloud' = [cloud EXCEPT ![n] = w] /\ CanBoot(h, n, a)
    BY DEF Boots
  <2> HIDE DEF w
  <2> QED
    BY <1>i, <2>0, <2>1, <2>2, NoneAssumption DEF CanBoot, NamesFor, IndInv, TypeOK
<1>2. /\ \A g \in Handler : ~(g = h /\ Booted(g)') => (Booted(g)' => Booted(g) /\ g # h /\ job'[g] = job[g])
      /\ \A g \in Handler : Removing(g)' => Removing(g) /\ g # h /\ job'[g] = job[g]
      /\ Booted(h)' => job'[h].vm = n /\ job'[h].addr = a /\ job'[h].pod = job[h].pod
  BY <1>i DEF Apart, Booted, Removing
<1>b. \A g \in Handler : Booted(g) => pc[g] # "idle"
  BY DEF Booted
<1>3. OwnNamed'
  <2> SUFFICES ASSUME Named, NEW p \in wanted
               PROVE  /\ \A g \in Handler : Removing(g)' => job'[g].pod # p
                      /\ \A g \in Handler : Booted(g)' /\ job'[g].pod = p =>
                            /\ HasVM(job[g])'
                            /\ \A f \in Handler : Booted(f)' /\ job'[f].pod = p => f = g
                            /\ \A i \in Id : vmMap[i] # None => vmMap[i].pod # p
                      /\ \A i \in Id : vmMap[i] # None /\ vmMap[i].pod = p => HasVM(vmMap[i])'
    BY <1>u DEF OwnNamed
  <2>0. /\ kind # "fake"
        /\ Booted(h)' /\ job'[h].pod = p =>
              /\ \A g \in Handler : Booted(g) => job[g].pod # p
              /\ \A i \in Id : vmMap[i] # None => vmMap[i].pod # p
    BY <1>i, <1>1, <1>2, <1>b, OwnFacts DEF OwnNamed, HasVM, Named
  <2>1. \A g \in Handler : Removing(g)' => job'[g].pod # p
    BY <1>i, <1>2 DEF OwnNamed
  <2>2. ASSUME NEW g \in Handler, Booted(g)', job'[g].pod = p PROVE HasVM(job[g])'
    <3>1. CASE g = h
      BY <1>1, <1>2, <2>2, <3>1 DEF HasVM
    <3>2. CASE g # h
      <4>1. Booted(g) /\ job'[g] = job[g] /\ HasVM(job[g]) /\ job[g].vm = p /\ p \in Name
        BY <1>i, <1>2, <1>b, <2>2, <3>2, OwnFacts DEF OwnNamed
      <4> QED
        BY <1>1, <1>u, <2>0, <4>1 DEF HasVM
    <3> QED
      BY <3>1, <3>2
  <2>4. \A g, f \in Handler : Booted(g)' /\ job'[g].pod = p /\ Booted(f)' /\ job'[f].pod = p => f = g
    BY <1>i, <1>2, <2>0 DEF OwnNamed
  <2>5. \A g \in Handler, i \in Id :
            Booted(g)' /\ job'[g].pod = p /\ vmMap[i] # None => vmMap[i].pod # p
    BY <1>i, <1>2, <2>0 DEF OwnNamed
  <2>3. ASSUME NEW i \in Id, vmMap[i] # None, vmMap[i].pod = p PROVE HasVM(vmMap[i])'
    <3>1. HasVM(vmMap[i]) /\ vmMap[i].vm = p /\ p \in Name
      BY <1>i, <2>3, OwnFacts DEF OwnNamed
    <3> QED
      BY <1>1, <1>u, <3>1 DEF HasVM
  <2> QED
    BY <2>1, <2>2, <2>3, <2>4, <2>5
<1>4. OwnFresh'
  <2> SUFFICES ASSUME ~Named PROVE OwnFresh'
    BY <1>u DEF OwnFresh
  <2>1. /\ n \in Fresh
        /\ \A i \in Id : vmMap[i] # None => vmMap[i].vm # n
        /\ \A g \in Handler : job[g] # None => job[g].vm # n
    BY <1>1 DEF NamesFor, Named
  <2>2. \A g \in Handler : Booted(g)' =>
            /\ job'[g].vm \in Fresh
            /\ \A i \in Id : vmMap[i] # None => vmMap[i].vm # job'[g].vm
    BY <1>i, <1>2, <2>1 DEF OwnFresh
  <2>3. ASSUME NEW g \in Handler, Booted(g)' PROVE HasVM(job[g])'
    <3>1. CASE g = h
      BY <1>1, <1>2, <2>3, <3>1 DEF HasVM
    <3>2. CASE g # h
      <4>1. /\ Booted(g) /\ job'[g] = job[g] /\ HasVM(job[g]) /\ job[g].vm # n
            /\ job[g].vm \in Name
        BY <1>i, <1>2, <1>b, <2>1, <2>3, <3>2, OwnFacts DEF OwnFresh, Name
      <4> QED
        BY <1>1, <4>1 DEF HasVM
    <3> QED
      BY <3>1, <3>2
  <2>4. \A g, f \in Handler : Booted(g)' /\ f # g /\ job'[f] # None => job'[f].vm # job'[g].vm
    <3> SUFFICES ASSUME NEW g \in Handler, NEW f \in Handler, Booted(g)', f # g, job'[f] # None
                 PROVE  job'[f].vm # job'[g].vm
      OBVIOUS
    <3>1. CASE g = h
      BY <1>2, <2>1, <3>1 DEF Apart
    <3>2. CASE g # h /\ f = h
      BY <1>i, <1>2, <2>1, <3>2, OwnFacts DEF OwnFresh, Booted
    <3>3. CASE g # h /\ f # h
      BY <1>i, <1>2, <3>3 DEF OwnFresh, Apart
    <3> QED
      BY <3>1, <3>2, <3>3
  <2>5. \A g \in Handler, i \in Id :
            Removing(g)' /\ vmMap[i] # None /\ vmMap[i].vm = job'[g].vm => ~vmMap[i].ready
    BY <1>i, <1>2 DEF OwnFresh
  <2>6. ASSUME NEW i \in Id, vmMap[i] # None, vmMap[i].ready PROVE HasVM(vmMap[i])'
    <3>1. HasVM(vmMap[i]) /\ vmMap[i].vm # n /\ vmMap[i].vm \in Name
      BY <1>i, <2>1, <2>6, OwnFacts, NameAssumption DEF OwnFresh, Data, Id
    <3> QED
      BY <1>1, <1>u, <3>1 DEF HasVM
  <2> QED
    BY <1>u, <2>2, <2>3, <2>4, <2>5, <2>6 DEF OwnFresh
<1> QED
  BY <1>3, <1>4

\* createSandbox: the VM of the handler becomes that of the entry.
LEMMA InsertOwn ==
    ASSUME OwnInv, NEW h \in Handler, InsertSandbox(h)
    PROVE  OwnNamed' /\ OwnFresh'
<1> DEFINE d == job[h]
           k == IdOf(d)
<1>i. IndInv /\ OwnNamed /\ OwnFresh
  BY DEF OwnInv
<1>1. pc[h] = "insert" /\ Booted(h) /\ d \in Data /\ d # None
  BY <1>i, OwnFacts DEF InsertSandbox, Booted
<1>2. /\ UNCHANGED <<kind, cloud, wanted>> /\ (Named' <=> Named) /\ Apart(h)
      /\ pc'[h] = "idle" /\ job'[h] = None
      /\ \A i \in Id : vmMap'[i] = IF i = k THEN d ELSE vmMap[i]
  BY <1>i DEF InsertSandbox, Return, Goto, IndInv, TypeOK, Apart, Named
<1>3. \A g \in Handler : /\ Booted(g)' => Booted(g) /\ g # h /\ job'[g] = job[g]
                         /\ Removing(g)' => Removing(g) /\ g # h /\ job'[g] = job[g]
  BY <1>2 DEF Apart, Booted, Removing
<1>4. \A i \in Id : HasVM(vmMap[i])' <=> IF i = k THEN HasVM(d) ELSE HasVM(vmMap[i])
  BY <1>2 DEF HasVM
<1>5. \A g \in Handler : g # h => (HasVM(job[g])' <=> HasVM(job[g]))
  BY <1>2 DEF HasVM, Apart
<1> HIDE DEF d, k
<1>6. OwnNamed'
  BY <1>i, <1>1, <1>2, <1>3, <1>4, <1>5 DEF OwnNamed, d
<1>7. OwnFresh'
  <2> SUFFICES ASSUME ~Named PROVE OwnFresh'
    BY <1>2 DEF OwnFresh
  <2>1. /\ d.vm \in Fresh /\ HasVM(d) /\ k = d.vm
        /\ \A g \in Handler : g # h /\ job[g] # None => job[g].vm # d.vm
    BY <1>i, <1>1 DEF OwnFresh, d, k, IdOf, Named
  <2>2. \A g \in Handler : Booted(g) \/ Removing(g) => job[g] # None
    BY <1>i, OwnFacts DEF Booted, Removing
  <2>3. \A g \in Handler, i \in Id : Booted(g)' /\ vmMap'[i] # None => vmMap'[i].vm # job'[g].vm
    BY <1>i, <1>2, <1>3, <2>1, <2>2 DEF OwnFresh
  <2>4. \A g, f \in Handler : Booted(g)' /\ f # g /\ job'[f] # None => job'[f].vm # job'[g].vm
    BY <1>i, <1>2, <1>3 DEF OwnFresh, Apart
  <2>5. \A g \in Handler, i \in Id :
            Removing(g)' /\ vmMap'[i] # None /\ vmMap'[i].vm = job'[g].vm => ~vmMap'[i].ready
    BY <1>i, <1>2, <1>3, <2>1, <2>2 DEF OwnFresh
  <2>6. \A i \in Id : vmMap'[i] # None /\ vmMap'[i].ready => HasVM(vmMap[i])'
    BY <1>i, <1>2, <1>4, <2>1 DEF OwnFresh
  <2>7. \A g \in Handler : Booted(g)' => job'[g].vm \in Fresh /\ HasVM(job[g])'
    BY <1>i, <1>3, <1>5 DEF OwnFresh
  <2> QED
    BY <1>2, <2>3, <2>4, <2>5, <2>6, <2>7 DEF OwnFresh
<1> QED
  BY <1>6, <1>7

\* RemovePodSandbox: a pod that kubelet runs has no second sandbox where VMs are
\* named after pods, and one that is removed is not ready.
LEMMA RemoveOwn ==
    ASSUME OwnInv, NEW h \in Handler, NEW i \in Id, RemovePodSandbox(h, i)
    PROVE  OwnNamed' /\ OwnFresh'
<1> DEFINE d == vmMap[i]
<1>i. IndInv /\ OwnNamed /\ OwnFresh
  BY DEF OwnInv
<1>1. d # None /\ d \in Data /\ ~d.ready /\ IdOf(d) = i
  BY <1>i, OwnFacts DEF RemovePodSandbox
<1>2. /\ UNCHANGED <<kind, vmMap, cloud, wanted>> /\ (Named' <=> Named) /\ Apart(h)
      /\ pc'[h] = "destroy" /\ job'[h] = d
  BY <1>i DEF RemovePodSandbox, Goto, IndInv, TypeOK, Apart, Named
<1>3. \A g \in Handler : /\ Booted(g)' => Booted(g) /\ g # h /\ job'[g] = job[g]
                         /\ Removing(g)' => g = h \/ (Removing(g) /\ job'[g] = job[g])
  BY <1>2 DEF Apart, Booted, Removing
<1>4. \A j \in Id : HasVM(vmMap[j])' <=> HasVM(vmMap[j])
  BY <1>2 DEF HasVM
<1>5. \A g \in Handler : g # h => (HasVM(job[g])' <=> HasVM(job[g]))
  BY <1>2 DEF HasVM, Apart
<1>6. Named => d.pod \notin wanted
  <2> SUFFICES ASSUME Named, d.pod \in wanted PROVE FALSE
    OBVIOUS
  <2>1. PICK j \in Id : j # i /\ vmMap[j] # None /\ vmMap[j].pod = d.pod
    BY DEF RemovePodSandbox
  <2>2. HasVM(vmMap[j]) /\ HasVM(d)
    BY <1>i, <1>1, <2>1 DEF OwnNamed
  <2> QED
    BY <1>i, <1>1, <2>1, <2>2, OwnFacts DEF HasVM, IdOf
<1> HIDE DEF d
<1>7. OwnNamed'
  BY <1>i, <1>2, <1>3, <1>4, <1>5, <1>6 DEF OwnNamed
<1>8. OwnFresh'
  <2> SUFFICES ASSUME ~Named PROVE OwnFresh'
    BY <1>2 DEF OwnFresh
  <2>1. \A g, f \in Handler : Booted(g)' /\ f # g /\ job'[f] # None => job'[f].vm # job'[g].vm
    BY <1>i, <1>1, <1>2, <1>3 DEF OwnFresh, Apart, d
  <2>2. \A j \in Id : vmMap[j] # None /\ vmMap[j].vm = d.vm => j = i
    BY <1>i, <1>1, OwnFacts DEF d
  <2>3. \A g \in Handler, j \in Id :
            Removing(g)' /\ vmMap[j] # None /\ vmMap[j].vm = job'[g].vm => ~vmMap[j].ready
    BY <1>i, <1>1, <1>2, <1>3, <2>2 DEF OwnFresh, d
  <2> QED
    BY <1>i, <1>2, <1>3, <1>4, <1>5, <2>1, <2>3 DEF OwnFresh
<1> QED
  BY <1>7, <1>8

\* Destroy goes by the name of the VM, which no ready sandbox of a running pod has.
LEMMA DestroyOwn ==
    ASSUME OwnInv, NEW h \in Handler, Destroy(h) \/ DestroyFails(h)
    PROVE  OwnNamed' /\ OwnFresh'
<1> DEFINE v == job[h].vm
<1>i. IndInv /\ OwnNamed /\ OwnFresh
  BY DEF OwnInv
<1>1. pc[h] = "destroy" /\ Removing(h) /\ job[h] # None
  BY <1>i, OwnFacts DEF Destroy, DestroyFails, Removing
<1>2. /\ UNCHANGED <<kind, vmMap, wanted>> /\ (Named' <=> Named) /\ Apart(h)
      /\ \/ pc'[h] = "release" /\ job'[h] = job[h]
         \/ pc'[h] = "idle" /\ job'[h] = None
  BY <1>i DEF Destroy, DestroyFails, Return, Goto, IndInv, TypeOK, Apart, Named
<1>3. \A g \in Handler : /\ Booted(g)' => Booted(g) /\ g # h /\ job'[g] = job[g]
                         /\ Removing(g)' => Removing(g) /\ job'[g] = job[g]
                         /\ job'[g] # None => job'[g] = job[g]
  BY <1>1, <1>2 DEF Apart, Booted, Removing
<1>4. \A n \in Name : n # v => cloud'[n] = cloud[n]
  <2>1. cloud' = cloud \/ cloud' = [cloud EXCEPT ![v] = None] \/ cloud' = Halted(v)
    BY DEF Destroy, DestroyFails
  <2> HIDE DEF v
  <2> QED
    BY <1>i, <2>1, HaltedKeeps DEF IndInv, TypeOK
<1>5. \A i \in Id : vmMap[i].vm \in Name /\ vmMap[i].vm # v /\ HasVM(vmMap[i]) => HasVM(vmMap[i])'
  BY <1>2, <1>4 DEF HasVM
<1>6. \A g \in Handler : job'[g] = job[g] /\ job[g].vm \in Name /\ job[g].vm # v /\ HasVM(job[g])
                         => HasVM(job[g])'
  BY <1>2, <1>4 DEF HasVM
<1>b. \A g \in Handler : Booted(g) \/ Removing(g) => pc[g] # "idle"
  BY DEF Booted, Removing
<1>7. OwnNamed'
  <2>1. Named => v \notin wanted
    BY <1>i, <1>1, <1>b, OwnFacts DEF OwnNamed
  <2> HIDE DEF v
  <2> QED
    BY <1>i, <1>2, <1>3, <1>5, <1>6, <1>b, <2>1, OwnFacts DEF OwnNamed
<1>8. OwnFresh'
  <2> SUFFICES ASSUME ~Named PROVE OwnFresh'
    BY <1>2 DEF OwnFresh
  <2>1. \A g \in Handler : Booted(g)' => job[g].vm # v /\ job[g].vm \in Name
    BY <1>i, <1>1, <1>3 DEF OwnFresh, Name
  <2>2. \A i \in Id : vmMap[i] # None /\ vmMap[i].ready => vmMap[i].vm # v /\ vmMap[i].vm \in Name
    BY <1>i, <1>1, OwnFacts, NameAssumption DEF OwnFresh, Data, Id
  <2> HIDE DEF v
  <2>3. \A g \in Handler : Booted(g)' =>
              /\ job'[g].vm \in Fresh /\ HasVM(job[g])'
              /\ \A i \in Id : vmMap[i] # None => vmMap[i].vm # job'[g].vm
              /\ \A f \in Handler : f # g /\ job'[f] # None => job'[f].vm # job'[g].vm
    BY <1>i, <1>3, <1>6, <2>1 DEF OwnFresh
  <2>4. \A i \in Id : vmMap[i] # None /\ vmMap[i].ready => HasVM(vmMap[i])'
    BY <1>i, <1>5, <2>2 DEF OwnFresh
  <2>5. \A g \in Handler, i \in Id :
            Removing(g)' /\ vmMap[i] # None /\ vmMap[i].vm = job'[g].vm => ~vmMap[i].ready
    BY <1>i, <1>3 DEF OwnFresh
  <2> QED
    BY <1>2, <2>3, <2>4, <2>5 DEF OwnFresh
<1> QED
  BY <1>7, <1>8

\* importSandboxes enters the VMs that it finds, with their addresses.
LEMMA RestartOwn == ASSUME OwnInv, Restart PROVE OwnNamed' /\ OwnFresh'
<1> DEFINE S == Known(Instances)
<1>i. IndInv
  BY DEF OwnInv
<1>1. /\ UNCHANGED <<kind, cloud, wanted, pc, job>>
      /\ \A h \in Handler : pc[h] = "idle"
      /\ vmMap' = [i \in Id |-> IF \E n \in S : IdOf(Recovered(n)) = i
                                THEN Recovered(CHOOSE n \in S : IdOf(Recovered(n)) = i)
                                ELSE None]
  BY <1>i DEF Restart, IndInv, DownIsEmpty
<1>2. /\ \A n \in S : n \in Name /\ cloud[n] # None
      /\ ~Named => S = {}
  BY <1>i DEF Known, Instances, Labelled, Prefixed, Named, Name
<1> HIDE DEF S
<1>3. \A h \in Handler : ~Booted(h)' /\ ~Removing(h)'
  BY <1>1 DEF Booted, Removing
<1>4. ASSUME NEW i \in Id, vmMap'[i] # None PROVE HasVM(vmMap[i])' /\ Named
  <2> DEFINE m == CHOOSE n \in S : IdOf(Recovered(n)) = i
  <2>1. \E n \in S : IdOf(Recovered(n)) = i
    BY <1>1, <1>4
  <2>2. m \in S
    BY <2>1
  <2>3. vmMap'[i] = Recovered(m)
    BY <1>1, <2>1
  <2> HIDE DEF m
  <2>4. vmMap'[i].vm = m /\ vmMap'[i].addr = cloud[m].addr
    BY <2>3 DEF Recovered
  <2> QED
    BY <1>1, <1>2, <2>2, <2>4 DEF HasVM
<1>5. OwnNamed'
  BY <1>3, <1>4 DEF OwnNamed
<1>6. kind' = "virtualbox" => ~Named
  BY <1>1 DEF Named
<1> QED
  BY <1>3, <1>4, <1>5, <1>6 DEF OwnFresh

\* The clauses of Quiet for the handler that takes the step are enough.
LEMMA HandlerQuiet ==
    ASSUME NEW h \in Handler, Apart(h), UNCHANGED <<kind, vmMap, wanted>>, KeepsVMs,
           Removing(h)' => Removing(h) /\ job'[h] = job[h],
           Booted(h)' => /\ Booted(h) /\ job'[h].pod = job[h].pod
                         /\ job'[h].vm = job[h].vm /\ job'[h].addr = job[h].addr,
           ~Named => \/ job'[h] = None \/ job'[h].vm = None
                     \/ job[h] # None /\ job'[h].vm = job[h].vm
    PROVE  Quiet
<1>1. \A g \in Handler : g # h =>
          (Removing(g)' <=> Removing(g)) /\ (Booted(g)' <=> Booted(g)) /\ job'[g] = job[g]
  BY DEF Apart, Removing, Booted
<1> QED
  BY <1>1 DEF Quiet

\* Labels, answers and what the agent stores do not change the address of a VM.
LEMMA FieldsKeepVMs ==
    ASSUME IndInv, NEW n, NEW b, NEW c,
           \/ UNCHANGED cloud
           \/ cloud' = [cloud EXCEPT ![n] = [@ EXCEPT !.tag = b]]
           \/ cloud' = [cloud EXCEPT ![n] = [@ EXCEPT !.answers = b]]
           \/ cloud' = [cloud EXCEPT ![n] = [@ EXCEPT !.config = b, !.ip = c]],
           b \in BOOLEAN, c \in BOOLEAN, n \in Name => cloud[n] # None
    PROVE  KeepsVMs
<1>0. cloud \in [Name -> VM \cup {None}]
  BY DEF IndInv, TypeOK
<1>1. CASE UNCHANGED cloud \/ n \notin Name
  <2>1. cloud' = cloud
    BY <1>0, <1>1
  <2> QED
    BY <2>1 DEF KeepsVMs
<1>2. CASE n \in Name
  <2>1. PICK w : cloud' = [cloud EXCEPT ![n] = w] /\ w \in VM /\ w.addr = cloud[n].addr
    <3> DEFINE o == cloud[n]
    <3>1. o \in VM
      BY <1>0, <1>2
    <3>2. /\ [o EXCEPT !.tag = b] \in VM /\ [o EXCEPT !.tag = b].addr = o.addr
          /\ [o EXCEPT !.answers = b] \in VM /\ [o EXCEPT !.answers = b].addr = o.addr
          /\ [o EXCEPT !.config = b, !.ip = c] \in VM
          /\ [o EXCEPT !.config = b, !.ip = c].addr = o.addr
      BY <3>1 DEF VM
    <3>3. UNCHANGED cloud => cloud' = [cloud EXCEPT ![n] = o]
      BY <1>0
    <3> QED
      BY <3>1, <3>2, <3>3
  <2> QED
    BY <1>0, <1>2, <2>1, NoneAssumption DEF KeepsVMs
<1> QED
  BY <1>1, <1>2

\* The end of the process is quiet: VMs stay.
LEMMA DieQuiet ==
    ASSUME OwnInv, Die, UNCHANGED <<kind, cloud, wanted>>
    PROVE  Quiet
  BY DEF Die, Quiet, KeepsVMs, Removing, Booted

\* The steps of a boot other than Provision and the failure that leaves a VM.
LEMMA BootQuiet ==
    ASSUME OwnInv, NEW h \in Handler,
           \/ GetIPs(h) \/ Tag(h) \/ Connect(h) \/ BootFails(h) \/ Configure(h)
           \/ \E p \in Pod : RunPodSandbox(h, p)
           \/ ProvisionFails(h) /\ UNCHANGED cloud
    PROVE  Quiet
<1>i. IndInv
  BY DEF OwnInv
<1>c. UNCHANGED cloud => KeepsVMs
  BY DEF KeepsVMs
<1>1. CASE GetIPs(h) \/ Connect(h)
  <2>1. /\ Booted(h) /\ Apart(h) /\ UNCHANGED <<kind, vmMap, wanted, cloud, job>>
        /\ ~Removing(h)' /\ job[h] # None
    BY <1>i, <1>1, OwnFacts DEF GetIPs, Connect, Goto, Booted, Removing, Apart, IndInv, TypeOK
  <2> QED
    BY <1>c, <2>1, HandlerQuiet
<1>2. CASE Tag(h)
  <2>1. CASE Die /\ UNCHANGED cloud
    BY <1>2, <2>1, DieQuiet DEF Tag
  <2>2. CASE TagNewInstance(job[h].vm) /\ Goto(h, "connect") /\ UNCHANGED <<vmMap, job>>
    <3>1. KeepsVMs
      <4>1. \/ UNCHANGED cloud
            \/ /\ cloud[job[h].vm] # None
               /\ cloud' = [cloud EXCEPT ![job[h].vm] = [@ EXCEPT !.tag = TRUE]]
        BY <2>2 DEF TagNewInstance
      <4> QED
        BY <1>i, <1>c, <4>1, FieldsKeepVMs
    <3>2. /\ Booted(h) /\ Apart(h) /\ UNCHANGED <<kind, vmMap, wanted, job>>
          /\ ~Removing(h)' /\ job[h] # None
      BY <1>i, <1>2, <2>2, OwnFacts DEF Tag, Goto, Booted, Removing, Apart, IndInv, TypeOK
    <3> QED
      BY <3>1, <3>2, HandlerQuiet
  <2> QED
    BY <1>2, <2>1, <2>2 DEF Tag
<1>3. CASE BootFails(h) \/ (ProvisionFails(h) /\ UNCHANGED cloud)
  <2>1. /\ Apart(h) /\ UNCHANGED <<kind, vmMap, wanted, cloud>>
        /\ pc'[h] = "idle" /\ job'[h] = None
    BY <1>i, <1>3 DEF BootFails, ProvisionFails, Return, Goto, Apart, IndInv, TypeOK
  <2> QED
    BY <1>c, <2>1, HandlerQuiet DEF Booted, Removing
<1>4. CASE Configure(h)
  <2>1. KeepsVMs
    <3>1. PICK c \in BOOLEAN, i \in BOOLEAN : Stores(job[h].vm, c, i)
      BY <1>4 DEF Configure
    <3>2. \/ UNCHANGED cloud
          \/ /\ cloud[job[h].vm] # None
             /\ cloud' = [cloud EXCEPT ![job[h].vm] = [@ EXCEPT !.config = c, !.ip = i]]
      BY <3>1 DEF Stores
    <3> QED
      BY <1>i, <1>c, <3>2, FieldsKeepVMs
  <2>2. PICK o \in BOOLEAN : job' = [job EXCEPT ![h] = [job[h] EXCEPT !.open = o]]
    BY <1>4 DEF Configure
  <2>3. /\ Booted(h) /\ Apart(h) /\ UNCHANGED <<kind, vmMap, wanted>>
        /\ ~Removing(h)' /\ job[h] # None /\ job[h] \in Data
    BY <1>i, <1>4, <2>2, OwnFacts DEF Configure, Goto, Booted, Removing, Apart, IndInv, TypeOK
  <2>4. job'[h].pod = job[h].pod /\ job'[h].vm = job[h].vm /\ job'[h].addr = job[h].addr
    BY <1>i, <2>2, <2>3 DEF Data, IndInv, TypeOK
  <2> QED
    BY <2>1, <2>3, <2>4, HandlerQuiet
<1>5. ASSUME NEW p \in Pod, RunPodSandbox(h, p) PROVE Quiet
  <2>1. CASE Die
    BY <1>5, <2>1, DieQuiet DEF RunPodSandbox
  <2>2. CASE ~Die
    <3> DEFINE d == [pod |-> p, vm |-> IF Named THEN p ELSE None,
                     addr |-> IF Pooled THEN Front(ipList) ELSE None,
                     open |-> TRUE, ready |-> TRUE]
    <3>1. /\ pc[h] = "idle" /\ job' = [job EXCEPT ![h] = d]
          /\ pc' = [pc EXCEPT ![h] = "provision"] /\ UNCHANGED <<kind, vmMap, wanted, cloud>>
      BY <1>5, <2>2 DEF RunPodSandbox, Goto
    <3>2. ~Named => d.vm = None
      OBVIOUS
    <3> HIDE DEF d
    <3>3. /\ Apart(h) /\ ~Booted(h)' /\ ~Removing(h)' /\ (~Named => job'[h].vm = None)
      BY <1>i, <3>1, <3>2 DEF Apart, Booted, Removing, IndInv, TypeOK
    <3> QED
      BY <1>c, <3>1, <3>3, HandlerQuiet
  <2> QED
    BY <2>1, <2>2
<1> QED
  BY <1>1, <1>2, <1>3, <1>4, <1>5

\* The steps that only end or forget a sandbox, or touch none.
LEMMA OtherQuiet ==
    ASSUME OwnInv,
           \/ \E i \in Id : StopPodSandbox(i)
           \/ \E h \in Handler : Release(h) \/ DeleteSandbox(h)
           \/ \E p \in Pod : DeletePod(p)
           \/ \E n \in Name : Outage(n) \/ Recover(n)
           \/ RestartEmpty \/ UNCHANGED vars
    PROVE  Quiet
<1>i. IndInv
  BY DEF OwnInv
<1>c. UNCHANGED cloud => KeepsVMs
  BY DEF KeepsVMs
<1>1. ASSUME NEW i \in Id, StopPodSandbox(i) PROVE Quiet
  <2> DEFINE d == [vmMap[i] EXCEPT !.ready = FALSE]
  <2>1. /\ vmMap[i] \in Data /\ vmMap[i] # None /\ vmMap' = [vmMap EXCEPT ![i] = d]
        /\ UNCHANGED <<kind, cloud, wanted, pc, job>>
    BY <1>i, <1>1, OwnFacts DEF StopPodSandbox
  <2>2. d.addr = vmMap[i].addr /\ d.vm = vmMap[i].vm /\ d.pod = vmMap[i].pod /\ d.ready = FALSE
    BY <2>1 DEF Data
  <2> HIDE DEF d
  <2>3. \A j \in Id : vmMap'[j] = IF j = i THEN d ELSE vmMap[j]
    BY <1>i, <2>1 DEF IndInv, TypeOK
  <2> QED
    BY <1>i, <1>c, <2>1, <2>2, <2>3 DEF Quiet, Removing, Booted
<1>2. ASSUME NEW h \in Handler, Release(h) PROVE Quiet
  <2>1. /\ Apart(h) /\ UNCHANGED <<kind, vmMap, wanted, cloud, job>>
        /\ Removing(h) /\ ~Booted(h)' /\ job[h] # None
    BY <1>i, <1>2, OwnFacts DEF Release, Goto, Booted, Removing, Apart, IndInv, TypeOK
  <2> QED
    BY <1>c, <2>1, HandlerQuiet
<1>3. ASSUME NEW h \in Handler, DeleteSandbox(h) PROVE Quiet
  <2>1. /\ Apart(h) /\ UNCHANGED <<kind, wanted, cloud>> /\ pc'[h] = "idle" /\ job'[h] = None
        /\ \A i \in Id : vmMap'[i] = None \/ vmMap'[i] = vmMap[i]
    BY <1>i, <1>3 DEF DeleteSandbox, Return, Goto, Apart, IndInv, TypeOK
  <2> QED
    BY <1>c, <2>1 DEF Quiet, Apart, Removing, Booted
<1>4. ASSUME NEW p \in Pod, DeletePod(p) PROVE Quiet
  BY <1>c, <1>4 DEF DeletePod, Quiet, Removing, Booted
<1>5. ASSUME NEW n \in Name, Outage(n) \/ Recover(n) PROVE Quiet
  <2>1. PICK b \in BOOLEAN : Answers(n, b)
    BY <1>5 DEF Outage, Recover
  <2>2. KeepsVMs
    BY <1>i, <2>1, FieldsKeepVMs DEF Answers
  <2> QED
    BY <2>1, <2>2 DEF Answers, Quiet, Removing, Booted
<1>6. CASE RestartEmpty \/ UNCHANGED vars
  BY <1>c, <1>6 DEF RestartEmpty, vars, Quiet, Removing, Booted
<1> QED
  BY <1>1, <1>2, <1>3, <1>4, <1>5, <1>6

\* Every step keeps the invariant.
LEMMA OwnStep == OwnInv /\ [Next]_vars => OwnInv'
<1> SUFFICES ASSUME OwnInv, [Next]_vars PROVE OwnNamed' /\ OwnFresh'
  BY NextStep DEF OwnInv
<1>1. ASSUME NEW h \in Handler, Provision(h) \/ ProvisionFails(h) \/ FakeInstance(h)
      PROVE  OwnNamed' /\ OwnFresh'
  <2>i. IndInv /\ pc[h] = "provision" /\ job[h] \in Data
    BY <1>1, OwnFacts DEF OwnInv, Provision, ProvisionFails, FakeInstance
  <2>1. CASE ProvisionFails(h) /\ UNCHANGED cloud
    BY <2>1, BootQuiet, QuietOwn
  <2>2. ASSUME ProvisionFails(h), NEW n \in Name, NEW a \in IP \cup {None}, Boots(h, n, a)
        PROVE  OwnNamed' /\ OwnFresh'
    <3>1. /\ Apart(h) /\ UNCHANGED <<kind, vmMap, wanted>> /\ pc'[h] = "idle" /\ job'[h] = None
          /\ kind # "fake" /\ n \in NamesFor(h)
      BY <2>i, <2>2 DEF ProvisionFails, Return, Goto, Apart, IndInv, TypeOK, Boots, CanBoot
    <3> QED
      BY <2>i, <2>2, <3>1, BootOwn
  <2>3. CASE Provision(h)
    <3>1. PICK n \in Name, a \in IP \cup {None} :
             Boots(h, n, a) /\ job' = [job EXCEPT ![h] = [job[h] EXCEPT !.vm = n, !.addr = a]]
      BY <2>3 DEF Provision
    <3> DEFINE d == [job[h] EXCEPT !.vm = n, !.addr = a]
    <3>2. d.vm = n /\ d.addr = a /\ d.pod = job[h].pod
      BY <2>i DEF Data
    <3>3. job' = [job EXCEPT ![h] = d] /\ Boots(h, n, a)
      BY <3>1
    <3> HIDE DEF d
    <3>4. /\ Apart(h) /\ UNCHANGED <<kind, vmMap, wanted>> /\ Booted(h)' /\ job'[h] = d
          /\ kind # "fake" /\ n \in NamesFor(h)
      BY <2>i, <2>3, <3>3 DEF Provision, Goto, Apart, IndInv, TypeOK, Booted, Boots, CanBoot
    <3> QED
      BY <2>i, <3>2, <3>3, <3>4, BootOwn
  <2>4. CASE FakeInstance(h)
    <3>1. PICK n \in NamesFor(h) : job' = [job EXCEPT ![h] = [job[h] EXCEPT !.vm = n]]
      BY <2>4 DEF FakeInstance
    <3> DEFINE d == [job[h] EXCEPT !.vm = n]
    <3>2. d.vm = n /\ d.addr = job[h].addr /\ d.pod = job[h].pod /\ job[h].addr \in IP \cup {None}
      BY <2>i DEF Data
    <3>3. job' = [job EXCEPT ![h] = d] /\ n \in Name
      BY <2>4, <3>1 DEF NamesFor, Named, FakeInstance, Name
    <3> HIDE DEF d
    <3>4. /\ Apart(h) /\ UNCHANGED <<kind, vmMap, wanted, cloud>> /\ Booted(h)' /\ job'[h] = d
          /\ kind = "fake"
      BY <2>i, <2>4, <3>3 DEF FakeInstance, Goto, Apart, IndInv, TypeOK, Booted
    <3> QED
      BY <2>i, <3>1, <3>2, <3>3, <3>4, BootOwn
  <2> QED
    BY <1>1, <2>1, <2>2, <2>3, <2>4 DEF ProvisionFails
<1>2. ASSUME NEW h \in Handler, Work(h) PROVE OwnNamed' /\ OwnFresh'
  BY <1>1, <1>2, BootQuiet, OtherQuiet, QuietOwn, InsertOwn, DestroyOwn DEF Work
<1>3. ASSUME NEW h \in Handler, NoIPs(h) PROVE OwnNamed' /\ OwnFresh'
  BY <1>3, DieQuiet, QuietOwn DEF NoIPs
<1>4. ASSUME NEW h \in Handler, NEW p \in Pod, RunPodSandbox(h, p) PROVE OwnNamed' /\ OwnFresh'
  BY <1>4, BootQuiet, QuietOwn
<1>5. ASSUME NEW h \in Handler, NEW i \in Id, RemovePodSandbox(h, i) PROVE OwnNamed' /\ OwnFresh'
  BY <1>5, RemoveOwn
<1>6. ASSUME NEW h \in Handler, NEW g \in Handler, FakeRace(h, g) PROVE OwnNamed' /\ OwnFresh'
  BY <1>6, DieQuiet, QuietOwn DEF FakeRace
<1>7. CASE Crash
  BY <1>7, DieQuiet, QuietOwn DEF Crash
<1> QED
  BY <1>2, <1>3, <1>4, <1>5, <1>6, <1>7, OtherQuiet, QuietOwn, RestartOwn DEF Next

\* The initial states have neither sandboxes nor handlers.
LEMMA OwnAlways == Spec => []OwnInv
<1>1. Init => OwnNamed /\ OwnFresh
  BY DEF Init, OwnNamed, OwnFresh, Removing, Booted
<1>2. Init => OwnInv
  BY <1>1, InitStep DEF OwnInv
<1> QED
  BY <1>2, OwnStep, PTL DEF Spec

\* A ready sandbox of a pod that kubelet runs keeps a VM of its own with its address,
\* with the gcp, vsphere and virtualbox providers, whatever number of pods, handlers
\* and failures: neither a retried boot nor a removal by name nor an import takes it
\* away or shares it (bootSandbox, removePodSandbox, ListInstances).
THEOREM ReadyKeepsVM == Spec => []ReadyHasOwnVM
<1>1. OwnInv => ReadyHasOwnVM
  BY OwnIsOwn
<1> QED
  BY <1>1, OwnAlways, PTL

------------------------------------------------------------------------------
(* vmMap is the table of sandboxes that kubelet is promised.                 *)

\* A step that does not touch the entries under names changes nothing in the table.
LEMMA TableSame ==
    ASSUME UNCHANGED <<up, wanted>>, \A n \in Name : vmMap'[n] = vmMap[n]
    PROVE  UNCHANGED Table!tableVars
  BY DEF Table!tableVars, TableEntry

\* A step that sets one entry to d, as createSandbox, StopPodSandbox and
\* removePodSandbox may.
LEMMA TableSet ==
    ASSUME up, UNCHANGED <<up, wanted>>, NEW k \in Name, NEW d,
           \A n \in Name : vmMap'[n] = IF n = k THEN d ELSE vmMap[n],
           \/ /\ d # None /\ d.pod \in Pod /\ d.ready = TRUE
              /\ vmMap[k] = None \/ vmMap[k].pod \notin wanted
           \/ /\ vmMap[k] \in Data /\ d # None /\ d.pod = vmMap[k].pod /\ d.ready = FALSE
           \/ /\ d = None
              /\ vmMap[k] = None \/ vmMap[k].pod \notin wanted \/ ~vmMap[k].ready
    PROVE  Table!Next
<1> DEFINE was == [n \in Name |-> TableEntry(vmMap[n])]
           now == [n \in Name |-> TableEntry(vmMap'[n])]
<1>1. now = [was EXCEPT ![k] = TableEntry(d)] /\ was[k] = TableEntry(vmMap[k])
  OBVIOUS
<1>3. CASE d # None /\ d.pod \in Pod /\ d.ready = TRUE
           /\ (vmMap[k] = None \/ vmMap[k].pod \notin wanted)
  <2>1. TableEntry(d) = [pod |-> d.pod, ready |-> TRUE]
    BY <1>3 DEF TableEntry
  <2>2. was[k] = None \/ was[k].pod \notin wanted
    BY <1>1, <1>3 DEF TableEntry
  <2>3. Table!Enter(k, d.pod)
    BY <1>1, <2>1, <2>2 DEF Table!Enter, Table!Vacant
  <2> QED
    BY <1>3, <2>3 DEF Table!Next
<1>4. CASE vmMap[k] \in Data /\ d # None /\ d.pod = vmMap[k].pod /\ d.ready = FALSE
  <2>1. TableEntry(d) = [pod |-> vmMap[k].pod, ready |-> FALSE]
    BY <1>4 DEF TableEntry
  <2>2. was[k] # None /\ was[k].pod = vmMap[k].pod
    <3> DEFINE e == [pod |-> vmMap[k].pod, ready |-> vmMap[k].ready]
    <3>1. e \in [pod : Pod, ready : BOOLEAN] /\ e.pod = vmMap[k].pod
      BY <1>4 DEF Data
    <3>2. was[k] = e
      BY <1>1, <1>4, NoneAssumption DEF TableEntry
    <3> QED
      BY <3>1, <3>2, NoneAssumption
  <2>3. Table!Stop(k)
    BY <1>1, <2>1, <2>2 DEF Table!Stop
  <2> QED
    BY <2>3 DEF Table!Next
<1>5. CASE d = None /\ (vmMap[k] = None \/ vmMap[k].pod \notin wanted \/ ~vmMap[k].ready)
  <2>1. TableEntry(d) = None
    BY <1>5 DEF TableEntry
  <2>2. was[k] = None \/ was[k].pod \notin wanted \/ ~was[k].ready
    BY <1>1, <1>5 DEF TableEntry
  <2>3. Table!Remove(k)
    BY <1>1, <2>1, <2>2 DEF Table!Remove, Table!Vacant
  <2> QED
    BY <2>3 DEF Table!Next
<1> QED
  BY <1>3, <1>4, <1>5

\* Where ids are names, an entry that a boot or a removal has in hand can be replaced
\* or deleted: it is none, or that of a deleted pod, or stopped.
LEMMA InHand ==
    ASSUME OwnInv, NEW h \in Handler, pc[h] # "idle", NEW k \in Name, k = IdOf(job[h])
    PROVE  /\ Booted(h) => vmMap[k] = None \/ vmMap[k].pod \notin wanted
           /\ Removing(h) => vmMap[k] = None \/ vmMap[k].pod \notin wanted \/ ~vmMap[k].ready
<1>i. IndInv /\ OwnNamed /\ OwnFresh /\ k \in Id
  BY DEF OwnInv, Id
<1>1. kind # "gcp" /\ k = job[h].vm
  BY <1>i, NameAssumption DEF IndInv, JobOK, Pooled, IdOf
<1>2. CASE Named
  BY <1>i, <1>1, <1>2, OwnFacts DEF OwnNamed, IdOf
<1>3. CASE ~Named
  BY <1>i, <1>1, <1>3, OwnFacts DEF OwnFresh
<1> QED
  BY <1>2, <1>3

\* Every step is one of the table's, or none.
LEMMA TableStep == OwnInv /\ [Next]_vars => [Table!Next]_(Table!tableVars)
<1> SUFFICES ASSUME OwnInv, [Next]_vars PROVE Table!Next \/ UNCHANGED Table!tableVars
  OBVIOUS
<1>i. IndInv /\ vmMap \in [Id -> Data \cup {None}] /\ Name \subseteq Id
  BY DEF OwnInv, IndInv, TypeOK, Id
<1>1. ASSUME NEW h \in Handler, InsertSandbox(h) PROVE Table!Next \/ UNCHANGED Table!tableVars
  <2> DEFINE d == job[h]
             k == IdOf(d)
  <2>1. /\ pc[h] = "insert" /\ Booted(h) /\ up /\ d \in Data /\ d # None /\ d.ready = TRUE
    BY <1>i, <1>1, OwnFacts DEF InsertSandbox, Booted, Removing, IndInv, JobOK, DownIsEmpty
  <2>2. UNCHANGED <<up, wanted>> /\ \A n \in Id : vmMap'[n] = IF n = k THEN d ELSE vmMap[n]
    BY <1>i, <1>1 DEF InsertSandbox
  <2>3. k \in Name => vmMap[k] = None \/ vmMap[k].pod \notin wanted
    BY <2>1, InHand
  <2>4. d.pod \in Pod
    BY <2>1 DEF Data
  <2> HIDE DEF d, k
  <2>5. CASE k \in Name
    BY <1>i, <2>1, <2>2, <2>3, <2>4, <2>5, TableSet
  <2>6. CASE k \notin Name
    BY <1>i, <2>2, <2>6, TableSame
  <2> QED
    BY <2>5, <2>6
<1>2. ASSUME NEW h \in Handler, DeleteSandbox(h) PROVE Table!Next \/ UNCHANGED Table!tableVars
  <2> DEFINE k == IdOf(job[h])
  <2>1. pc[h] = "delete" /\ Removing(h) /\ up
    BY <1>i, <1>2 DEF DeleteSandbox, Removing, IndInv, DownIsEmpty
  <2>2. UNCHANGED <<up, wanted>> /\ \A n \in Id : vmMap'[n] = IF n = k THEN None ELSE vmMap[n]
    BY <1>i, <1>2 DEF DeleteSandbox
  <2>3. k \in Name => vmMap[k] = None \/ vmMap[k].pod \notin wanted \/ ~vmMap[k].ready
    BY <2>1, InHand
  <2> HIDE DEF k
  <2>4. CASE k \in Name
    BY <1>i, <2>1, <2>2, <2>3, <2>4, TableSet
  <2>5. CASE k \notin Name
    BY <1>i, <2>2, <2>5, TableSame
  <2> QED
    BY <2>4, <2>5
<1>3. ASSUME NEW i \in Id, StopPodSandbox(i) PROVE Table!Next \/ UNCHANGED Table!tableVars
  <2> DEFINE d == [vmMap[i] EXCEPT !.ready = FALSE]
  <2>1. /\ up /\ vmMap[i] \in Data /\ UNCHANGED <<up, wanted>>
        /\ vmMap' = [vmMap EXCEPT ![i] = d]
    BY <1>i, <1>3 DEF StopPodSandbox
  <2>2. d.pod = vmMap[i].pod /\ d.ready = FALSE /\ d \in Data
    BY <2>1 DEF Data
  <2> HIDE DEF d
  <2>3. \A n \in Id : vmMap'[n] = IF n = i THEN d ELSE vmMap[n]
    BY <1>i, <2>1
  <2>4. CASE i \in Name
    BY <1>i, <2>1, <2>2, <2>3, <2>4, NoneAssumption, TableSet
  <2>5. CASE i \notin Name
    BY <1>i, <2>1, <2>3, <2>5, TableSame
  <2> QED
    BY <2>4, <2>5
<1>4. ASSUME Die, UNCHANGED wanted PROVE Table!Next
  <2>1. \A n \in Name : TableEntry(vmMap'[n]) = None
    BY <1>i, <1>4 DEF Die, TableEntry
  <2>2. Table!Stops
    BY <1>4, <2>1 DEF Die, Table!Stops
  <2> QED
    BY <2>2 DEF Table!Next
<1>5. CASE Restart \/ RestartEmpty
  <2>1. ~up /\ up' = TRUE /\ UNCHANGED wanted
    BY <1>5 DEF Restart, RestartEmpty
  <2>2. ASSUME NEW n \in Name
        PROVE  TableEntry(vmMap'[n]) \in {e \in Table!Entry : e.ready} \cup {None}
    <3> SUFFICES ASSUME vmMap'[n] # None
                 PROVE  vmMap'[n].pod \in Pod /\ vmMap'[n].ready = TRUE
      BY DEF TableEntry, Table!Entry
    <3>1. Restart
      BY <1>5, <1>i, <2>1 DEF RestartEmpty, IndInv, DownIsEmpty
    <3> DEFINE S == Known(Instances)
               m == CHOOSE x \in S : IdOf(Recovered(x)) = n
    <3>2. vmMap' = [i \in Id |-> IF \E x \in S : IdOf(Recovered(x)) = i
                                 THEN Recovered(CHOOSE x \in S : IdOf(Recovered(x)) = i)
                                 ELSE None]
      BY <3>1 DEF Restart
    <3>3. S \subseteq Pod
      BY <1>i DEF Known, Instances, Labelled, Prefixed, IndInv, TagsOK
    <3> HIDE DEF S
    <3>4. \E x \in S : IdOf(Recovered(x)) = n
      BY <1>i, <3>2
    <3>5. m \in S
      BY <3>4
    <3>6. vmMap'[n] = Recovered(m)
      BY <1>i, <3>2, <3>4
    <3> HIDE DEF m
    <3> QED
      BY <3>3, <3>5, <3>6 DEF Recovered
  <2>3. Table!Starts
    BY <2>1, <2>2 DEF Table!Starts
  <2> QED
    BY <2>3 DEF Table!Next
<1>6. ASSUME NEW p \in Pod, DeletePod(p) PROVE Table!Next
  <2>1. Table!DeletePod(p)
    BY <1>6 DEF DeletePod, Table!DeletePod
  <2> QED
    BY <2>1 DEF Table!Next
<1>7. ASSUME UNCHANGED <<up, wanted, vmMap>> PROVE UNCHANGED Table!tableVars
  BY <1>7, TableSame
<1>8. ASSUME NEW h \in Handler, Work(h) PROVE Table!Next \/ UNCHANGED Table!tableVars
  BY <1>1, <1>2, <1>4, <1>7, <1>8
  DEF Work, Provision, ProvisionFails, FakeInstance, GetIPs, Tag, Connect, BootFails,
      Configure, Destroy, DestroyFails, Release
<1>9. ASSUME NEW h \in Handler, NEW p \in Pod, RunPodSandbox(h, p)
      PROVE  Table!Next \/ UNCHANGED Table!tableVars
  BY <1>4, <1>7, <1>9 DEF RunPodSandbox
<1>10. ASSUME NEW h \in Handler, NEW i \in Id, RemovePodSandbox(h, i)
       PROVE  UNCHANGED Table!tableVars
  BY <1>7, <1>10 DEF RemovePodSandbox
<1>11. ASSUME NEW h \in Handler, NoIPs(h) \/ \E g \in Handler : FakeRace(h, g) PROVE Table!Next
  BY <1>4, <1>11 DEF NoIPs, FakeRace
<1>12. ASSUME NEW n \in Name, Outage(n) \/ Recover(n) PROVE UNCHANGED Table!tableVars
  BY <1>7, <1>12 DEF Outage, Recover, Answers
<1>13. CASE Crash
  BY <1>4, <1>13 DEF Crash
<1>14. CASE UNCHANGED vars
  BY <1>7, <1>14 DEF vars
<1> QED
  BY <1>3, <1>5, <1>6, <1>8, <1>9, <1>10, <1>11, <1>12, <1>13, <1>14 DEF Next

\* Every behaviour of the providers and the Manager is one of SandboxTable's where ids
\* are names of VMs (vsphere, virtualbox and fake): createSandbox overwrites no sandbox
\* of a running pod, and the entry that removePodSandbox deletes by id, after the VM is
\* gone, is not a ready one of a running pod, for any pods, handlers and failures.
THEOREM TableRefinement == Spec => ImplementsTable
<1>1. Init => Table!Init
  BY DEF Init, Table!Init, TableEntry, Id
<1> QED
  BY <1>1, OwnAlways, TableStep, PTL DEF Spec, ImplementsTable, Table!Spec
==============================================================================
