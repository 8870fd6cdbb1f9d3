------------------------------- MODULE Units -------------------------------
(***************************************************************************)
(* The agent's two container providers that keep their own table: the fake *)
(* one (pkg/vmserver/fake) and the one that runs a container as a systemd  *)
(* unit of the VM (pkg/vmserver/systemd).  A container's id is its pod and *)
(* its name, so that all attempts of a container share one table entry,    *)
(* one unit file and one unit.  The provider's mapLock makes every call a  *)
(* single step, but calls outlive the client's interest in them: a call    *)
(* that kubelet gave up on, or that was decided on an old listing, is      *)
(* executed when the lock is free.                                         *)
(***************************************************************************)
EXTENDS Naturals

CONSTANTS
    Name,       \* container names of the pod
    Image,      \* images, here binaries that are fetched over http
    Handler,    \* gRPC handlers of the agent
    MaxAttempt, \* bound: attempts per name
    MaxRestart, \* bound: restarts of the agent
    None        \* the absent value

ASSUME BoundAssumption == MaxAttempt \in Nat /\ MaxRestart \in Nat

VARIABLES
    kind,       \* the provider the agent was started with
    up,         \* the agent is running
    contMap,    \* the table: attempt, image and state of a name's container
    disk,       \* the image that the name's unit file starts
    loaded,     \* the same as systemd has it in memory
    unit,       \* the main process of the name's active unit
    left,       \* other processes of the unit's binary that outlived a main process
    call,       \* what each handler has been asked to do
    attempt,    \* attempts kubelet has asked for
    startable,  \* names whose CreateContainer was answered and not yet acted on
    restarts    \* restarts of the agent so far

systemd == <<disk, loaded, unit, left>>
kubelet == <<attempt, startable>>
vars    == <<kind, up, contMap, systemd, call, kubelet, restarts>>

Kind       == {"fake", "systemd"}
KubeState  == {"CREATED", "RUNNING", "EXITED"}
Container  == [attempt : 1 .. MaxAttempt, image : Image, state : KubeState]
Process    == [attempt : 1 .. MaxAttempt, image : Image]
\* A call on an existing container only names it.
Call       == [op : {"create"}, name : Name, attempt : 1 .. MaxAttempt, image : Image]
                \cup [op : {"start", "stop", "remove"}, name : Name]

ASSUME AbsentAssumption ==
    None \notin Container \cup Process \cup Call \cup Image

Asked(h, op) == up /\ call[h] # None /\ call[h].op = op

Answer(h) == call' = [call EXCEPT ![h] = None]

Has(n) == contMap[n] # None

\* The agent's process ends: the table and the calls are gone, the units stay.
Die ==
    /\ up' = FALSE
    /\ contMap' = [n \in Name |-> None]
    /\ call' = [h \in Handler |-> None]
    /\ startable' = {}
    /\ UNCHANGED <<kind, attempt, restarts>>

------------------------------------------------------------------------------
(* ListContainers                                                           *)

\* Whether the filter of a listing for a state leaves a container out.  The systemd
\* provider leaves out those that are in the state.
Filtered(n, s) ==
    IF kind = "fake" THEN contMap[n].state # s ELSE contMap[n].state = s

ListContainers(s) == {n \in Name : Has(n) /\ ~Filtered(n, s)}
ListAll == {n \in Name : Has(n)}

\* A filter without a state makes the systemd provider dereference nil, as soon as
\* there is a container to filter; all other listings change nothing.
ListWithoutState ==
    /\ up /\ kind = "systemd" /\ ListAll # {}
    /\ Die
    /\ UNCHANGED systemd

------------------------------------------------------------------------------
(* The client's calls                                                       *)

Request(h, c) ==
    /\ up /\ call[h] = None
    /\ call' = [call EXCEPT ![h] = c]
    /\ UNCHANGED <<kind, up, contMap, systemd, restarts>>

\* kubelet asks for a new attempt when it sees no running container of the name.
\* The image is the one field of a container that a pod's owner may change.
CallCreate(h, n, i) ==
    /\ attempt[n] < MaxAttempt
    /\ Has(n) => contMap[n].state # "RUNNING"
    /\ attempt' = [attempt EXCEPT ![n] = @ + 1]
    /\ Request(h, [op |-> "create", name |-> n, attempt |-> attempt'[n], image |-> i])
    /\ UNCHANGED startable

CallStart(h, n) ==
    /\ n \in startable
    /\ startable' = startable \ {n}
    /\ Request(h, [op |-> "start", name |-> n])
    /\ UNCHANGED attempt

\* kubelet stops what it sees running, stopSandbox whatever is listed.
CallStop(h, n) ==
    /\ n \in ListContainers("RUNNING") \cup ListAll
    /\ Request(h, [op |-> "stop", name |-> n])
    /\ UNCHANGED kubelet

\* kubelet's garbage collection removes containers that it has seen not running.
CallRemove(h, n) ==
    /\ Has(n) /\ contMap[n].state # "RUNNING"
    /\ Request(h, [op |-> "remove", name |-> n])
    /\ UNCHANGED kubelet

------------------------------------------------------------------------------
(* CreateContainer                                                          *)

\* NewContainer replaces what the table has under the name.  A client that still
\* waits for the answer goes on to start the container.
NewContainer(c) ==
    /\ contMap' = [contMap EXCEPT ![c.name] =
            [attempt |-> c.attempt, image |-> c.image, state |-> "CREATED"]]
    /\ startable' \in {startable, startable \cup {c.name}}

CreateFake(h) ==
    /\ Asked(h, "create") /\ kind = "fake"
    /\ NewContainer(call[h])
    /\ Answer(h)
    /\ UNCHANGED <<kind, up, systemd, attempt, restarts>>

\* The processes that a name's unit has started and that still run.
Running(n) == left[n] \cup (IF unit[n] = None THEN {} ELSE {unit[n]})

\* The kernel refuses to write a program that a process executes (ETXTBSY), and the
\* file is named after the image alone.
Busy(i) == \E n \in Name : \E p \in Running(n) : p.image = i

\* The binary cannot be fetched or written.
CreateFails(h) ==
    /\ Asked(h, "create") /\ kind = "systemd"
    /\ Answer(h)
    /\ UNCHANGED <<kind, up, contMap, systemd, kubelet, restarts>>

\* createSystemdUnit: an error in writing the unit file is ignored.
WriteUnit(c) == disk' \in {disk, [disk EXCEPT ![c.name] = c.image]}

\* The binary is in place; systemctl daemon-reload fails.
CreateReloadFails(h) ==
    /\ Asked(h, "create") /\ kind = "systemd" /\ ~Busy(call[h].image)
    /\ WriteUnit(call[h])
    /\ Answer(h)
    /\ UNCHANGED <<kind, up, contMap, loaded, unit, left, kubelet, restarts>>

\* Stat's error for a mount whose source does not exist is ignored and the nil it
\* returns dereferenced.
CreatePanics(h) ==
    /\ Asked(h, "create") /\ kind = "systemd" /\ ~Busy(call[h].image)
    /\ WriteUnit(call[h])
    /\ loaded' = disk'
    /\ Die
    /\ UNCHANGED <<unit, left>>

\* A mistake in CreateSystemd: an error in writing the binary is ignored as well.
CreateSystemdOverwrites(h) ==
    /\ Asked(h, "create") /\ kind = "systemd"
    /\ WriteUnit(call[h])
    /\ loaded' = disk'
    /\ NewContainer(call[h])
    /\ Answer(h)
    /\ UNCHANGED <<kind, up, unit, left, attempt, restarts>>

CreateSystemd(h) ==
    /\ Asked(h, "create") /\ kind = "systemd" /\ ~Busy(call[h].image)
    /\ WriteUnit(call[h])
    /\ loaded' = disk'
    /\ NewContainer(call[h])
    /\ Answer(h)
    /\ UNCHANGED <<kind, up, unit, left, attempt, restarts>>

------------------------------------------------------------------------------
(* StartContainer, StopContainer and RemoveContainer                        *)

SetState(n, s) == contMap' = [contMap EXCEPT ![n].state = s]

\* The id is not in the table, or systemctl fails.
CallFails(h) ==
    /\ \/ \E op \in {"start", "stop", "remove"} : Asked(h, op) /\ ~Has(call[h].name)
       \/ kind = "systemd" /\ (Asked(h, "start") \/ Asked(h, "stop"))
    /\ Answer(h)
    /\ UNCHANGED <<kind, up, contMap, systemd, kubelet, restarts>>

\* A mistake in StartContainer: the error of systemctl start is ignored.
StartContainerUnchecked(h) ==
    /\ Asked(h, "start") /\ Has(call[h].name)
    /\ LET n == call[h].name
       IN /\ unit' = IF kind = "systemd" /\ unit[n] = None
                     THEN [unit EXCEPT ![n] = [attempt |-> contMap[n].attempt,
                                               image |-> loaded[n]]]
                     ELSE unit
          /\ SetState(n, "RUNNING")
    /\ Answer(h)
    /\ UNCHANGED <<kind, up, disk, loaded, left, kubelet, restarts>>

\* systemctl start does nothing for a unit that is active, and processes left over
\* from an earlier main process do not keep it from starting another one.
StartContainer(h) ==
    /\ Asked(h, "start") /\ Has(call[h].name)
    /\ LET n == call[h].name
       IN /\ kind = "systemd" => loaded[n] # None
          /\ unit' = IF kind = "systemd" /\ unit[n] = None
                     THEN [unit EXCEPT ![n] = [attempt |-> contMap[n].attempt,
                                               image |-> loaded[n]]]
                     ELSE unit
          /\ SetState(n, "RUNNING")
    /\ Answer(h)
    /\ UNCHANGED <<kind, up, disk, loaded, left, kubelet, restarts>>

\* The main process of a unit is gone.  KillMode=process: systemd kills no other, be
\* it on a stop or after the main process has ended.  Of those it has started, the
\* ones that run the container's binary too are kept; other programs concern nobody.
MainEnds(n) ==
    /\ unit' = [unit EXCEPT ![n] = None]
    /\ IF unit[n] = None THEN UNCHANGED left
       ELSE left' \in {left, [left EXCEPT ![n] = @ \cup {unit[n]}]}

\* A mistake in StopContainer: the state is set although systemctl stop failed.
StopContainerUnchecked(h) ==
    /\ Asked(h, "stop") /\ Has(call[h].name)
    /\ MainEnds(call[h].name) \/ UNCHANGED <<unit, left>>
    /\ SetState(call[h].name, "EXITED")
    /\ Answer(h)
    /\ UNCHANGED <<kind, up, disk, loaded, kubelet, restarts>>

StopContainer(h) ==
    /\ Asked(h, "stop") /\ Has(call[h].name)
    /\ MainEnds(call[h].name)
    /\ SetState(call[h].name, "EXITED")
    /\ Answer(h)
    /\ UNCHANGED <<kind, up, disk, loaded, kubelet, restarts>>

\* Only the entry is deleted: a unit that is active stays active.
RemoveContainer(h) ==
    /\ Asked(h, "remove") /\ Has(call[h].name)
    /\ contMap' = [contMap EXCEPT ![call[h].name] = None]
    /\ Answer(h)
    /\ UNCHANGED <<kind, up, systemd, kubelet, restarts>>

------------------------------------------------------------------------------
(* The VM                                                                   *)

\* A main process ends by itself.  Nothing tells the provider.
Exit(n) ==
    /\ unit[n] # None
    /\ MainEnds(n)
    /\ UNCHANGED <<kind, up, contMap, disk, loaded, call, kubelet, restarts>>

\* So does a process that was left over.
ChildEnds(n, p) ==
    /\ left' = [left EXCEPT ![n] = @ \ {p}]
    /\ UNCHANGED <<kind, up, contMap, disk, loaded, unit, call, kubelet, restarts>>

\* The agent dies, and is started again by hand: its init script does not do it.
Kill == up /\ restarts < MaxRestart /\ Die /\ UNCHANGED systemd

Restart ==
    /\ ~up /\ restarts < MaxRestart
    /\ up' = TRUE
    /\ restarts' = restarts + 1
    /\ UNCHANGED <<kind, contMap, systemd, call, kubelet>>

------------------------------------------------------------------------------

Init ==
    /\ kind \in Kind
    /\ up = TRUE
    /\ contMap = [n \in Name |-> None]
    /\ disk = [n \in Name |-> None]
    /\ loaded = [n \in Name |-> None]
    /\ unit = [n \in Name |-> None]
    /\ left = [n \in Name |-> {}]
    /\ call = [h \in Handler |-> None]
    /\ attempt = [n \in Name |-> 0]
    /\ startable = {}
    /\ restarts = 0

Execute(h) ==
    \/ CreateFake(h) \/ CreateFails(h) \/ CreateReloadFails(h) \/ CreatePanics(h)
    \/ CreateSystemd(h)
    \/ CallFails(h) \/ StartContainer(h) \/ StopContainer(h) \/ RemoveContainer(h)

Next ==
    \/ \E h \in Handler, n \in Name :
          \/ \E i \in Image : CallCreate(h, n, i)
          \/ CallStart(h, n) \/ CallStop(h, n) \/ CallRemove(h, n)
    \/ \E h \in Handler : Execute(h)
    \/ \E n \in Name : Exit(n) \/ \E p \in left[n] : ChildEnds(n, p)
    \/ ListWithoutState \/ Kill \/ Restart

Spec == Init /\ [][Next]_vars

------------------------------------------------------------------------------
(* Properties                                                               *)

\* Every variable keeps its type.
TypeOK ==
    /\ kind \in Kind
    /\ up \in BOOLEAN
    /\ contMap \in [Name -> Container \cup {None}]
    /\ disk \in [Name -> Image \cup {None}]
    /\ loaded \in [Name -> Image \cup {None}]
    /\ unit \in [Name -> Process \cup {None}]
    /\ left \in [Name -> SUBSET Process]
    /\ call \in [Handler -> Call \cup {None}]
    /\ attempt \in [Name -> 0 .. MaxAttempt]
    /\ startable \subseteq Name
    /\ restarts \in 0 .. MaxRestart

\* The fake provider starts no process.
FakeHasNoUnits == kind = "fake" => \A n \in Name : Running(n) = {}

Exited(n) == Has(n) /\ contMap[n].state = "EXITED"

\* A container reported as exited has lost its main process, although late starts,
\* stops and creations for the same id are executed in any order (StopContainer,
\* StartContainer, NewContainer of the systemd provider).
ExitedHasNoMain == \A n \in Name : Exited(n) => unit[n] = None

\* What an earlier attempt left running of an image's binary, main process or child,
\* never passes for a container of the same image: before such a container is
\* entered the kernel's refusal to overwrite the running binary fails its creation,
\* also after the agent has lost its table, after an entry was removed under a
\* running unit and after a stop that spared the children (CreateContainer).
AttemptsNotMixed ==
    \A n \in Name : \A p \in Running(n) :
        Has(n) /\ p.image = contMap[n].image => p.attempt = contMap[n].attempt
============================================================================
