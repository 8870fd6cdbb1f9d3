----------------------------- MODULE Containers -----------------------------
(***************************************************************************)
(* The containers of one sandbox and their logs: the container calls of    *)
(* the daemon (pkg/infranetes/manager.go), the agent's docker provider     *)
(* that executes them inside the VM (pkg/vmserver/docker) and the log      *)
(* stream that StartContainer leaves behind.  The stream is a chain of     *)
(* three goroutines: a tail of the container's log file, the agent's Logs  *)
(* handler that sends the lines, and the daemon's SaveLogs that stores     *)
(* them.  RemoveContainer stops the tail and waits for its end.            *)
(*                                                                         *)
(* The agent passes context.Background() to docker and looks at no         *)
(* deadline, so the agent's part of a call goes on when the daemon dies.   *)
(***************************************************************************)
EXTENDS Naturals

CONSTANTS
    Cont,       \* docker container ids
    Thread,     \* gRPC handlers of the daemon, with their agent counterparts
    MaxLines,   \* bound: lines a container writes
    MaxFault,   \* bound: broken streams and restarts of the daemon
    None        \* the absent value

ASSUME BoundAssumption == MaxLines \in Nat /\ MaxFault \in Nat
ASSUME AbsentAssumption == None \notin Cont \cup Thread

VARIABLES
    ctr,        \* the container as docker keeps it
    out,        \* lines in its log file
    startable,  \* returned by CreateContainer and not started yet
    contLogs,   \* PodData.ContLogs: containers with a log path
    readers,    \* handlers that hold PodData.stateLock in read mode
    pending,    \* the handler that waits for it in write mode
    pc,         \* what each handler does next
    arg,        \* the container it works on
    host,       \* the daemon's SaveLogs goroutine for the container
    saved,      \* lines in the daemon's copy of the log
    logs,       \* the agent's Logs handler for the container
    tailMap,    \* dockerProvider.tailMap: containers with a registered tail
    tail,       \* the goroutine that tails the log file
    dying,      \* the tail has been told to stop
    pos,        \* lines the tail has handed over
    watch,      \* lines in the file when it last learnt of a change, None before
                \* its inotify watch is set
    faults      \* broken streams and restarts so far

docker  == <<ctr, out>>
kubelet == <<startable>>
podData == <<contLogs, readers, pending>>
threads == <<pc, arg>>
saver   == <<host, saved>>
agent   == <<logs, tailMap, tail, dying, pos, watch>>
vars    == <<docker, kubelet, podData, threads, saver, agent, faults>>

\* A container that could not be started is "failed": docker gives it an exit
\* code, but neither a start nor a finish time.
Present == {"created", "failed", "running", "exited"}

Waits == {"crLock", "startLock", "stopLock", "remLock"}
Rpcs  == {"crRpc", "startRpc", "stopRpc", "remTail", "remStop", "remRpc"}
Pcs   == {"idle", "crLog"} \cup Waits \cup Rpcs

\* The daemon end of a stream whose other end still sends is closed.
Broken(c) == host[c] = "done"

Goto(t, l) == pc' = [pc EXCEPT ![t] = l] /\ UNCHANGED arg

\* The call returns and releases the read lock.  The agent's part of a call
\* that lost its daemon has no lock to release.
Return(t) ==
    /\ pc' = [pc EXCEPT ![t] = "idle"]
    /\ arg' = [arg EXCEPT ![t] = None]
    /\ readers' = readers \ {t}
    /\ UNCHANGED <<contLogs, pending>>

Arrive(t, c, l) ==
    /\ pc[t] = "idle"
    /\ pc' = [pc EXCEPT ![t] = l]
    /\ arg' = [arg EXCEPT ![t] = c]
    /\ UNCHANGED <<docker, podData, saver, agent, faults>>

\* podData.RLock: a waiting writer keeps new readers out.
RLocked(t, l) ==
    /\ pending = None
    /\ readers' = readers \cup {t}
    /\ Goto(t, l)
    /\ UNCHANGED <<docker, kubelet, contLogs, pending, saver, agent, faults>>

------------------------------------------------------------------------------
(* CreateContainer                                                          *)

CreateContainer(t) == Arrive(t, None, "crLock") /\ UNCHANGED kubelet

CreateLock(t) == pc[t] = "crLock" /\ RLocked(t, "crRpc")

\* A mistake in CreateRpc: the read lock is kept until CreateContainer returns.
CreateRpcKeepsLock(t) ==
    /\ pc[t] = "crRpc"
    /\ \E c \in Cont \cup {None} :
          /\ c # None => ctr[c] = "absent"
          /\ ctr' = [d \in Cont |-> IF d = c THEN "created" ELSE ctr[d]]
          /\ IF t \in readers
             THEN /\ pc' = [pc EXCEPT ![t] = "crLog"]
                  /\ arg' = [arg EXCEPT ![t] = c]
                  /\ UNCHANGED podData
             ELSE Return(t)
    /\ UNCHANGED <<out, kubelet, saver, agent, faults>>

\* The agent binds the shared paths, pulls the image and creates the container;
\* each can fail.  createContainer releases the read lock either way.
CreateRpc(t) ==
    /\ pc[t] = "crRpc"
    /\ \E c \in Cont \cup {None} :
          /\ c # None => ctr[c] = "absent"
          /\ ctr' = [d \in Cont |-> IF d = c THEN "created" ELSE ctr[d]]
          /\ IF t \in readers
             THEN /\ pc' = [pc EXCEPT ![t] = "crLog"]
                  /\ arg' = [arg EXCEPT ![t] = c]
                  /\ readers' = readers \ {t}
                  /\ UNCHANGED <<contLogs, pending>>
             ELSE Return(t)
    /\ UNCHANGED <<out, kubelet, saver, agent, faults>>

\* AddContLogPath takes the write lock: first it keeps new readers out ...
CreateLogCall(t) ==
    /\ pc[t] = "crLog"
    /\ pending = None
    /\ pending' = t
    /\ UNCHANGED <<docker, kubelet, contLogs, readers, threads, saver, agent, faults>>

\* A mistake in CreateLog: a failed creation is answered like one that worked.
CreateLogUnchecked(t) ==
    /\ pc[t] = "crLog"
    /\ pending = t /\ readers = {}
    /\ contLogs' = contLogs \cup {arg[t]}
    /\ startable' = startable \cup {arg[t]}
    /\ pending' = None
    /\ pc' = [pc EXCEPT ![t] = "idle"]
    /\ arg' = [arg EXCEPT ![t] = None]
    /\ UNCHANGED <<docker, readers, saver, agent, faults>>

\* ... then it waits for the ones inside.  A failed creation stores its path
\* under the empty id.
CreateLog(t) ==
    /\ pc[t] = "crLog"
    /\ pending = t /\ readers = {}
    /\ contLogs' = contLogs \cup ({arg[t]} \ {None})
    /\ startable' = startable \cup ({arg[t]} \ {None})
    /\ pending' = None
    /\ pc' = [pc EXCEPT ![t] = "idle"]
    /\ arg' = [arg EXCEPT ![t] = None]
    /\ UNCHANGED <<docker, readers, saver, agent, faults>>

------------------------------------------------------------------------------
(* StartContainer and StopContainer                                         *)

\* kubelet starts a container at most once: a failed start is retried with a
\* new container.
StartContainer(t, c) ==
    /\ c \in startable
    /\ Arrive(t, c, "startLock")
    /\ startable' = startable \ {c}

StartLock(t) == pc[t] = "startLock" /\ RLocked(t, "startRpc")

\* docker starts the container, cannot run it, or no longer has it; a daemon
\* that gets the answer then starts to save the log.
StartRpc(t) ==
    /\ pc[t] = "startRpc"
    /\ \/ /\ ctr[arg[t]] = "created"
          /\ ctr' = [ctr EXCEPT ![arg[t]] = "running"]
          /\ host' = IF t \in readers THEN [host EXCEPT ![arg[t]] = "path"] ELSE host
       \/ /\ ctr[arg[t]] = "created"
          /\ ctr' = [ctr EXCEPT ![arg[t]] = "failed"]
          /\ UNCHANGED host
       \/ /\ ctr[arg[t]] # "created"
          /\ UNCHANGED <<ctr, host>>
    /\ Return(t)
    /\ UNCHANGED <<out, kubelet, saved, agent, faults>>

\* kubelet stops containers it has seen running.
StopContainer(t, c) ==
    /\ ctr[c] = "running"
    /\ Arrive(t, c, "stopLock")
    /\ UNCHANGED kubelet

StopLock(t) == pc[t] = "stopLock" /\ RLocked(t, "stopRpc")

\* docker stops a running container or fails to.
StopRpc(t) ==
    /\ pc[t] = "stopRpc"
    /\ \/ ctr[arg[t]] = "running" /\ ctr' = [ctr EXCEPT ![arg[t]] = "exited"]
       \/ UNCHANGED ctr
    /\ Return(t)
    /\ UNCHANGED <<out, kubelet, saver, agent, faults>>

------------------------------------------------------------------------------
(* RemoveContainer                                                          *)

RemoveContainer(t, c) ==
    /\ ctr[c] # "absent"
    /\ Arrive(t, c, "remLock")
    /\ UNCHANGED kubelet

RemoveLock(t) == pc[t] = "remLock" /\ RLocked(t, "remTail")

\* getTail; Stop kills the tail ...
RemoveTail(t) ==
    /\ pc[t] = "remTail"
    /\ IF arg[t] \in tailMap
       THEN dying' = [dying EXCEPT ![arg[t]] = TRUE] /\ Goto(t, "remStop")
       ELSE UNCHANGED dying /\ Goto(t, "remRpc")
    /\ UNCHANGED <<docker, kubelet, podData, saver, logs, tailMap, tail, pos, watch, faults>>

\* ... and waits until its goroutine has returned.
RemoveStop(t) ==
    /\ pc[t] = "remStop"
    /\ tail[arg[t]] = "dead"
    /\ Goto(t, "remRpc")
    /\ UNCHANGED <<docker, kubelet, podData, saver, agent, faults>>

\* ContainerRemove is not forced: docker refuses it for a running container.
RemoveRpc(t) ==
    /\ pc[t] = "remRpc"
    /\ ctr' = IF ctr[arg[t]] = "running" THEN ctr
              ELSE [ctr EXCEPT ![arg[t]] = "removed"]
    /\ Return(t)
    /\ UNCHANGED <<out, kubelet, saver, agent, faults>>

------------------------------------------------------------------------------
(* The log stream                                                           *)

\* GetContLogPath, under the read lock; a daemon that was restarted has no path.
SavePath(c) ==
    /\ host[c] = "path"
    /\ pending = None
    /\ host' = [host EXCEPT ![c] = IF c \in contLogs THEN "open" ELSE "done"]
    /\ UNCHANGED <<docker, kubelet, podData, threads, saved, agent, faults>>

\* SaveLogs creates the file and calls Logs; either may fail.
SaveLogs(c) ==
    /\ host[c] = "open"
    /\ \/ /\ host' = [host EXCEPT ![c] = "recv"]
          /\ logs' = [logs EXCEPT ![c] = "inspect"]
       \/ host' = [host EXCEPT ![c] = "done"] /\ UNCHANGED logs
    /\ UNCHANGED <<docker, kubelet, podData, threads, saved, tailMap, tail, dying, pos, watch, faults>>

\* ContainerInspect finds the log file of a container that is still there.
LogsInspect(c) ==
    /\ logs[c] = "inspect"
    /\ logs' = [logs EXCEPT ![c] = IF ctr[c] = "removed" THEN "done" ELSE "open"]
    /\ UNCHANGED <<docker, kubelet, podData, threads, saver, tailMap, tail, dying, pos, watch, faults>>

\* A mistake in LogsTail: the tail starts at the end of the file.
LogsTailAtEnd(c) ==
    /\ logs[c] = "open"
    /\ tail' = [tail EXCEPT ![c] = "open"]
    /\ pos' = [pos EXCEPT ![c] = out[c]]
    /\ logs' = [logs EXCEPT ![c] = "register"]
    /\ UNCHANGED <<docker, kubelet, podData, threads, saver, tailMap, dying, watch, faults>>

\* TailFile starts the tail, from the first line.
LogsTail(c) ==
    /\ logs[c] = "open"
    /\ tail' = [tail EXCEPT ![c] = "open"]
    /\ logs' = [logs EXCEPT ![c] = "register"]
    /\ UNCHANGED <<docker, kubelet, podData, threads, saver, tailMap, dying, pos, watch, faults>>

SetTail(c) ==
    /\ logs[c] = "register"
    /\ tailMap' = tailMap \cup {c}
    /\ logs' = [logs EXCEPT ![c] = "loop"]
    /\ UNCHANGED <<docker, kubelet, podData, threads, saver, tail, dying, pos, watch, faults>>

\* What a tail does after a line: only then does it look whether it shall stop.
NextLine(c) == IF dying[c] THEN "dead" ELSE "read"

\* Mistakes in LogsSend: the last line before a stop is sent once more ...
LogsSendTwice(c) ==
    /\ logs[c] = "loop" /\ tail[c] = "send"
    /\ tail' = [tail EXCEPT ![c] = NextLine(c)]
    /\ pos' = [pos EXCEPT ![c] = @ + 1]
    /\ IF Broken(c)
       THEN logs' = [logs EXCEPT ![c] = "done"] /\ UNCHANGED saved
       ELSE /\ saved' = [saved EXCEPT ![c] = @ + IF dying[c] THEN 2 ELSE 1]
            /\ UNCHANGED logs
    /\ UNCHANGED <<docker, kubelet, podData, threads, host, tailMap, dying, watch, faults>>

\* ... or the handler returns once the tail is being stopped.
LogsSendLeaves(c) ==
    /\ logs[c] = "loop" /\ tail[c] = "send"
    /\ IF dying[c]
       THEN logs' = [logs EXCEPT ![c] = "done"] /\ UNCHANGED <<tail, pos, saved>>
       ELSE /\ tail' = [tail EXCEPT ![c] = NextLine(c)]
            /\ pos' = [pos EXCEPT ![c] = @ + 1]
            /\ IF Broken(c)
               THEN logs' = [logs EXCEPT ![c] = "done"] /\ UNCHANGED saved
               ELSE saved' = [saved EXCEPT ![c] = @ + 1] /\ UNCHANGED logs
    /\ UNCHANGED <<docker, kubelet, podData, threads, host, tailMap, dying, watch, faults>>

\* The handler takes a line from the tail and sends it; it returns when the
\* sending fails.
LogsSend(c) ==
    /\ logs[c] = "loop" /\ tail[c] = "send"
    /\ tail' = [tail EXCEPT ![c] = NextLine(c)]
    /\ pos' = [pos EXCEPT ![c] = @ + 1]
    /\ IF Broken(c)
       THEN logs' = [logs EXCEPT ![c] = "done"] /\ UNCHANGED saved
       ELSE saved' = [saved EXCEPT ![c] = @ + 1] /\ UNCHANGED logs
    /\ UNCHANGED <<docker, kubelet, podData, threads, host, tailMap, dying, watch, faults>>

\* A tail that is dead has closed its channel, which ends the loop.
LogsEnd(c) ==
    /\ logs[c] = "loop" /\ tail[c] = "dead"
    /\ logs' = [logs EXCEPT ![c] = "done"]
    /\ UNCHANGED <<docker, kubelet, podData, threads, saver, tailMap, tail, dying, pos, watch, faults>>

\* The end of the stream ends SaveLogs.
SaveEnd(c) ==
    /\ host[c] = "recv" /\ logs[c] = "done"
    /\ host' = [host EXCEPT ![c] = "done"]
    /\ UNCHANGED <<docker, kubelet, podData, threads, saved, agent, faults>>

\* The tail opens the file; docker has deleted it with the container's directory.
TailOpen(c) ==
    /\ tail[c] = "open"
    /\ tail' = [tail EXCEPT ![c] = IF ctr[c] = "removed" THEN "dead" ELSE "read"]
    /\ UNCHANGED <<docker, kubelet, podData, threads, saver, logs, tailMap, dying, pos, watch, faults>>

\* The next line is offered on an unbuffered channel.  At the first end of the file
\* the tail has no watch yet.
TailRead(c) ==
    /\ tail[c] = "read"
    /\ tail' = [tail EXCEPT ![c] = IF pos[c] < out[c] THEN "send"
                                  ELSE IF watch[c] = None THEN "eof" ELSE "wait"]
    /\ UNCHANGED <<docker, kubelet, podData, threads, saver, logs, tailMap, dying, pos, watch, faults>>

\* ChangeEvents sets the watch, which fails once the file is deleted.  It reports
\* changes from now on, and nobody looks at the file again.
ChangeEvents(c) ==
    /\ tail[c] = "eof"
    /\ IF ctr[c] = "removed"
       THEN tail' = [tail EXCEPT ![c] = "dead"] /\ UNCHANGED watch
       ELSE /\ tail' = [tail EXCEPT ![c] = "wait"]
            /\ watch' = [watch EXCEPT ![c] = out[c]]
    /\ UNCHANGED <<docker, kubelet, podData, threads, saver, logs, tailMap, dying, pos, faults>>

\* A mistake in WaitForChanges: the deletion of the file goes unnoticed.
WaitForChangesBlind(c) ==
    /\ tail[c] = "wait"
    /\ \/ /\ watch[c] < out[c]
          /\ tail' = [tail EXCEPT ![c] = NextLine(c)]
          /\ watch' = [watch EXCEPT ![c] = out[c]]
       \/ /\ dying[c]
          /\ tail' = [tail EXCEPT ![c] = "dead"]
          /\ UNCHANGED watch
    /\ UNCHANGED <<docker, kubelet, podData, threads, saver, logs, tailMap, dying, pos, faults>>

\* The tail waits for a line, for the deletion of the file or for being stopped,
\* and takes any of those that are there.
WaitForChanges(c) ==
    /\ tail[c] = "wait"
    /\ \/ /\ watch[c] < out[c]
          /\ tail' = [tail EXCEPT ![c] = NextLine(c)]
          /\ watch' = [watch EXCEPT ![c] = out[c]]
       \/ /\ dying[c] \/ ctr[c] = "removed"
          /\ tail' = [tail EXCEPT ![c] = "dead"]
          /\ UNCHANGED watch
    /\ UNCHANGED <<docker, kubelet, podData, threads, saver, logs, tailMap, dying, pos, faults>>

------------------------------------------------------------------------------
(* The container, the network and the daemon's process                      *)

WriteLine(c) ==
    /\ ctr[c] = "running" /\ out[c] < MaxLines
    /\ out' = [out EXCEPT ![c] = @ + 1]
    /\ UNCHANGED <<ctr, kubelet, podData, threads, saver, agent, faults>>

Exit(c) ==
    /\ ctr[c] = "running"
    /\ ctr' = [ctr EXCEPT ![c] = "exited"]
    /\ UNCHANGED <<out, kubelet, podData, threads, saver, agent, faults>>

\* The connection that carries the stream fails; SaveLogs returns.
Break(c) ==
    /\ faults < MaxFault
    /\ host[c] = "recv"
    /\ host' = [host EXCEPT ![c] = "done"]
    /\ faults' = faults + 1
    /\ UNCHANGED <<docker, kubelet, podData, threads, saved, agent>>

\* The daemon dies and imports the sandbox again: its locks, log paths and
\* streams are gone, the agent's handlers go on.
Restart ==
    /\ faults < MaxFault
    /\ contLogs' = {}
    /\ readers' = {}
    /\ pending' = None
    /\ pc' = [t \in Thread |-> IF pc[t] \in Rpcs THEN pc[t] ELSE "idle"]
    /\ arg' = [t \in Thread |-> IF pc[t] \in Rpcs THEN arg[t] ELSE None]
    /\ host' = [c \in Cont |-> IF host[c] = "none" THEN "none" ELSE "done"]
    /\ faults' = faults + 1
    /\ UNCHANGED <<docker, kubelet, saved, agent>>

------------------------------------------------------------------------------

Init ==
    /\ ctr = [c \in Cont |-> "absent"]
    /\ out = [c \in Cont |-> 0]
    /\ startable = {}
    /\ contLogs = {}
    /\ readers = {}
    /\ pending = None
    /\ pc = [t \in Thread |-> "idle"]
    /\ arg = [t \in Thread |-> None]
    /\ host = [c \in Cont |-> "none"]
    /\ saved = [c \in Cont |-> 0]
    /\ logs = [c \in Cont |-> "none"]
    /\ tailMap = {}
    /\ tail = [c \in Cont |-> "none"]
    /\ dying = [c \in Cont |-> FALSE]
    /\ pos = [c \in Cont |-> 0]
    /\ watch = [c \in Cont |-> None]
    /\ faults = 0

Request(t) ==
    \/ CreateContainer(t)
    \/ \E c \in Cont : StartContainer(t, c) \/ StopContainer(t, c) \/ RemoveContainer(t, c)

HandlerStep(t) ==
    \/ CreateLock(t) \/ CreateRpc(t) \/ CreateLogCall(t) \/ CreateLog(t)
    \/ StartLock(t) \/ StartRpc(t)
    \/ StopLock(t) \/ StopRpc(t)
    \/ RemoveLock(t) \/ RemoveTail(t) \/ RemoveStop(t) \/ RemoveRpc(t)

SaverStep(c) == SavePath(c) \/ SaveLogs(c) \/ SaveEnd(c)

LogsStep(c) ==
    LogsInspect(c) \/ LogsTail(c) \/ SetTail(c) \/ LogsSend(c) \/ LogsEnd(c)

TailStep(c) == TailOpen(c) \/ TailRead(c) \/ ChangeEvents(c) \/ WaitForChanges(c)

Next ==
    \/ \E t \in Thread : Request(t) \/ HandlerStep(t)
    \/ \E c \in Cont : SaverStep(c) \/ LogsStep(c) \/ TailStep(c)
    \/ \E c \in Cont : WriteLine(c) \/ Exit(c) \/ Break(c)
    \/ Restart

\* Docker answers, goroutines are scheduled and mutexes starve nobody; the lock is
\* free only now and then, hence strong fairness for those who take it.
Fairness ==
    /\ \A t \in Thread : SF_vars(HandlerStep(t))
    /\ \A c \in Cont : SF_vars(SaverStep(c)) /\ WF_vars(LogsStep(c)) /\ WF_vars(TailStep(c))

Spec == Init /\ [][Next]_vars /\ Fairness

------------------------------------------------------------------------------
(* What the daemon tells kubelet about a container                          *)

\* docker's inspection of a container: whether it has a finish time, its code.
Finished(s) == s = "exited"
ExitCode(s) == IF s = "failed" THEN 1 ELSE 0

\* ContainerStatus.  Its second case repeats the condition of the first one.
StateOf(s) ==
    IF s = "running" THEN "RUNNING"
    ELSE IF Finished(s) THEN "EXITED"
    ELSE IF Finished(s) /\ ExitCode(s) # 0 THEN "EXITED" ELSE "CREATED"

------------------------------------------------------------------------------
(* Properties                                                               *)

\* Every variable keeps its type.
TypeOK ==
    /\ ctr \in [Cont -> Present \cup {"absent", "removed"}]
    /\ out \in [Cont -> 0 .. MaxLines]
    /\ startable \subseteq Cont
    /\ contLogs \subseteq Cont
    /\ readers \subseteq Thread
    /\ pending \in Thread \cup {None}
    /\ pc \in [Thread -> Pcs]
    /\ arg \in [Thread -> Cont \cup {None}]
    /\ host \in [Cont -> {"none", "path", "open", "recv", "done"}]
    /\ saved \in [Cont -> 0 .. MaxLines]
    /\ logs \in [Cont -> {"none", "inspect", "open", "register", "loop", "done"}]
    /\ tailMap \subseteq Cont
    /\ tail \in [Cont -> {"none", "open", "read", "send", "eof", "wait", "dead"}]
    /\ dying \in [Cont -> BOOLEAN]
    /\ pos \in [Cont -> 0 .. MaxLines]
    /\ watch \in [Cont -> (0 .. MaxLines) \cup {None}]
    /\ faults \in 0 .. MaxFault

\* A tail whose Logs handler has returned before it.
Abandoned(c) == logs[c] = "done" /\ tail[c] \notin {"none", "dead"}

\* A tail that RemoveContainer would wait for has its Logs handler to take its
\* lines for as long as the daemon receives: no order of removal, exit and stream
\* set-up makes the handler leave first (Logs, RemoveContainer).
TailsHaveReader == \A c \in Cont : Abandoned(c) => Broken(c)

\* The state of a container in the terms of ContainerLife: what its status says.
LifeState(s) ==
    CASE s = "absent" -> "none" [] s = "removed" -> "removed" [] OTHER -> StateOf(s)

Life == INSTANCE ContainerLife
        WITH state <- [c \in Cont |-> LifeState(ctr[c])], written <- out

\* The container calls, the docker provider and the log stream implement the
\* container life cycle: overlapping calls, broken streams and restarts of the
\* daemon neither take a container back to an earlier state or remove it while it
\* runs, nor put a line into the saved log twice.
ImplementsLife == Life!Spec

\* Every container call returns, although RemoveContainer waits for a tail that
\* waits for the Logs handler, and CreateContainer for all readers, unless the
\* Logs handler of some tail has left after a broken stream.
CallsFinish ==
    \A t \in Thread : (pc[t] # "idle") ~> (pc[t] = "idle" \/ \E c \in Cont : Abandoned(c))

\* The log stream of a removed container ends on both sides, however the
\* removal interleaves with the start of the stream (Logs, SaveLogs).
StreamsEnd ==
    \A c \in Cont :
        (ctr[c] = "removed") ~> (logs[c] \in {"none", "done"} /\ host[c] \in {"none", "done"})

\* Lines written between the first end of the file and the watch, and none since.
Unnoticed(c) == tail[c] = "wait" /\ pos[c] < out[c] /\ watch[c] = out[c]

\* All that a container wrote, also before the stream was there, is saved once it
\* has exited, unless it is being removed, the stream broke, or its last lines fell
\* into the moment before the tail's first watch (Logs, SaveLogs, waitForChanges).
LinesArrive ==
    \A c \in Cont :
        (ctr[c] = "exited" /\ host[c] \in {"path", "open", "recv"})
            ~> \/ saved[c] = out[c] \/ Unnoticed(c)
               \/ dying[c] \/ ctr[c] = "removed" \/ host[c] = "done"

\* "RemoveContainer removes the container" (api.proto): one that has exited is
\* gone in the end once the agent has been asked to remove it (RemoveContainer).
RemovesContainer ==
    \A t \in Thread, c \in Cont :
        (pc[t] = "remTail" /\ arg[t] = c /\ ctr[c] = "exited") ~> (ctr[c] = "removed")
==============================================================================
