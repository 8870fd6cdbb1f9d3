-------------------------- MODULE ContainersProofs --------------------------
(***************************************************************************)
(* Proofs about Containers, for any number of containers, handlers, lines  *)
(* and faults: every variable keeps its type, and a live tail has its Logs *)
(* handler unless its stream is broken.  Both follow from one inductive    *)
(* invariant, which adds the order in which a stream comes into being.     *)
(***************************************************************************)
EXTENDS Containers, TLAPS

\* A handler that works on a container knows which one; a removal is asked for a
\* container that has been created.
HandlerOK ==
    \A t \in Thread :
        /\ pc[t] \in (Waits \cup Rpcs) \ {"crLock", "crRpc"} => arg[t] \in Cont
        /\ pc[t] \in {"remLock", "remTail", "remStop", "remRpc"} => ctr[arg[t]] # "absent"

\* The goroutines of a stream start one after the other, and none of them before
\* the container; the tail counts no line that the container has not written.
StreamOK ==
    \A c \in Cont :
        /\ ctr[c] \in {"absent", "created"} => host[c] = "none"
        /\ host[c] \in {"none", "path", "open"} => logs[c] = "none"
        /\ logs[c] \in {"none", "inspect", "open"} => tail[c] = "none"
        /\ saved[c] <= pos[c]
        /\ pos[c] <= out[c]
        /\ tail[c] = "send" => pos[c] < out[c]

IInv == TypeOK /\ HandlerOK /\ StreamOK /\ TailsHaveReader

\* The start state has no containers, calls or streams.
LEMMA InitIInv == Init => IInv
  BY BoundAssumption DEF Init, IInv, TypeOK, HandlerOK, StreamOK, TailsHaveReader,
     Abandoned, Broken, Present, Pcs, Waits, Rpcs

\* Every step of the calls, the streams, the container and its environment keeps it.
LEMMA NextIInv == IInv /\ [Next]_vars => IInv'
<1> SUFFICES ASSUME IInv, [Next]_vars PROVE IInv'
    OBVIOUS
<1> USE BoundAssumption, AbsentAssumption
        DEF IInv, TypeOK, HandlerOK, StreamOK, TailsHaveReader, Abandoned, Broken,
            Present, Pcs, Waits, Rpcs, docker, kubelet, podData, threads, saver, agent
<1>1. ASSUME NEW t \in Thread, Request(t) PROVE IInv'
      BY <1>1 DEF Request, CreateContainer, StartContainer, StopContainer, RemoveContainer, Arrive
<1>2. ASSUME NEW t \in Thread, HandlerStep(t) PROVE IInv'
  <2>1. CASE CreateLock(t) \/ StartLock(t) \/ StopLock(t) \/ RemoveLock(t)
        BY <2>1 DEF CreateLock, StartLock, StopLock, RemoveLock, RLocked, Goto
  <2>2. CASE CreateRpc(t)
        BY <2>2 DEF CreateRpc, Return
  <2>3. CASE CreateLogCall(t)
        BY <2>3 DEF CreateLogCall
  <2>4. CASE CreateLog(t)
        BY <2>4 DEF CreateLog
  <2>5. CASE StartRpc(t)
        BY <2>5 DEF StartRpc, Return
  <2>6. CASE StopRpc(t)
        BY <2>6 DEF StopRpc, Return
  <2>7. CASE RemoveTail(t)
    <3>1. dying' \in [Cont -> BOOLEAN]
      <4>1. dying \in [Cont -> BOOLEAN] /\ (dying' = dying \/ dying' = [dying EXCEPT ![arg[t]] = TRUE])
            BY <2>7 DEF RemoveTail
      <4> QED BY <4>1
    <3>2. pc' \in [Thread -> Pcs] /\ HandlerOK'
          BY <2>7 DEF RemoveTail, Goto
    <3>3. UNCHANGED <<docker, kubelet, podData, arg, saver, logs, tailMap, tail, pos, watch, faults>>
          BY <2>7 DEF RemoveTail, Goto
    <3> QED BY <3>1, <3>2, <3>3
  <2>8. CASE RemoveStop(t)
        BY <2>8 DEF RemoveStop, Goto
  <2>9. CASE RemoveRpc(t)
        BY <2>9 DEF RemoveRpc, Return
  <2> QED BY <1>2, <2>1, <2>2, <2>3, <2>4, <2>5, <2>6, <2>7, <2>8, <2>9 DEF HandlerStep
<1>3. ASSUME NEW c \in Cont, SaverStep(c) PROVE IInv'
      BY <1>3 DEF SaverStep, SavePath, SaveLogs, SaveEnd
<1>4. ASSUME NEW c \in Cont, LogsStep(c) PROVE IInv'
  <2>1. CASE LogsInspect(c) \/ LogsTail(c) \/ SetTail(c) \/ LogsEnd(c)
        BY <2>1 DEF LogsInspect, LogsTail, SetTail, LogsEnd
  <2>2. CASE LogsSend(c)
        BY <2>2 DEF LogsSend, NextLine
  <2> QED BY <1>4, <2>1, <2>2 DEF LogsStep
<1>5. ASSUME NEW c \in Cont, TailStep(c) PROVE IInv'
  <2>1. CASE TailOpen(c) \/ TailRead(c)
        BY <2>1 DEF TailOpen, TailRead
  <2>2. CASE ChangeEvents(c)
        BY <2>2 DEF ChangeEvents
  <2>3. CASE WaitForChanges(c)
        BY <2>3 DEF WaitForChanges, NextLine
  <2> QED BY <1>5, <2>1, <2>2, <2>3 DEF TailStep
<1>6. ASSUME NEW c \in Cont, WriteLine(c) \/ Exit(c) \/ Break(c) PROVE IInv'
      BY <1>6 DEF WriteLine, Exit, Break
<1>7. CASE Restart
      BY <1>7 DEF Restart
<1>8. CASE UNCHANGED vars
      BY <1>8 DEF vars
<1> QED BY <1>1, <1>2, <1>3, <1>4, <1>5, <1>6, <1>7, <1>8 DEF Next

\* The inductive invariant holds in every behaviour of the containers and streams.
THEOREM Inductive == Spec => []IInv
<1>1. QED BY InitIInv, NextIInv, PTL DEF Spec

\* The containers, the calls and the streams keep their types.
THEOREM TypeCorrect == Spec => []TypeOK
<1>1. IInv => TypeOK
      BY DEF IInv
<1> QED BY <1>1, Inductive, PTL

\* A tail that RemoveContainer may have to wait for is abandoned by its Logs
\* handler only after the daemon's end of the stream has gone.
THEOREM TailsKeepReader == Spec => []TailsHaveReader
<1>1. IInv => TailsHaveReader
      BY DEF IInv
<1> QED BY <1>1, Inductive, PTL

\* A step that leaves containers and lines alone is a stutter of the life cycle.
LEMMA QuietStep ==
    ASSUME UNCHANGED <<ctr, out, saved>>
    PROVE  UNCHANGED Life!lifeVars
  BY DEF Life!lifeVars

\* A change of one container's state is the step of the life cycle that it maps to.
LEMMA MoveStep ==
    ASSUME TypeOK, NEW c \in Cont, NEW s,
           ctr' = [ctr EXCEPT ![c] = s], UNCHANGED <<out, saved>>,
           \/ ctr[c] = "absent" /\ s = "created"
           \/ ctr[c] = "created" /\ s \in {"running", "failed"}
           \/ ctr[c] = "running" /\ s = "exited"
           \/ ctr[c] \in {"created", "failed", "exited", "removed"} /\ s = "removed"
    PROVE  [Life!Next]_(Life!lifeVars)
<1> DEFINE was == [d \in Cont |-> LifeState(ctr[d])]
           now == [d \in Cont |-> LifeState(ctr'[d])]
<1>1. now = [was EXCEPT ![c] = LifeState(s)] /\ was[c] = LifeState(ctr[c])
  BY DEF TypeOK
<1>2. CASE LifeState(s) = LifeState(ctr[c])
  <2>1. now = was
    BY <1>1, <1>2
  <2> QED
    BY <2>1 DEF Life!lifeVars
<1>3. CASE LifeState(s) # LifeState(ctr[c])
  <2>1. \/ was[c] = "none" /\ LifeState(s) = "CREATED"
        \/ was[c] = "CREATED" /\ LifeState(s) = "RUNNING"
        \/ was[c] = "RUNNING" /\ LifeState(s) = "EXITED"
        \/ was[c] \in {"CREATED", "EXITED"} /\ LifeState(s) = "removed"
    BY <1>1, <1>3 DEF LifeState, StateOf, Finished
  <2>2. Life!Create(c) \/ Life!Start(c) \/ Life!Finish(c) \/ Life!Remove(c)
    BY <1>1, <2>1 DEF Life!Create, Life!Start, Life!Finish, Life!Remove, Life!Move
  <2> QED
    BY <2>2 DEF Life!Next
<1> QED
  BY <1>2, <1>3

\* Every step of the calls, the docker provider and the stream maps to a step of
\* the life cycle or to none.
LEMMA LifeStep == IInv /\ [Next]_vars => [Life!Next]_(Life!lifeVars)
<1> SUFFICES ASSUME IInv, [Next]_vars PROVE [Life!Next]_(Life!lifeVars)
  OBVIOUS
<1> USE DEF docker, kubelet, podData, threads, saver, agent
<1>0. TypeOK /\ HandlerOK /\ StreamOK
  BY DEF IInv
<1>1. ASSUME NEW t \in Thread, Request(t) PROVE UNCHANGED <<ctr, out, saved>>
  BY <1>1 DEF Request, CreateContainer, StartContainer, StopContainer, RemoveContainer, Arrive
<1>2. ASSUME NEW t \in Thread, HandlerStep(t) PROVE [Life!Next]_(Life!lifeVars)
  <2>1. CASE CreateRpc(t)
    <3>1. UNCHANGED <<out, saved>>
      BY <2>1 DEF CreateRpc
    <3>2. PICK c \in Cont \cup {None} :
             /\ c # None => ctr[c] = "absent"
             /\ ctr' = [d \in Cont |-> IF d = c THEN "created" ELSE ctr[d]]
      BY <2>1 DEF CreateRpc
    <3>3. CASE c = None
      <4>1. ctr' = ctr
        BY <1>0, <3>2, <3>3, AbsentAssumption DEF TypeOK
      <4> QED
        BY <3>1, <4>1, QuietStep
    <3>4. CASE c \in Cont
      <4>1. ctr[c] = "absent" /\ ctr' = [ctr EXCEPT ![c] = "created"]
        BY <1>0, <3>2, <3>4, AbsentAssumption DEF TypeOK
      <4> QED
        BY <1>0, <3>1, <3>4, <4>1, MoveStep
    <3> QED
      BY <3>3, <3>4
  <2>2. CASE StartRpc(t)
    <3>1. UNCHANGED <<out, saved>> /\ arg[t] \in Cont
      BY <1>0, <2>2 DEF StartRpc, HandlerOK, Waits, Rpcs
    <3>2. \/ ctr' = ctr
          \/ ctr[arg[t]] = "created" /\ ctr' = [ctr EXCEPT ![arg[t]] = "running"]
          \/ ctr[arg[t]] = "created" /\ ctr' = [ctr EXCEPT ![arg[t]] = "failed"]
      BY <2>2 DEF StartRpc
    <3> QED
      BY <1>0, <3>1, <3>2, QuietStep, MoveStep
  <2>3. CASE StopRpc(t)
    <3>1. UNCHANGED <<out, saved>> /\ arg[t] \in Cont
      BY <1>0, <2>3 DEF StopRpc, HandlerOK, Waits, Rpcs
    <3>2. \/ ctr' = ctr
          \/ ctr[arg[t]] = "running" /\ ctr' = [ctr EXCEPT ![arg[t]] = "exited"]
      BY <2>3 DEF StopRpc
    <3> QED
      BY <1>0, <3>1, <3>2, QuietStep, MoveStep
  <2>4. CASE RemoveRpc(t)
    <3>1. UNCHANGED <<out, saved>> /\ arg[t] \in Cont /\ ctr[arg[t]] # "absent"
      BY <1>0, <2>4 DEF RemoveRpc, HandlerOK, Waits, Rpcs
    <3>2. \/ ctr' = ctr
          \/ /\ ctr[arg[t]] \in {"created", "failed", "exited", "removed"}
             /\ ctr' = [ctr EXCEPT ![arg[t]] = "removed"]
      BY <1>0, <2>4, <3>1 DEF RemoveRpc, TypeOK, Present
    <3> QED
      BY <1>0, <3>1, <3>2, QuietStep, MoveStep
  <2>5. CASE \/ CreateLock(t) \/ CreateLogCall(t) \/ CreateLog(t) \/ StartLock(t)
             \/ StopLock(t) \/ RemoveLock(t) \/ RemoveTail(t) \/ RemoveStop(t)
    <3>1. UNCHANGED <<ctr, out, saved>>
      BY <2>5 DEF CreateLock, CreateLogCall, CreateLog, StartLock, StopLock, RemoveLock,
                  RemoveTail, RemoveStop, RLocked
    <3> QED
      BY <3>1, QuietStep
  <2> QED
    BY <1>2, <2>1, <2>2, <2>3, <2>4, <2>5 DEF HandlerStep
<1>3. ASSUME NEW c \in Cont, LogsSend(c) PROVE [Life!Next]_(Life!lifeVars)
  <2>1. UNCHANGED <<ctr, out>> /\ saved[c] < out[c]
    BY <1>0, <1>3 DEF LogsSend, StreamOK, TypeOK
  <2>2. saved' = saved \/ saved' = [saved EXCEPT ![c] = @ + 1]
    BY <1>3 DEF LogsSend
  <2>3. CASE saved' = [saved EXCEPT ![c] = @ + 1]
    <3>1. Life!Save(c)
      BY <2>1, <2>3 DEF Life!Save
    <3> QED
      BY <3>1 DEF Life!Next
  <2> QED
    BY <2>1, <2>2, <2>3, QuietStep
<1>4. ASSUME NEW c \in Cont, WriteLine(c) PROVE [Life!Next]_(Life!lifeVars)
  <2>1. /\ [d \in Cont |-> LifeState(ctr[d])][c] = "RUNNING"
        /\ out' = [out EXCEPT ![c] = @ + 1] /\ UNCHANGED <<ctr, saved>>
    BY <1>4 DEF WriteLine, LifeState, StateOf
  <2>2. Life!Write(c)
    BY <2>1 DEF Life!Write
  <2> QED
    BY <2>2 DEF Life!Next
<1>5. ASSUME NEW c \in Cont, Exit(c) PROVE [Life!Next]_(Life!lifeVars)
  <2>1. /\ ctr[c] = "running" /\ ctr' = [ctr EXCEPT ![c] = "exited"]
        /\ UNCHANGED <<out, saved>>
    BY <1>5 DEF Exit
  <2> QED
    BY <1>0, <2>1, MoveStep
<1>6. ASSUME NEW c \in Cont,
             \/ SaverStep(c) \/ TailStep(c) \/ Break(c)
             \/ LogsInspect(c) \/ LogsTail(c) \/ SetTail(c) \/ LogsEnd(c)
      PROVE  UNCHANGED <<ctr, out, saved>>
  BY <1>6 DEF SaverStep, SavePath, SaveLogs, SaveEnd, TailStep, TailOpen, TailRead, ChangeEvents, WaitForChanges, Break,
              LogsInspect, LogsTail, SetTail, LogsEnd
<1>7. ASSUME Restart \/ UNCHANGED vars PROVE UNCHANGED <<ctr, out, saved>>
  BY <1>7 DEF Restart, vars
<1> QED
  BY <1>1, <1>2, <1>3, <1>4, <1>5, <1>6, <1>7, QuietStep DEF Next, LogsStep

\* The daemon's container calls, the agent's docker provider and the log stream
\* implement the container life cycle, with any number of calls and faults.
THEOREM LifeRefinement == Spec => ImplementsLife
<1>1. Init => Life!Init
  BY DEF Init, Life!Init, LifeState
<1> QED
  BY <1>1, LifeStep, Inductive, PTL DEF Spec, ImplementsLife, Life!Spec
==============================================================================
