---------------------------- MODULE UnitsProofs ----------------------------
(***************************************************************************)
(* The safety theorems of Units, for any number of names, images, handlers *)
(* and attempts.                                                           *)
(***************************************************************************)
EXTENDS Units, TLAPS

\* What a creation and a change of state do to the table.
LEMMA TableTypes ==
    ASSUME TypeOK
    PROVE  /\ \A c \in Call : c.op = "create" /\ NewContainer(c) =>
                /\ contMap' \in [Name -> Container \cup {None}]
                /\ startable' \subseteq Name
           /\ \A n \in Name, s \in KubeState : Has(n) /\ SetState(n, s) =>
                contMap' \in [Name -> Container \cup {None}]
<1>1. ASSUME NEW c \in Call, c.op = "create", NewContainer(c)
      PROVE  contMap' \in [Name -> Container \cup {None}] /\ startable' \subseteq Name
  <2>1. c.name \in Name /\ c.image \in Image /\ c.attempt \in 1 .. MaxAttempt
    BY <1>1 DEF Call
  <2> QED
    BY <1>1, <2>1 DEF TypeOK, NewContainer, Container, KubeState
<1>2. ASSUME NEW n \in Name, NEW s \in KubeState, Has(n), SetState(n, s)
      PROVE  contMap' \in [Name -> Container \cup {None}]
  <2>1. contMap[n] \in Container
    BY <1>2 DEF TypeOK, Has
  <2>2. [contMap[n] EXCEPT !.state = s] \in Container
    BY <2>1 DEF Container
  <2> QED
    BY <1>2, <2>2 DEF TypeOK, SetState
<1> QED
  BY <1>1, <1>2

\* A creation names an attempt and an image.
LEMMA CreateCalls ==
    ASSUME TypeOK, NEW h \in Handler, Asked(h, "create")
    PROVE  /\ call[h] \in Call /\ call[h].op = "create" /\ call[h].name \in Name
           /\ call[h].image \in Image /\ call[h].attempt \in 1 .. MaxAttempt
  BY DEF TypeOK, Asked, Call

\* Every call names a container.
LEMMA Named ==
    ASSUME TypeOK, NEW h \in Handler, call[h] # None
    PROVE  call[h] \in Call /\ call[h].name \in Name
  BY DEF TypeOK, Call

\* What the end of a main process does: no process is new, but those that were left
\* over may be of the attempt and the binary of the main process.
LEMMA MainEndsFacts ==
    ASSUME TypeOK, NEW n \in Name, MainEnds(n)
    PROVE  /\ unit' \in [Name -> Process \cup {None}] /\ left' \in [Name -> SUBSET Process]
           /\ unit'[n] = None
           /\ \A m \in Name : m # n => unit'[m] = unit[m] /\ left'[m] = left[m]
           /\ left'[n] \subseteq left[n] \cup ({unit[n]} \ {None})
<1>1. unit' = [unit EXCEPT ![n] = None]
  BY DEF MainEnds
<1>2. CASE left' = left
  BY <1>1, <1>2 DEF TypeOK
<1>3. CASE unit[n] # None /\ left' = [left EXCEPT ![n] = @ \cup {unit[n]}]
  BY <1>1, <1>3 DEF TypeOK
<1> QED
  BY <1>2, <1>3 DEF MainEnds

IndInv == TypeOK /\ FakeHasNoUnits /\ ExitedHasNoMain /\ AttemptsNotMixed

\* The initial states satisfy the invariant.
LEMMA IndInit == Init => IndInv
  BY BoundAssumption, AbsentAssumption
  DEF Init, IndInv, TypeOK, FakeHasNoUnits, ExitedHasNoMain, AttemptsNotMixed, Has, Kind, Running, Exited

\* Requests, failures and the end of the agent touch no unit and make no entry.
LEMMA TypeStep == ASSUME TypeOK, [Next]_vars PROVE TypeOK'
<1> USE DEF systemd, kubelet
<1>1. ASSUME NEW h \in Handler, NEW n \in Name, NEW i \in Image, CallCreate(h, n, i)
      PROVE  TypeOK'
  <2>1. attempt' \in [Name -> 0 .. MaxAttempt] /\ attempt'[n] \in 1 .. MaxAttempt
    BY <1>1, BoundAssumption DEF TypeOK, CallCreate
  <2>2. [op |-> "create", name |-> n, attempt |-> attempt'[n], image |-> i] \in Call
    BY <2>1 DEF Call
  <2> QED
    BY <1>1, <2>1, <2>2 DEF TypeOK, CallCreate, Request
<1>2. ASSUME NEW h \in Handler, NEW n \in Name,
             CallStart(h, n) \/ CallStop(h, n) \/ CallRemove(h, n)
      PROVE  TypeOK'
  <2>1. \A op \in {"start", "stop", "remove"} : [op |-> op, name |-> n] \in Call
    BY DEF Call
  <2> QED
    BY <1>2, <2>1 DEF TypeOK, CallStart, CallStop, CallRemove, Request
<1>3. ASSUME NEW h \in Handler, CreateFake(h) PROVE TypeOK'
  BY <1>3, CreateCalls, TableTypes DEF CreateFake, Answer, TypeOK
<1>4. ASSUME NEW h \in Handler, CreateFails(h) \/ CallFails(h) PROVE TypeOK'
  BY <1>4 DEF CreateFails, CallFails, Answer, TypeOK
<1>5. ASSUME NEW h \in Handler, CreateReloadFails(h) PROVE TypeOK'
  <2>1. disk' \in [Name -> Image \cup {None}]
    BY <1>5, CreateCalls DEF CreateReloadFails, WriteUnit, TypeOK
  <2> QED
    BY <1>5, <2>1 DEF CreateReloadFails, Answer, TypeOK
<1>6. ASSUME NEW h \in Handler, CreatePanics(h) PROVE TypeOK'
  <2>1. disk' \in [Name -> Image \cup {None}]
    BY <1>6, CreateCalls DEF CreatePanics, WriteUnit, TypeOK
  <2> QED
    BY <1>6, <2>1 DEF CreatePanics, Die, TypeOK
<1>7. ASSUME NEW h \in Handler, CreateSystemd(h) PROVE TypeOK'
  <2>1. disk' \in [Name -> Image \cup {None}]
    BY <1>7, CreateCalls DEF CreateSystemd, WriteUnit, TypeOK
  <2> QED
    BY <1>7, <2>1, CreateCalls, TableTypes DEF CreateSystemd, Answer, TypeOK
<1>8. ASSUME NEW h \in Handler, StartContainer(h) PROVE TypeOK'
  <2> DEFINE n == call[h].name
  <2>1. n \in Name /\ Has(n) /\ contMap[n] \in Container
    BY <1>8, Named DEF StartContainer, Asked, TypeOK, Has
  <2>2. kind = "systemd" => [attempt |-> contMap[n].attempt, image |-> loaded[n]] \in Process
    BY <1>8, <2>1 DEF StartContainer, TypeOK, Container, Process
  <2>3. unit' \in [Name -> Process \cup {None}]
    BY <1>8, <2>1, <2>2 DEF StartContainer, TypeOK
  <2>4. contMap' \in [Name -> Container \cup {None}]
    BY <1>8, <2>1, TableTypes DEF StartContainer, KubeState
  <2> QED
    BY <1>8, <2>3, <2>4 DEF StartContainer, Answer, TypeOK
<1>9. ASSUME NEW h \in Handler, StopContainer(h) PROVE TypeOK'
  <2>1. call[h].name \in Name /\ Has(call[h].name)
    BY <1>9, Named DEF StopContainer, Asked
  <2>2. contMap' \in [Name -> Container \cup {None}]
    BY <1>9, <2>1, TableTypes DEF StopContainer, KubeState
  <2> QED
    BY <1>9, <2>1, <2>2, MainEndsFacts DEF StopContainer, Answer, TypeOK
<1>10. ASSUME NEW h \in Handler, RemoveContainer(h) PROVE TypeOK'
  BY <1>10 DEF RemoveContainer, Answer, TypeOK
<1>11. CASE ListWithoutState \/ Kill
  BY <1>11 DEF ListWithoutState, Kill, Die, TypeOK
<1>12. CASE Restart
  BY <1>12, BoundAssumption DEF Restart, TypeOK
<1>13. ASSUME NEW n \in Name, Exit(n) \/ \E p \in left[n] : ChildEnds(n, p) PROVE TypeOK'
  BY <1>13, MainEndsFacts DEF Exit, ChildEnds, TypeOK
<1>14. CASE UNCHANGED vars
  BY <1>14 DEF vars, TypeOK
<1> QED
  BY <1>1, <1>2, <1>3, <1>4, <1>5, <1>6, <1>7, <1>8, <1>9, <1>10, <1>11, <1>12, <1>13, <1>14
  DEF Next, Execute

\* When a main process ends, what remains is still of the container that it was of, and
\* there is nothing to leave with the fake provider.
LEMMA MainEndsKeeps ==
    ASSUME IndInv, NEW n \in Name, MainEnds(n)
    PROVE  /\ kind = "fake" => \A m \in Name : Running(m)' = {}
           /\ unit'[n] = None /\ \A m \in Name : m # n => unit'[m] = unit[m]
           /\ \A m \in Name : contMap[m] # None =>
                \A p \in Running(m)' :
                    p.image = contMap[m].image => p.attempt = contMap[m].attempt
<1>1. TypeOK /\ FakeHasNoUnits /\ AttemptsNotMixed
  BY DEF IndInv
<1>2. kind = "fake" => \A m \in Name : unit[m] = None /\ left[m] = {}
  BY <1>1, AbsentAssumption DEF FakeHasNoUnits, Running, TypeOK
<1>3. ASSUME kind = "fake", NEW m \in Name PROVE Running(m)' = {}
  BY <1>1, <1>2, <1>3, MainEndsFacts DEF Running
<1>4. ASSUME NEW m \in Name, contMap[m] # None, NEW p \in Running(m)', p.image = contMap[m].image
      PROVE  p.attempt = contMap[m].attempt
  <2>1. contMap[m].image \in Image
    BY <1>1, <1>4 DEF TypeOK, Container
  <2>2. CASE m # n
    BY <1>1, <1>4, <2>2, MainEndsFacts DEF Running, AttemptsNotMixed, Has
  <2>3. CASE m = n
    <3>1. p \in left'[n]
      BY <1>1, <1>4, <2>3, MainEndsFacts DEF Running
    <3>2. p \in left[n] \/ (unit[n] # None /\ p = unit[n])
      BY <1>1, <3>1, MainEndsFacts
    <3> QED
      BY <1>1, <1>4, <2>1, <2>3, <3>2 DEF Running, AttemptsNotMixed, Has
  <2> QED
    BY <2>2, <2>3
<1> QED
  BY <1>1, <1>3, <1>4, MainEndsFacts

\* Every step keeps the invariant: only NewContainer and StartContainer bring a
\* process and an entry together.
LEMMA IndStep == IndInv /\ [Next]_vars => IndInv'
<1> SUFFICES ASSUME IndInv, [Next]_vars PROVE IndInv'
  OBVIOUS
<1>0. TypeOK /\ TypeOK'
  BY TypeStep DEF IndInv
<1> USE DEF systemd, kubelet, FakeHasNoUnits, ExitedHasNoMain, AttemptsNotMixed, Has,
            Running, Exited
<1>1. ASSUME UNCHANGED <<kind, contMap, unit, left>> PROVE IndInv'
  BY <1>0, <1>1 DEF IndInv
<1>2. ASSUME Die, UNCHANGED <<unit, left>> PROVE IndInv'
  BY <1>0, <1>2 DEF IndInv, Die
<1>3. ASSUME NEW h \in Handler, CreateFake(h) PROVE IndInv'
  <2>1. call[h].name \in Name
    BY <1>0, <1>3, CreateCalls DEF CreateFake
  <2> QED
    BY <1>0, <1>3, <2>1 DEF IndInv, CreateFake, NewContainer, TypeOK
<1>4. ASSUME NEW h \in Handler, CreateSystemd(h) PROVE IndInv'
  <2>1. call[h].name \in Name
    BY <1>0, <1>4, CreateCalls DEF CreateSystemd
  <2> QED
    BY <1>0, <1>4, <2>1, AbsentAssumption DEF IndInv, CreateSystemd, NewContainer, Busy, TypeOK
<1>5. ASSUME NEW h \in Handler, StartContainer(h) PROVE IndInv'
  <2> DEFINE n == call[h].name
  <2>1. n \in Name /\ contMap[n] \in Container /\ contMap[n] # None
    BY <1>0, <1>5, Named DEF StartContainer, Asked, TypeOK
  <2>2. contMap' = [contMap EXCEPT ![n] = [contMap[n] EXCEPT !.state = "RUNNING"]]
    BY <1>5 DEF StartContainer, SetState
  <2>3. /\ contMap'[n].state = "RUNNING" /\ contMap'[n].attempt = contMap[n].attempt
        /\ contMap'[n].image = contMap[n].image
        /\ \A m \in Name : m # n => contMap'[m] = contMap[m] /\ unit'[m] = unit[m]
    BY <1>0, <1>5, <2>1, <2>2 DEF TypeOK, StartContainer, Container
  <2>4. unit'[n] = unit[n] \/ unit'[n].attempt = contMap[n].attempt
    <3>1. CASE kind = "systemd" /\ unit[n] = None
      <4>1. unit' = [unit EXCEPT ![n] = [attempt |-> contMap[n].attempt, image |-> loaded[n]]]
        BY <1>5, <3>1 DEF StartContainer
      <4> QED
        BY <1>0, <2>1, <4>1 DEF TypeOK
    <3>2. CASE ~(kind = "systemd" /\ unit[n] = None)
      BY <1>5, <3>2 DEF StartContainer
    <3> QED
      BY <3>1, <3>2
  <2>5. kind = "fake" => unit' = unit
    BY <1>0, <1>5 DEF StartContainer
  <2>6. kind' = kind /\ left' = left
    BY <1>5 DEF StartContainer
  <2> QED
    BY <1>0, <2>1, <2>3, <2>4, <2>5, <2>6 DEF IndInv
<1>6. ASSUME NEW h \in Handler, StopContainer(h) PROVE IndInv'
  <2> DEFINE n == call[h].name
  <2>1. n \in Name /\ contMap[n] \in Container
    BY <1>0, <1>6, Named DEF StopContainer, Asked, TypeOK
  <2>2. contMap' = [contMap EXCEPT ![n] = [contMap[n] EXCEPT !.state = "EXITED"]]
        /\ MainEnds(n) /\ kind' = kind /\ contMap[n] # None
    BY <1>6 DEF StopContainer, SetState
  <2>3. /\ \A m \in Name : m # n => contMap'[m] = contMap[m]
        /\ contMap'[n].image = contMap[n].image /\ contMap'[n].attempt = contMap[n].attempt
    BY <1>0, <2>1, <2>2 DEF TypeOK, Container
  <2> QED
    BY <1>0, <2>1, <2>2, <2>3, MainEndsKeeps DEF IndInv
<1>7. ASSUME NEW h \in Handler, RemoveContainer(h) PROVE IndInv'
  BY <1>0, <1>7 DEF IndInv, RemoveContainer, TypeOK
<1>8. ASSUME NEW n \in Name, Exit(n) \/ \E p \in left[n] : ChildEnds(n, p) PROVE IndInv'
  <2>1. CASE Exit(n)
    BY <1>0, <1>8, <2>1, MainEndsKeeps DEF IndInv, Exit
  <2>2. ASSUME NEW p \in left[n], ChildEnds(n, p) PROVE IndInv'
    BY <1>0, <2>2 DEF IndInv, ChildEnds, TypeOK
  <2> QED
    BY <1>8, <2>1, <2>2
<1>9. ASSUME NEW h \in Handler,
             CreateFails(h) \/ CreateReloadFails(h) \/ CallFails(h)
      PROVE  IndInv'
  BY <1>1, <1>9 DEF CreateFails, CreateReloadFails, CallFails
<1>10. ASSUME NEW h \in Handler, NEW n \in Name,
              \/ \E i \in Image : CallCreate(h, n, i)
              \/ CallStart(h, n) \/ CallStop(h, n) \/ CallRemove(h, n)
       PROVE  IndInv'
  BY <1>1, <1>10 DEF CallCreate, CallStart, CallStop, CallRemove, Request
<1>11. ASSUME NEW h \in Handler, CreatePanics(h) PROVE IndInv'
  BY <1>2, <1>11 DEF CreatePanics
<1>12. CASE ListWithoutState \/ Kill
  BY <1>2, <1>12 DEF ListWithoutState, Kill
<1>13. CASE Restart \/ UNCHANGED vars
  BY <1>1, <1>13 DEF Restart, vars
<1> QED
  BY <1>3, <1>4, <1>5, <1>6, <1>7, <1>8, <1>9, <1>10, <1>11, <1>12, <1>13
  DEF Next, Execute

\* The state of the agent's table, of systemd and of the calls is well formed.
THEOREM TypeCorrect == Spec => []TypeOK
  BY IndInit, IndStep, PTL DEF Spec, IndInv

\* An exited container has no main process, in whatever order calls for one id arrive
\* (StartContainer, StopContainer, CreateContainer of the systemd provider).
THEOREM ExitedMainDown == Spec => []ExitedHasNoMain
  BY IndInit, IndStep, PTL DEF Spec, IndInv

\* No process that an earlier attempt has left of an image's binary, main process or
\* child, passes for a container of the same image (CreateContainer of the systemd
\* provider and the kernel).
THEOREM NotMixed == Spec => []AttemptsNotMixed
  BY IndInit, IndStep, PTL DEF Spec, IndInv
============================================================================
