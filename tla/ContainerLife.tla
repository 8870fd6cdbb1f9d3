---------------------------- MODULE ContainerLife ----------------------------
(***************************************************************************)
(* What the runtime promises kubelet about a container, without handlers,  *)
(* locks, streams or faults: it is created once, runs once, exits and is   *)
(* removed, never backwards and never removed while it runs; and the copy  *)
(* of its log that kubelet reads is at any time a beginning of the log,    *)
(* without a line that was not written or one that is there twice.         *)
(***************************************************************************)
EXTENDS Naturals

CONSTANT Cont   \* containers

VARIABLES
    state,      \* the state kubelet is told, and "none" and "removed"
    written,    \* lines the container has written
    saved       \* lines of them in the copy

lifeVars == <<state, written, saved>>

Move(c, from, to) ==
    /\ state[c] \in from
    /\ state' = [state EXCEPT ![c] = to]
    /\ UNCHANGED <<written, saved>>

Create(c) == Move(c, {"none"}, "CREATED")
Start(c)  == Move(c, {"CREATED"}, "RUNNING")
Finish(c) == Move(c, {"RUNNING"}, "EXITED")
Remove(c) == Move(c, {"CREATED", "EXITED"}, "removed")

Write(c) ==
    /\ state[c] = "RUNNING"
    /\ written' = [written EXCEPT ![c] = @ + 1]
    /\ UNCHANGED <<state, saved>>

Save(c) ==
    /\ saved[c] < written[c]
    /\ saved' = [saved EXCEPT ![c] = @ + 1]
    /\ UNCHANGED <<state, written>>

Init ==
    /\ state = [c \in Cont |-> "none"]
    /\ written = [c \in Cont |-> 0]
    /\ saved = [c \in Cont |-> 0]

Next ==
    \E c \in Cont :
        Create(c) \/ Start(c) \/ Finish(c) \/ Remove(c) \/ Write(c) \/ Save(c)

Spec == Init /\ [][Next]_lifeVars
==============================================================================
