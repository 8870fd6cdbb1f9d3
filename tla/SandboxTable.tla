---------------------------- MODULE SandboxTable ----------------------------
(***************************************************************************)
(* What the daemon promises kubelet about its table of sandboxes, without  *)
(* handlers, VMs, addresses or faults: a sandbox of a pod that kubelet     *)
(* runs is entered where there is none, stays until it was stopped, and    *)
(* never becomes ready again while the daemon runs.  Those of deleted pods *)
(* may be replaced and forgotten.  The end of the process loses the table, *)
(* and its restart enters any sandboxes as ready.                          *)
(***************************************************************************)
CONSTANTS
    Id,         \* ids of sandboxes
    Pod,        \* pods
    None        \* the absent value

VARIABLES
    on,         \* the daemon is running
    wanted,     \* the pods that kubelet runs
    table       \* the sandboxes: pod, and whether it is ready

tableVars == <<on, wanted, table>>

Entry == [pod : Pod, ready : BOOLEAN]

\* An id whose entry nobody misses.
Vacant(i) == table[i] = None \/ table[i].pod \notin wanted

Enter(i, p) ==
    /\ on /\ Vacant(i)
    /\ table' = [table EXCEPT ![i] = [pod |-> p, ready |-> TRUE]]
    /\ UNCHANGED <<on, wanted>>

Stop(i) ==
    /\ on /\ table[i] # None
    /\ table' = [table EXCEPT ![i] = [pod |-> table[i].pod, ready |-> FALSE]]
    /\ UNCHANGED <<on, wanted>>

Remove(i) ==
    /\ on /\ (Vacant(i) \/ ~table[i].ready)
    /\ table' = [table EXCEPT ![i] = None]
    /\ UNCHANGED <<on, wanted>>

DeletePod(p) ==
    /\ wanted' = wanted \ {p}
    /\ UNCHANGED <<on, table>>

Stops ==
    /\ on' = FALSE
    /\ table' = [i \in Id |-> None]
    /\ UNCHANGED wanted

\* The sandboxes that are found again are ready, whatever they were.
Starts ==
    /\ ~on /\ on' = TRUE
    /\ table' \in [Id -> {d \in Entry : d.ready} \cup {None}]
    /\ UNCHANGED wanted

Init ==
    /\ on = TRUE
    /\ wanted = Pod
    /\ table = [i \in Id |-> None]

Next ==
    \/ \E i \in Id : Stop(i) \/ Remove(i) \/ \E p \in Pod : Enter(i, p)
    \/ \E p \in Pod : DeletePod(p)
    \/ Stops \/ Starts

Spec == Init /\ [][Next]_tableVars
==============================================================================
