--------------------------- MODULE SandboxHistory ---------------------------
(***************************************************************************)
(* Sandbox together with what the daemon has answered: the sandboxes that  *)
(* RunPodSandbox has returned and RemovePodSandbox has not yet removed.    *)
(* The history follows the steps of Sandbox and never constrains them; it  *)
(* is what the statements of the CRI are about.                            *)
(***************************************************************************)
EXTENDS Sandbox

VARIABLE returned   \* PodData whose id RunPodSandbox has returned

histVars == <<vars, returned>>

\* RunPodSandbox returns the id of the PodData it has entered.
Return(t) ==
    /\ InsertSandbox(t)
    /\ returned' = returned \cup {ref[t]}

\* RemovePodSandbox has removed its PodData.
Removed(t) ==
    /\ RemoveDelete(t)
    /\ returned' = returned \ {ref[t]}

\* A new PodData has not been returned, and after a crash none has.
NewReference(t) ==
    /\ RunPodSandbox(t)
    /\ up'
    /\ returned' = returned \ {ref'[t]}

Forget ==
    /\ Next /\ ~up'
    /\ returned' = {}

Other(t) ==
    /\ Request(t) \/ Step(t)
    /\ ~RunPodSandbox(t) /\ ~InsertSandbox(t) /\ ~RemoveDelete(t)
    /\ up'
    /\ UNCHANGED returned

HistInit == Init /\ returned = {}

HistNext ==
    \/ \E t \in Thread : Return(t) \/ Removed(t) \/ NewReference(t) \/ Other(t)
    \/ Forget
    \/ (Restart \/ \E ip \in IP : Terminated(ip)) /\ UNCHANGED returned

HistSpec == HistInit /\ [][HistNext]_histVars

------------------------------------------------------------------------------
\* CRI: "RemovePodSandbox removes the sandbox".  A sandbox that RunPodSandbox has
\* returned and whose own removal has not begun is found under its id.
ReturnedIsListed ==
    \A r \in returned : client[r] # "nil" => vmMap[podIp[r]] = r
==============================================================================
