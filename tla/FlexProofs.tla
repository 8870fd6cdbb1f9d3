----------------------------- MODULE FlexProofs -----------------------------
(* Theorems about Flex for any pods, mount points, volumes and sandboxes.    *)
EXTENDS Flex, TLAPS

\* A driver process that has come to a volume has one.
VolChosen ==
    \A m \in Point : pc[m] \in {"attach", "mkfs", "detach", "add", "loop"} => vol[m] \in Vol

TypeInv == TypeOK /\ VolChosen

\* Nobody mounts a mounted point, and only the points of deleted pods are unmounted.
Serialised ==
    /\ \A m \in mounted : pc[m] \in {"idle", "del", "umount"}
    /\ \A m \in Point : pc[m] \in {"del", "umount"} => PodOf[m] \notin wanted

\* Between AddMount and the mount on the node the table has the driver's volume.
Registered ==
    crashes = 0 => /\ up
                   /\ \A m \in Point : pc[m] = "loop" /\ Mode[m] = "fs" => mountMap[m] = vol[m]

FormatInv == TypeInv /\ AttachedOnce /\ FormatsOwn
TableInv == TypeInv /\ Serialised /\ Registered /\ ContainersGetVolume

\* The initial state has its types.
LEMMA TypeInit == Init => TypeInv
  BY PointAssumption, BoundAssumption DEF Init, TypeInv, TypeOK, VolChosen, Pcs

\* Every step keeps the types.
LEMMA TypeStep == TypeInv /\ [Next]_vars => TypeInv'
<1> SUFFICES ASSUME TypeInv, [Next]_vars PROVE TypeInv'
  OBVIOUS
<1> USE PointAssumption, BoundAssumption, NoneAssumption
    DEF TypeInv, TypeOK, VolChosen, Pcs, daemon, kubelet, driver, sandboxes, Goto
<1>1. ASSUME NEW m \in Point, Mount(m) PROVE TypeInv'
  BY <1>1 DEF Mount
<1>2. ASSUME NEW m \in Point, Unmount(m) PROVE TypeInv'
  BY <1>2 DEF Unmount
<1>3. ASSUME NEW m \in Point, Provision(m) PROVE TypeInv'
  BY <1>3 DEF Provision
<1>4. ASSUME NEW m \in Point, FormatAttach(m) PROVE TypeInv'
  BY <1>4 DEF FormatAttach
<1>5. ASSUME NEW m \in Point, Mkfs(m) PROVE TypeInv'
  BY <1>5 DEF Mkfs
<1>6. ASSUME NEW m \in Point, FormatDetach(m) PROVE TypeInv'
  BY <1>6 DEF FormatDetach
<1>7. ASSUME NEW m \in Point, AddMount(m) PROVE TypeInv'
  BY <1>7 DEF AddMount
<1>8. ASSUME NEW m \in Point, LoopMountDone(m) \/ LoopMountFails(m) PROVE TypeInv'
  BY <1>8 DEF LoopMountDone, LoopMountFails
<1>9. ASSUME NEW m \in Point, UndoMount(m) \/ UnmountDel(m) \/ Umount(m) PROVE TypeInv'
  BY <1>9 DEF UndoMount, UnmountDel, Umount, DelMount
<1>10. ASSUME NEW m \in Point, Kill(m) PROVE TypeInv'
  BY <1>10 DEF Kill
<1>11. ASSUME NEW p \in Pod, DeletePod(p) PROVE TypeInv'
  BY <1>11 DEF DeletePod
<1>12. ASSUME NEW s \in Sandbox, NEW p \in Pod, RunPodSandbox(s, p) PROVE TypeInv'
  BY <1>12 DEF RunPodSandbox
<1>13. ASSUME NEW s \in Sandbox, NEW v \in Vol, AttachVol(s, v) PROVE TypeInv'
  BY <1>13 DEF AttachVol
<1>14. ASSUME NEW s \in Sandbox, StopPodSandbox(s) PROVE TypeInv'
  BY <1>14 DEF StopPodSandbox
<1>15. ASSUME NEW s \in Sandbox, RemovePodSandbox(s) PROVE TypeInv'
  BY <1>15 DEF RemovePodSandbox
<1>16. CASE Crash
  <2>1. mountMap' \in [Point -> Vol \cup {None}] /\ volumeMap' \in [Pod -> SUBSET Vol]
    BY <1>16 DEF Crash
  <2>2. crashes \in Nat /\ crashes < MaxCrash /\ crashes' = crashes + 1 /\ up' = FALSE
    BY <1>16 DEF Crash
  <2>3. crashes' \in 0..MaxCrash
    BY <2>2
  <2> QED
    BY <1>16, <2>1, <2>2, <2>3 DEF Crash
<1>17. CASE Restart
  BY <1>17 DEF Restart
<1>18. CASE UNCHANGED vars
  BY <1>18 DEF vars
<1> HIDE PointAssumption, BoundAssumption, NoneAssumption
    DEF TypeInv, TypeOK, VolChosen, Pcs, daemon, kubelet, driver, sandboxes, Goto
<1> QED
  BY <1>1, <1>2, <1>3, <1>4, <1>5, <1>6, <1>7, <1>8, <1>9, <1>10, <1>11, <1>12, <1>13,
     <1>14, <1>15, <1>16, <1>17, <1>18 DEF Next, Work

\* Only the attachments and the driver's formatting steps bear on FormatsOwn.
LEMMA FormatStep == FormatInv /\ [Next]_vars => FormatInv'
<1> SUFFICES ASSUME FormatInv, [Next]_vars PROVE FormatInv'
  OBVIOUS
<1>t. TypeInv /\ TypeInv' /\ AttachedOnce /\ FormatsOwn
  BY TypeStep DEF FormatInv
<1>p. /\ pc \in [Point -> Pcs] /\ vol \in [Point -> Vol \cup {None}] /\ host \subseteq Vol
      /\ att \in [Sandbox -> SUBSET Vol]
      /\ \A m \in Point : pc[m] \in {"attach", "mkfs", "detach"} => vol[m] \in Vol
  BY <1>t DEF TypeInv, TypeOK, VolChosen
<1>s. SUFFICES AttachedOnce' /\ FormatsOwn'
  BY <1>t DEF FormatInv
<1>1. ASSUME NEW m \in Point, pc[m] \notin {"mkfs", "detach"}, NEW l \in Pcs \ {"mkfs", "detach"},
             pc' = [pc EXCEPT ![m] = l], UNCHANGED <<host, att>>,
             \A n \in Point \ {m} : vol'[n] = vol[n]
      PROVE  AttachedOnce' /\ FormatsOwn'
  <2>1. AttachedOnce'
    BY <1>1, <1>t DEF AttachedOnce
  <2>2. \A n \in Point : pc'[n] \in {"mkfs", "detach"} => n # m /\ pc'[n] = pc[n] /\ vol'[n] = vol[n]
    BY <1>1, <1>p
  <2> QED
    BY <1>1, <1>t, <2>1, <2>2 DEF FormatsOwn
<1>2. ASSUME NEW m \in Point, FormatAttach(m) PROVE AttachedOnce' /\ FormatsOwn'
  <2>1. CASE UNCHANGED host
    <3>1. pc' = [pc EXCEPT ![m] = "add"] \/ host = host \cup {vol[m]}
      BY <1>2, <2>1 DEF FormatAttach, Goto
    <3>2. CASE pc' = [pc EXCEPT ![m] = "add"]
      BY <1>1, <1>2, <2>1, <3>2 DEF FormatAttach, sandboxes, Pcs
    <3>3. CASE pc' # [pc EXCEPT ![m] = "add"]
      BY <1>2, <1>p, <2>1, <3>3 DEF FormatAttach, Goto, Unattached
    <3> QED
      BY <3>2, <3>3
  <2>2. CASE /\ Unattached(vol[m]) /\ (OneDevice => host = {})
             /\ host' = host \cup {vol[m]}
    <3>1. /\ UNCHANGED <<vol, att>>
          /\ \E l \in {"mkfs", "add"} : pc' = [pc EXCEPT ![m] = l]
          /\ vol[m] \in Vol /\ vol[m] \notin host /\ \A s \in Sandbox : vol[m] \notin att[s]
      BY <1>2, <1>p, <2>2 DEF FormatAttach, Goto, Unattached
    <3>2. AttachedOnce'
      BY <1>t, <1>p, <2>2, <3>1 DEF AttachedOnce
    <3>3. \A n \in Point \ {m} : /\ pc'[n] = pc[n]
                                 /\ pc[n] \in {"mkfs", "detach"} => vol[n] \in host /\ vol[n] # vol[m]
      BY <1>t, <1>p, <3>1 DEF FormatsOwn
    <3>4. OneDevice => \A n \in Point \ {m} : pc[n] \notin {"mkfs", "detach"}
      BY <2>2, <3>3
    <3> QED
      BY <1>t, <1>p, <2>2, <3>1, <3>2, <3>3, <3>4 DEF FormatsOwn
  <2> QED
    BY <1>2, <2>1, <2>2 DEF FormatAttach
<1>3. ASSUME NEW m \in Point, Mkfs(m) PROVE AttachedOnce' /\ FormatsOwn'
  <2>1. /\ UNCHANGED <<vol, host, att>> /\ pc[m] = "mkfs"
        /\ \E l \in {"detach", "add"} : pc' = [pc EXCEPT ![m] = l]
    BY <1>3 DEF Mkfs, Goto
  <2>2. \A n \in Point : pc'[n] \in {"mkfs", "detach"} => pc[n] \in {"mkfs", "detach"}
    BY <1>p, <2>1
  <2> QED
    BY <1>t, <2>1, <2>2 DEF AttachedOnce, FormatsOwn
<1>4. ASSUME NEW m \in Point, FormatDetach(m) PROVE AttachedOnce' /\ FormatsOwn'
  <2>1. /\ UNCHANGED <<vol, att>> /\ pc[m] = "detach" /\ pc' = [pc EXCEPT ![m] = "add"]
        /\ host' = host \/ host' = host \ {vol[m]}
    BY <1>4 DEF FormatDetach, Goto
  <2>2. \A n \in Point : pc'[n] \in {"mkfs", "detach"} =>
            pc[n] \in {"mkfs", "detach"} /\ n # m /\ vol[n] # vol[m]
    BY <1>t, <1>p, <2>1 DEF FormatsOwn
  <2>3. OneDevice => \A n \in Point : pc'[n] \notin {"mkfs", "detach"}
    BY <1>t, <1>p, <2>1, <2>2 DEF FormatsOwn
  <2> QED
    BY <1>t, <2>1, <2>2, <2>3 DEF AttachedOnce, FormatsOwn
<1>5. ASSUME NEW m \in Point, Kill(m) PROVE AttachedOnce' /\ FormatsOwn'
  <2>1. /\ UNCHANGED <<vol, host, att>> /\ pc' = [pc EXCEPT ![m] = "idle"]
    BY <1>5 DEF Kill, Goto
  <2>2. \A n \in Point : pc'[n] \in {"mkfs", "detach"} => pc[n] \in {"mkfs", "detach"}
    BY <1>p, <2>1
  <2> QED
    BY <1>t, <2>1, <2>2 DEF AttachedOnce, FormatsOwn
<1>6. ASSUME NEW s \in Sandbox, NEW v \in Vol, AttachVol(s, v) PROVE AttachedOnce' /\ FormatsOwn'
  <2>1. /\ UNCHANGED <<vol, host, pc>> /\ att' = [att EXCEPT ![s] = @ \cup {v}]
        /\ v \notin host /\ \A t \in Sandbox : v \notin att[t]
    BY <1>6 DEF AttachVol, driver, Unattached
  <2> QED
    BY <1>t, <1>p, <2>1 DEF AttachedOnce, FormatsOwn
<1>7. ASSUME UNCHANGED <<vol, host, pc>>, att' \in [Sandbox -> SUBSET Vol],
             \A s \in Sandbox : att'[s] \subseteq att[s]
      PROVE  AttachedOnce' /\ FormatsOwn'
  BY <1>t, <1>7 DEF AttachedOnce, FormatsOwn
<1>8. ASSUME NEW m \in Point, Mount(m) PROVE AttachedOnce' /\ FormatsOwn'
  BY <1>1, <1>8, <1>p DEF Mount, Goto, Pcs, kubelet, sandboxes
<1>9. ASSUME NEW m \in Point, Unmount(m) PROVE AttachedOnce' /\ FormatsOwn'
  BY <1>1, <1>9 DEF Unmount, Goto, Pcs, sandboxes
<1>10. ASSUME NEW m \in Point, Provision(m) PROVE AttachedOnce' /\ FormatsOwn'
  <2>1. \E l \in {"attach", "idle"} : pc' = [pc EXCEPT ![m] = l]
    BY <1>10 DEF Provision, Goto
  <2>2. pc[m] = "provision" /\ UNCHANGED <<host, att>> /\ \A n \in Point \ {m} : vol'[n] = vol[n]
    BY <1>10, <1>p DEF Provision
  <2> QED
    BY <1>1, <2>1, <2>2 DEF Pcs
<1>11. ASSUME NEW m \in Point, AddMount(m) PROVE AttachedOnce' /\ FormatsOwn'
  <2>1. \E l \in {"loop", "idle"} : pc' = [pc EXCEPT ![m] = l]
    BY <1>11 DEF AddMount, Goto
  <2>2. pc[m] = "add" /\ UNCHANGED <<vol, host, att>>
    BY <1>11 DEF AddMount
  <2> QED
    BY <1>1, <2>1, <2>2 DEF Pcs
<1>12. ASSUME NEW m \in Point, LoopMountDone(m) \/ LoopMountFails(m) PROVE AttachedOnce' /\ FormatsOwn'
  BY <1>1, <1>12 DEF LoopMountDone, LoopMountFails, Goto, Pcs
<1>13. ASSUME NEW m \in Point, UndoMount(m) \/ UnmountDel(m) \/ Umount(m)
       PROVE  AttachedOnce' /\ FormatsOwn'
  BY <1>1, <1>13 DEF UndoMount, UnmountDel, Umount, Goto, Pcs
<1>14. ASSUME NEW p \in Pod, DeletePod(p) PROVE AttachedOnce' /\ FormatsOwn'
  BY <1>7, <1>14, <1>p DEF DeletePod, driver
<1>15. ASSUME NEW s \in Sandbox, NEW p \in Pod, RunPodSandbox(s, p) PROVE AttachedOnce' /\ FormatsOwn'
  BY <1>7, <1>15, <1>p DEF RunPodSandbox, driver
<1>16. ASSUME NEW s \in Sandbox, StopPodSandbox(s) PROVE AttachedOnce' /\ FormatsOwn'
  BY <1>7, <1>16, <1>p DEF StopPodSandbox, driver
<1>17. ASSUME NEW s \in Sandbox, RemovePodSandbox(s) PROVE AttachedOnce' /\ FormatsOwn'
  BY <1>7, <1>17, <1>p DEF RemovePodSandbox, driver
<1>18. CASE Crash \/ Restart \/ UNCHANGED vars
  BY <1>7, <1>18, <1>p DEF Crash, Restart, vars, driver
<1> QED
  BY <1>2, <1>3, <1>4, <1>5, <1>6, <1>8, <1>9, <1>10, <1>11, <1>12, <1>13,
     <1>14, <1>15, <1>16, <1>17, <1>18 DEF Next, Work

(* What containers find in the mount table.                                  *)
LEMMA TableStep == TableInv /\ [Next]_vars => TableInv'
<1> SUFFICES ASSUME TableInv, [Next]_vars PROVE TableInv'
  OBVIOUS
<1>t. TypeInv /\ TypeInv' /\ Serialised /\ Registered /\ ContainersGetVolume
  BY TypeStep DEF TableInv
<1>p. /\ pc \in [Point -> Pcs] /\ vol \in [Point -> Vol \cup {None}] /\ mounted \subseteq Point
      /\ mountMap \in [Point -> Vol \cup {None}] /\ crashes \in Nat
      /\ \A m \in Point : pc[m] \in {"add", "loop"} => vol[m] \in Vol
  BY <1>t, BoundAssumption DEF TypeInv, TypeOK, VolChosen
<1>s. SUFFICES Serialised' /\ Registered' /\ ContainersGetVolume'
  BY <1>t DEF TableInv
<1> USE DEF Serialised, Registered, ContainersGetVolume, Treatment
<1>1. ASSUME NEW m \in Point, pc[m] \notin {"idle", "del", "umount"},
             NEW l \in {"idle", "attach", "mkfs", "detach", "add", "undo"},
             pc' = [pc EXCEPT ![m] = l],
             UNCHANGED <<up, crashes, mountMap, wanted, mounted>>,
             \A n \in Point \ {m} : vol'[n] = vol[n]
      PROVE  Serialised' /\ Registered' /\ ContainersGetVolume'
  <2>1. m \notin mounted
    BY <1>1, <1>t
  <2> QED
    BY <1>1, <1>t, <1>p, <2>1
<1>2. ASSUME NEW m \in Point, Mount(m) PROVE Serialised' /\ Registered' /\ ContainersGetVolume'
  <2>1. /\ UNCHANGED <<up, crashes, mountMap, wanted, mounted>> /\ m \notin mounted
        /\ \E l \in {"provision", "attach", "add"} : pc' = [pc EXCEPT ![m] = l]
        /\ \A n \in Point \ {m} : vol'[n] = vol[n]
    BY <1>2, <1>p DEF Mount, Goto, daemon, kubelet
  <2> QED
    BY <1>t, <1>p, <2>1
<1>3. ASSUME NEW m \in Point, Unmount(m) PROVE Serialised' /\ Registered' /\ ContainersGetVolume'
  <2>1. /\ UNCHANGED <<up, crashes, mountMap, wanted, mounted, vol>>
        /\ pc' = [pc EXCEPT ![m] = "del"] /\ PodOf[m] \notin wanted
    BY <1>3 DEF Unmount, Goto, daemon, kubelet
  <2> QED
    BY <1>t, <1>p, <2>1
<1>4. ASSUME NEW m \in Point, Provision(m) PROVE Serialised' /\ Registered' /\ ContainersGetVolume'
  BY <1>1, <1>4, <1>p DEF Provision, Goto, daemon, kubelet
<1>5. ASSUME NEW m \in Point, FormatAttach(m) \/ Mkfs(m) \/ FormatDetach(m)
      PROVE  Serialised' /\ Registered' /\ ContainersGetVolume'
  <2>1. /\ pc[m] \in {"attach", "mkfs", "detach"}
        /\ \E l \in {"mkfs", "detach", "add"} : pc' = [pc EXCEPT ![m] = l]
        /\ UNCHANGED <<up, crashes, mountMap, wanted, mounted, vol>>
    BY <1>5 DEF FormatAttach, Mkfs, FormatDetach, Goto, daemon, kubelet
  <2> QED
    BY <1>1, <2>1
<1>6. ASSUME NEW m \in Point, AddMount(m) PROVE Serialised' /\ Registered' /\ ContainersGetVolume'
  <2>1. m \notin mounted /\ pc[m] = "add" /\ UNCHANGED <<up, crashes, wanted, mounted, vol>>
    BY <1>6, <1>t DEF AddMount, kubelet
  <2>2. CASE pc' = [pc EXCEPT ![m] = "idle"] /\ UNCHANGED mountMap
    BY <1>1, <2>1, <2>2
  <2>3. CASE /\ pc' = [pc EXCEPT ![m] = "loop"]
             /\ mountMap' = IF Mode[m] = "fs" THEN [mountMap EXCEPT ![m] = vol[m]] ELSE mountMap
    BY <1>t, <1>p, <2>1, <2>3
  <2> QED
    BY <1>6, <2>2, <2>3 DEF AddMount, Goto
<1>7. ASSUME NEW m \in Point, LoopMountDone(m) PROVE Serialised' /\ Registered' /\ ContainersGetVolume'
  <2>1. /\ pc[m] = "loop" /\ pc' = [pc EXCEPT ![m] = "idle"] /\ mounted' = mounted \cup {m}
        /\ UNCHANGED <<up, crashes, mountMap, wanted, vol>>
    BY <1>7 DEF LoopMountDone, Goto, daemon
  <2>2. vol[m] # None
    BY <1>p, <2>1, NoneAssumption
  <2> QED
    BY <1>t, <1>p, <2>1, <2>2
<1>8. ASSUME NEW m \in Point, LoopMountFails(m) PROVE Serialised' /\ Registered' /\ ContainersGetVolume'
  BY <1>1, <1>8 DEF LoopMountFails, Goto, daemon, kubelet
<1>9. ASSUME NEW m \in Point, UndoMount(m) PROVE Serialised' /\ Registered' /\ ContainersGetVolume'
  <2>1. /\ pc[m] = "undo" /\ pc' = [pc EXCEPT ![m] = "idle"]
        /\ UNCHANGED <<up, crashes, wanted, mounted, vol>>
        /\ \A n \in Point \ {m} : mountMap'[n] = mountMap[n]
    BY <1>9, <1>p DEF UndoMount, DelMount, Goto, kubelet
  <2>2. m \notin mounted
    BY <1>t, <2>1
  <2> QED
    BY <1>t, <1>p, <2>1, <2>2
<1>10. ASSUME NEW m \in Point, UnmountDel(m) PROVE Serialised' /\ Registered' /\ ContainersGetVolume'
  <2>1. /\ pc[m] = "del" /\ pc' = [pc EXCEPT ![m] = "umount"]
        /\ UNCHANGED <<up, crashes, wanted, mounted, vol>>
        /\ \A n \in Point \ {m} : mountMap'[n] = mountMap[n]
    BY <1>10, <1>p DEF UnmountDel, DelMount, Goto, kubelet
  <2>2. PodOf[m] \notin wanted
    BY <1>t, <2>1
  <2> QED
    BY <1>t, <1>p, <2>1, <2>2
<1>11. ASSUME NEW m \in Point, Umount(m) PROVE Serialised' /\ Registered' /\ ContainersGetVolume'
  <2>1. /\ pc' = [pc EXCEPT ![m] = "idle"] /\ mounted' \subseteq mounted
        /\ UNCHANGED <<up, crashes, mountMap, wanted, vol>>
    BY <1>11 DEF Umount, Goto, daemon
  <2> QED
    BY <1>t, <1>p, <2>1
<1>12. ASSUME NEW m \in Point, Kill(m) PROVE Serialised' /\ Registered' /\ ContainersGetVolume'
  <2>1. /\ pc' = [pc EXCEPT ![m] = "idle"]
        /\ UNCHANGED <<up, crashes, mountMap, wanted, mounted, vol>>
    BY <1>12 DEF Kill, Goto, daemon, kubelet
  <2> QED
    BY <1>t, <1>p, <2>1
<1>13. ASSUME UNCHANGED <<up, crashes, mountMap, mounted, pc, vol>>, wanted' \subseteq wanted
       PROVE  Serialised' /\ Registered' /\ ContainersGetVolume'
  BY <1>t, <1>13
<1>14. ASSUME NEW p \in Pod, DeletePod(p) PROVE Serialised' /\ Registered' /\ ContainersGetVolume'
  BY <1>13, <1>14 DEF DeletePod, daemon, driver
<1>15. ASSUME NEW s \in Sandbox,
              \/ \E p \in Pod : RunPodSandbox(s, p)
              \/ \E v \in Vol : AttachVol(s, v)
              \/ StopPodSandbox(s) \/ RemovePodSandbox(s)
       PROVE  Serialised' /\ Registered' /\ ContainersGetVolume'
  <2>1. UNCHANGED <<up, crashes, mountMap, mounted, pc, vol, wanted>>
    BY <1>15 DEF RunPodSandbox, AttachVol, StopPodSandbox, RemovePodSandbox, daemon, kubelet, driver
  <2> QED
    BY <1>13, <2>1
<1>16. CASE Crash
  BY <1>16, <1>t, <1>p DEF Crash, kubelet, driver
<1>17. CASE Restart
  BY <1>17, <1>t DEF Restart, kubelet, driver
<1>18. CASE UNCHANGED vars
  BY <1>13, <1>18 DEF vars, daemon, kubelet, driver
<1> HIDE DEF Serialised, Registered, ContainersGetVolume, Treatment
<1> QED
  BY <1>2, <1>3, <1>4, <1>5, <1>6, <1>7, <1>8, <1>9, <1>10, <1>11, <1>12, <1>14, <1>15, <1>16,
     <1>17, <1>18 DEF Next, Work

\* Every variable of Flex keeps its type.
THEOREM TypeCorrect == Spec => []TypeOK
<1>1. TypeInv => TypeOK
  BY DEF TypeInv
<1> QED
  BY <1>1, TypeInit, TypeStep, PTL DEF Spec

\* The driver's mkfs only ever hits the volume it is meant for, however many driver
\* processes and sandboxes compete for volumes and for the format device, and
\* whichever of their calls fail or are cut short.
THEOREM FormatsAreSafe == Spec => []FormatsOwn
<1>1. Init => FormatInv
  <2>1. Init => AttachedOnce /\ FormatsOwn
    BY DEF Init, AttachedOnce, FormatsOwn
  <2> QED
    BY <2>1, TypeInit DEF FormatInv
<1>2. FormatInv => FormatsOwn
  BY DEF FormatInv
<1> QED
  BY <1>1, <1>2, FormatStep, PTL DEF Spec

\* As long as the daemon has not crashed, the mount table has the volume of every
\* mounted point of a running pod, so that createContainer attaches it.
THEOREM ContainersSeeVolumes == Spec => []ContainersGetVolume
<1>1. Init => TableInv
  <2>1. Init => Serialised /\ Registered /\ ContainersGetVolume
    BY DEF Init, Serialised, Registered, ContainersGetVolume
  <2> QED
    BY <2>1, TypeInit DEF TableInv
<1>2. TableInv => ContainersGetVolume
  BY DEF TableInv
<1> QED
  BY <1>1, <1>2, TableStep, PTL DEF Spec
==============================================================================
