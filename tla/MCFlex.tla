------------------------------- MODULE MCFlex -------------------------------
(* A finite instance of Flex for TLC.  The pods p and q share the volume v    *)
(* and both ask to have it formatted, q without a mount; q also has a volume  *)
(* provisioned for it, which it uses as a device.                             *)
EXTENDS Flex, TLC

CONSTANTS p, q, m1, m2, m3, v, w

Pods == (m1 :> p) @@ (m2 :> q) @@ (m3 :> q)
Volumes == (m1 :> v) @@ (m2 :> v) @@ (m3 :> None)
Modes == (m1 :> "fs") @@ (m2 :> "none") @@ (m3 :> "device")
==============================================================================
