-------------------------- MODULE MCSandboxHistory --------------------------
(* Finite instances of SandboxHistory for TLC.                              *)
EXTENDS SandboxHistory, TLC

CONSTANT a1

Pool1 == <<a1>>
==============================================================================
