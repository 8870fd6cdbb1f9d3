------------------------------ MODULE MCSandbox ------------------------------
(* Finite instances of Sandbox for TLC.                                     *)
EXTENDS Sandbox, TLC

CONSTANTS a1, a2

Pool1 == <<a1>>
Pool2 == <<a1, a2>>

\* Handlers are interchangeable, and so are references.
Symmetry == Permutations(Thread) \cup Permutations(Ref)
==============================================================================
