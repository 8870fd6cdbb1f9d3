---------------------------- MODULE MCProviders ----------------------------
(* Finite instances of Providers for TLC.                                   *)
EXTENDS Providers, TLC

CONSTANTS a1, a2

Pool2 == <<a1, a2>>

\* Pods, handlers and fresh names are interchangeable in safety properties.
Symmetry == Permutations(Pod) \cup Permutations(Handler) \cup Permutations(Fresh)
==============================================================================
