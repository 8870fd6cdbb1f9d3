------------------------------ MODULE MCUnits ------------------------------
(* Finite instances of Units for TLC.                                       *)
EXTENDS Units, TLC

\* Names, images and handlers are interchangeable.
Symmetry == Permutations(Name) \cup Permutations(Image) \cup Permutations(Handler)
============================================================================
