------------------------------- MODULE MCHeap -------------------------------
(***************************************************************************)
(* Three objects beside the root, each with two references: cycles of      *)
(* every kind, and chains that are longer than the limit on recursion.     *)
(***************************************************************************)
EXTENDS ObjectHeap, TLC

Symmetry == Permutations(Objects \ {Root})
=============================================================================
