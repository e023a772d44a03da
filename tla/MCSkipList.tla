----------------------------- MODULE MCSkipList -----------------------------
(* SkipList.tla for TLC: threads and values are interchangeable, keys are   *)
(* ordered.                                                                 *)
EXTENDS SkipList, TLC

Symmetry == Permutations(Thread) \cup Permutations(Value)

=============================================================================
