---------------------------- MODULE MCArguments ----------------------------
(* Two call sites and an array literal, of two elements each.              *)
EXTENDS Arguments, TLC

MCSize == [l \in Lists |-> 2]
Symmetry == Permutations(Calls) \cup Permutations(Objects)
=============================================================================
