---------------------------- MODULE MCDeltaSync ----------------------------
(* DeltaSync for TLC: feature objects and what they say are interchangeable, *)
(* so the runs that check only invariants take one of each permutation.      *)
EXTENDS DeltaSync, TLC

Symmetry ==
    Permutations(Ref) \cup Permutations(Content) \cup Permutations(Parameters)
=============================================================================
