---------------------------- MODULE LazyArrayMC ----------------------------
(* Small instances of LazyArray. *)
EXTENDS LazyArray, TLC

\* Blocks are as good as each other, and so are places.
Symmetry == Permutations(Blocks) \cup Permutations(Arrays)
=============================================================================
