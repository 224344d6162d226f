----------------------------- MODULE TwinKeysMC -----------------------------
(***************************************************************************)
(* An instance of CuckooMap with keys that have the same hash: the map can *)
(* tell them apart only by comparing the keys, so they are symmetric.      *)
(***************************************************************************)
EXTENDS CuckooMapMC

CONSTANT Twins  \* the keys that have the same hash, model values

TwinHash == [k \in Keys |-> ToWord(IF k \in Twins THEN 15 ELSE k, HashBits)]

TwinSymmetry == Permutations(Threads) \cup Permutations(Twins)
=============================================================================
