---------------------------- MODULE CuckooMapMC ----------------------------
(***************************************************************************)
(* Small instances of CuckooMap.  A key is the number that is its hash,    *)
(* and the low byte of the code's multiplier gives the constant Mix.       *)
(***************************************************************************)
EXTENDS CuckooMap, TLC

\* The low n bits of a number, as a word, and the number of a word.
ToWord(m, n) == { i \in Bits(n) : (m \div (2 ^ i)) % 2 = 1 }
ToNumber(w) == MapThenSumSet(LAMBDA i : 2 ^ i, w)

Multiplier == 149  \* 0x95, the low byte of 0xc6a4a7935bd1e995

MCMix == [tag \in SUBSET Bits(TagBits) |-> ToWord((ToNumber(tag) + 1) * Multiplier, HashBits)]

MCHash == [k \in Keys |-> ToWord(k, HashBits)]

Symmetry == Permutations(Threads) \cup Permutations(Values)
=============================================================================
