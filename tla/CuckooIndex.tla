---------------------------- MODULE CuckooIndex ----------------------------
(***************************************************************************)
(* How a key's hash selects its two buckets and their spinlocks            *)
(* (cuckoohash_map.hh: partial_key, index_hash, alt_index, lock_ind).      *)
(*                                                                         *)
(* A machine word is the set of the positions of its one bits: XOR is      *)
(* symmetric difference and masking is intersection, so the properties of  *)
(* the index functions are set algebra, for words of any width.            *)
(***************************************************************************)
EXTENDS Integers, FiniteSets

CONSTANTS
  HashBits,  \* width of a hash value and of a bucket index (64 in the code)
  TagBits,   \* width of partial_t (8 in the code)
  LockBits,  \* locks_t::max_size() is 2^LockBits (16 in the code)
  Mix        \* tag |-> (tag + 1) * 0xc6a4a7935bd1e995, the multiplier of alt_index

Bits(n) == 0 .. n - 1

Word == SUBSET Bits(HashBits)

ASSUME IndexAssumption ==
  /\ HashBits \in Nat
  /\ TagBits \in Nat \ {0}
  /\ LockBits \in Nat
  /\ Mix \in [SUBSET Bits(TagBits) -> Word]

Xor(a, b) == (a \ b) \cup (b \ a)

\* Numeric order of the words a and b: the highest bit they differ in is b's.
Below(a, b) == \E i \in b \ a : \A j \in a \ b : j < i

\* Faulty: any of the locks may be taken first.
LowestUnordered(S) == S

\* The least element of the set S of words, as a set.
Lowest(S) == { l \in S : \A m \in S \ {l} : Below(l, m) }

hashmask(hp) == Bits(hp)

\* The 2^hp bucket indices of a table of hashpower hp.
Buckets(hp) == SUBSET hashmask(hp)

\* The folding of a hash by halves down to TagBits bits: bit j of the result
\* is the parity of the hash's bits that are congruent to j.
partial_key(hash) ==
  { j \in Bits(TagBits) :
      Cardinality({ i \in hash : i % TagBits = j }) % 2 = 1 }

index_hash(hp, hv) == hv \cap hashmask(hp)

alt_index(hp, partial, index) == Xor(index, Mix[partial]) \cap hashmask(hp)

\* The spinlocks; the array is one segment of fixed size, however many buckets.
Locks == SUBSET Bits(LockBits)

lock_ind(bucket_ind) == bucket_ind \cap Bits(LockBits)

\* The two buckets a key of hash hv may be in, in a table of hashpower hp.
BucketsOf(hp, hv) ==
  LET i1 == index_hash(hp, hv)
  IN  { i1, alt_index(hp, partial_key(hv), i1) }
=============================================================================
