----------------------------- MODULE LazyArray -----------------------------
(***************************************************************************)
(* libcuckoo_lazy_array.hh: the array of spinlocks, broken up into segments *)
(* that are allocated as the table grows.  An element is in the segment    *)
(* that the high bits of its index name; what is in it stays with the      *)
(* segment, so a segment is a block of memory here.                        *)
(***************************************************************************)
EXTENDS Integers, FiniteSets

CONSTANTS
  OFFSET_BITS, SEGMENT_BITS,
  Arrays,             \* the places where array objects can be constructed
  Blocks,             \* the addresses of segments
  AllocationMayFail,
  Null,               \* nullptr
  None                \* no array object

ASSUME ArrayAssumption ==
  /\ OFFSET_BITS \in Nat /\ SEGMENT_BITS \in Nat
  /\ AllocationMayFail \in BOOLEAN
  /\ Null \notin Blocks

VARIABLES
  arrays,  \* place |-> [segments_, allocated_segments_], or None
  heap,    \* the blocks allocated
  result   \* how the last operation ended

vars == <<arrays, heap, result>>

SEGMENT_SIZE == 2 ^ OFFSET_BITS
NUM_SEGMENTS == 2 ^ SEGMENT_BITS
max_size == 2 ^ (OFFSET_BITS + SEGMENT_BITS)
Indices == 0..(NUM_SEGMENTS - 1)

get_segment(i) == i \div SEGMENT_SIZE

Array == [segments_ : [Indices -> Blocks \cup {Null}], allocated_segments_ : 0..NUM_SEGMENTS]

ASSUME NoneAssumption == None \notin Array

\* Laws of powers, which hold for all widths.
ASSUME PowerAssumption ==
  /\ SEGMENT_SIZE > 0 /\ NUM_SEGMENTS > 0
  /\ max_size = SEGMENT_SIZE * NUM_SEGMENTS

Live == { a \in Arrays : arrays[a] # None }

\* The blocks an array gives access to, or will free.
Owned(a) == { arrays[a].segments_[i] : i \in 0..(arrays[a].allocated_segments_ - 1) }

Empty == [segments_ |-> [i \in Indices |-> Null], allocated_segments_ |-> 0]

Init ==
  /\ arrays = [a \in Arrays |-> None]
  /\ heap = {}
  /\ result = "ok"

\* New blocks for the segments from first to last.
NewSegments(first, last) ==
  { new \in [first..last -> Blocks \ heap] : \A i, j \in first..last : i # j => new[i] # new[j] }

With(segments, new) == [i \in Indices |-> IF i \in DOMAIN new THEN new[i] ELSE segments[i]]

last_segment_uncapped(target) ==  \* Faulty: does not mind the capacity.
  IF target = 0 THEN -1 ELSE get_segment(target - 1)

\* The last segment that target elements reach into; -1 for no elements.
last_segment(target) ==
  IF target = 0 THEN -1
  ELSE get_segment((IF target < max_size THEN target ELSE max_size) - 1)

FirstNewCounted(arr) ==  \* Faulty: takes the number of segments for the last index.
  IF arr.allocated_segments_ = 0 THEN 0 ELSE arr.allocated_segments_ - 1

FirstNewZero(arr) == 0  \* Faulty: allocates every segment.

FirstNew(arr) == arr.allocated_segments_

\* resize(target) of arr, which is at a.  When create_array throws at some
\* segment, those before it are allocated and allocated_segments_ is as before.
Resized(a, arr, target, gone) ==
  LET last == last_segment(target)
  IN  \/ /\ target # 0
         /\ \E new \in NewSegments(FirstNew(arr), last) :
              /\ arrays' = [arrays EXCEPT ![a] =
                   [segments_ |-> With(arr.segments_, new), allocated_segments_ |-> last + 1]]
              /\ heap' = heap \cup { new[i] : i \in DOMAIN new }
         /\ result' = "ok"
      \/ /\ AllocationMayFail
         /\ \E failed \in FirstNew(arr)..last :
              \E new \in NewSegments(FirstNew(arr), failed - 1) :
                /\ arrays' = [arrays EXCEPT ![a] =
                     IF gone THEN None ELSE [arr EXCEPT !.segments_ = With(@, new)]]
                /\ heap' = heap \cup { new[i] : i \in DOMAIN new }
         /\ result' = "throw"
      \/ /\ target = 0
         /\ arrays' = [arrays EXCEPT ![a] = arr]
         /\ result' = "ok"
         /\ UNCHANGED heap

\* The constructor that takes a size.  If it throws, the object is destroyed,
\* as its delegate has constructed it: with no allocated_segments_ yet.
Construct(a, target) ==
  /\ arrays[a] = None
  /\ Resized(a, Empty, target, TRUE)

resize(a, target) ==
  /\ arrays[a] # None
  /\ Resized(a, arrays[a], target, FALSE)

\* The destructor frees the segments that are counted (clear, destroy_array).
Destroy(a) ==
  /\ arrays[a] # None
  /\ arrays' = [arrays EXCEPT ![a] = None]
  /\ heap' = heap \ Owned(a)
  /\ result' = "ok"

Activated(arr) == arr  \* Faulty: the array moved from still owns its segments.

Deactivated(arr) == [arr EXCEPT !.allocated_segments_ = 0]

\* The move constructor makes a new array at b.
Move(a, b) ==
  /\ arrays[a] # None /\ arrays[b] = None
  /\ arrays' = [arrays EXCEPT ![a] = Deactivated(@), ![b] = arrays[a]]
  /\ result' = "ok"
  /\ UNCHANGED heap

Targets == 0..(max_size + 1)

\* The use cuckoohash_map makes of it: an insert that doubles the table resizes
\* it, to fewer elements if a rehash made the table smaller before; it is never
\* cleared before it is destroyed.
Next ==
  \E a \in Arrays :
    \/ \E target \in Targets : Construct(a, target) \/ resize(a, target)
    \/ Destroy(a)
    \/ \E b \in Arrays : Move(a, b)

Spec == Init /\ [][Next]_vars

-----------------------------------------------------------------------------
(* Properties.                                                             *)

TypeOK ==
  /\ arrays \in [Arrays -> Array \cup {None}]
  /\ heap \subseteq Blocks
  /\ result \in {"ok", "throw"}

\* Every index below size() is in a segment that is allocated, and in one that
\* no other index and no other array leads to, whatever was moved, resized,
\* or has failed before.
IndexedIsAllocated ==
  /\ \A a \in Live : Owned(a) \subseteq heap
  /\ \A a \in Live : Cardinality(Owned(a)) = arrays[a].allocated_segments_
  /\ \A a, b \in Live : a # b => Owned(a) \cap Owned(b) = {}

\* Inductive: the segments that count are allocated and are all different.
Counted(a) == 0..(arrays[a].allocated_segments_ - 1)
SegmentsOK ==
  \A a \in Live : \A i \in Counted(a) :
    /\ arrays[a].segments_[i] \in heap
    /\ \A b \in Live : \A j \in Counted(b) :
         arrays[a].segments_[i] = arrays[b].segments_[j] => a = b /\ i = j
ArrayInv == TypeOK /\ SegmentsOK

Lost == heap \ UNION { Owned(a) : a \in Live }

\* "Under no circumstance will the array be shrunk", says the comment of resize
\* (libcuckoo_lazy_array.hh:136), and :149 does shrink it when the target is less
\* than size(): the objects are the same, and one counts fewer segments.
Shrinks ==
  \E a \in Live :
    Live' = Live /\ arrays[a]'.allocated_segments_ < arrays[a].allocated_segments_

\* Growth, moves and destruction lose no block, unless an allocation fails: also
\* where an array that was moved, shrunk or left half grown by a failure goes on.
GrowthLosesNothing == [][result' = "ok" /\ ~Shrinks => Lost' \subseteq Lost]_vars

\* Elements the array counts stay where they are: a thread that holds a reference
\* to a lock is not left with a lock of the past when another makes the array
\* larger.  (Locks that a shrink has lost come back as new ones.)
Unmoved(a) ==
  \A i \in 0..(arrays[a].allocated_segments_ - 1) :
    arrays[a]'.segments_[i] = arrays[a].segments_[i]
GrowsInPlace ==
  [][\A a \in Live : arrays[a]' # None => Unmoved(a)]_vars
=============================================================================
