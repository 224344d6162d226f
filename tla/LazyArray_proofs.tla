-------------------------- MODULE LazyArray_proofs --------------------------
(***************************************************************************)
(* The segments of the arrays of spinlocks, proved for any number of       *)
(* arrays, of segments and of elements in a segment: an index below size() *)
(* leads to memory that is allocated and that nothing else leads to, the   *)
(* elements stay where they are, and no memory is lost.                    *)
(***************************************************************************)
EXTENDS LazyArray, FiniteSetTheorems, TLAPS

----------------------------------------------------------------------------
(* Numbers of segments.                                                    *)

LEMMA Sizes ==
  /\ SEGMENT_SIZE \in Int /\ SEGMENT_SIZE > 0
  /\ NUM_SEGMENTS \in Int /\ NUM_SEGMENTS > 0
  /\ max_size \in Int /\ max_size > 0 /\ max_size = SEGMENT_SIZE * NUM_SEGMENTS
<1>1. SEGMENT_SIZE \in Int /\ NUM_SEGMENTS \in Int
  BY ArrayAssumption DEF SEGMENT_SIZE, NUM_SEGMENTS
<1>2. SEGMENT_SIZE > 0 /\ NUM_SEGMENTS > 0 /\ max_size = SEGMENT_SIZE * NUM_SEGMENTS
  BY PowerAssumption
<1> DEFINE m == SEGMENT_SIZE
           n == NUM_SEGMENTS
<1> HIDE DEF m, n
<1>3. m \in Int /\ n \in Int /\ m > 0 /\ n > 0
  BY <1>1, <1>2 DEF m, n
<1>4. m * n \in Int /\ m * n > 0
  BY <1>3
<1> QED
  BY <1>1, <1>2, <1>4 DEF m, n

\* The segments that a resize reaches into are there.
LEMMA LastSegment ==
  ASSUME NEW target \in Nat \ {0}
  PROVE  last_segment(target) \in 0..(NUM_SEGMENTS - 1)
<1> DEFINE t == IF target < max_size THEN target ELSE max_size
           m == SEGMENT_SIZE
           n == NUM_SEGMENTS
<1>1. m \in Int /\ m > 0 /\ n \in Nat /\ t - 1 \in Nat /\ t - 1 < m * n
  BY Sizes
<1>2. last_segment(target) = (t - 1) \div m
  BY DEF last_segment, get_segment
<1> HIDE DEF t, m, n
<1> DEFINE u == t - 1
<1>3. u \in Nat /\ u < m * n
  BY <1>1
<1> HIDE DEF u
<1>4. u \div m \in 0..(n - 1)
  BY <1>1, <1>3
<1> QED
  BY <1>2, <1>4 DEF u, n

LEMMA TargetTypes == \A target \in Targets : target \in Nat
BY Sizes DEF Targets

----------------------------------------------------------------------------
(* The parts of the invariant that a step uses.                            *)

LEMMA NewBlocks ==
  ASSUME NEW first \in Int, NEW last \in Int, NEW new \in NewSegments(first, last)
  PROVE  /\ DOMAIN new = first..last
         /\ \A i \in first..last : new[i] \in Blocks /\ new[i] \notin heap
         /\ \A i, j \in first..last : new[i] = new[j] => i = j
BY DEF NewSegments

LEMMA ArrayParts ==
  ASSUME NEW arr \in Array
  PROVE  /\ arr.allocated_segments_ \in 0..NUM_SEGMENTS
         /\ arr.segments_ \in [Indices -> Blocks \cup {Null}]
         /\ arr = [segments_ |-> arr.segments_, allocated_segments_ |-> arr.allocated_segments_]
BY DEF Array

LEMMA EmptyIsArray == Empty \in Array /\ Empty.allocated_segments_ = 0
BY Sizes DEF Empty, Array

\* What a segment of the array is after a resize.
LEMMA WithParts ==
  ASSUME NEW s \in [Indices -> Blocks \cup {Null}], NEW first \in Int, NEW last \in Int,
         NEW new \in NewSegments(first, last), first >= 0
  PROVE  /\ With(s, new) \in [Indices -> Blocks \cup {Null}]
         /\ \A i \in Indices : i \in first..last => With(s, new)[i] = new[i]
         /\ \A i \in Indices : i \notin first..last => With(s, new)[i] = s[i]
<1>1. DOMAIN new = first..last /\ \A i \in first..last : new[i] \in Blocks
  BY NewBlocks
<1> QED
  BY <1>1 DEF With

LEMMA LiveIsArray ==
  ASSUME TypeOK, NEW a \in Live
  PROVE  /\ a \in Arrays /\ arrays[a] \in Array
         /\ arrays[a].allocated_segments_ \in 0..NUM_SEGMENTS
         /\ Counted(a) \subseteq Indices
<1>1. a \in Arrays /\ arrays[a] \in Array
  BY DEF TypeOK, Live
<1>2. arrays[a].allocated_segments_ \in 0..NUM_SEGMENTS
  BY <1>1, ArrayParts
<1> QED
  BY <1>1, <1>2, Sizes DEF Counted, Indices

\* An array is made, or made larger or smaller, at a: `was' is what it was before,
\* which is empty if it is new, and the first `count' segments count now.
Become(a, was, count, first, last, new) ==
  /\ a \in Arrays /\ was \in Array
  /\ arrays[a] = was \/ (arrays[a] = None /\ was = Empty)
  /\ first = was.allocated_segments_ /\ last \in Int /\ last < NUM_SEGMENTS
  /\ new \in NewSegments(first, last)
  /\ count \in 0..NUM_SEGMENTS /\ (count <= first \/ count <= last + 1)
  /\ arrays' = [arrays EXCEPT ![a] =
       [segments_ |-> With(was.segments_, new), allocated_segments_ |-> count]]
  /\ heap' = heap \cup { new[i] : i \in DOMAIN new }

LEMMA BecomeParts ==
  ASSUME TypeOK, NEW a, NEW was, NEW count, NEW first, NEW last, NEW new,
         Become(a, was, count, first, last, new)
  PROVE  /\ first \in 0..NUM_SEGMENTS /\ last \in Int /\ last < NUM_SEGMENTS
         /\ a \in Live' /\ Live' = Live \cup {a}
         /\ \A b \in Live' : b # a => b \in Live /\ arrays[b]' = arrays[b]
         /\ arrays[a]' \in Array
         /\ arrays[a]'.allocated_segments_ = count
         /\ \A i \in 0..(first - 1) : arrays[a]'.segments_[i] = was.segments_[i]
         /\ \A i \in first..last : arrays[a]'.segments_[i] = new[i]
         /\ \A i \in first..last : new[i] \in Blocks /\ new[i] \notin heap
         /\ \A i, j \in first..last : new[i] = new[j] => i = j
         /\ heap' = heap \cup { new[i] : i \in first..last }
         /\ (first # 0 => a \in Live /\ arrays[a] = was)
<1>1. /\ first \in 0..NUM_SEGMENTS /\ last \in Int /\ last < NUM_SEGMENTS
      /\ was.segments_ \in [Indices -> Blocks \cup {Null}]
      /\ a \in Arrays /\ count \in 0..NUM_SEGMENTS /\ new \in NewSegments(first, last)
  BY ArrayParts DEF Become
<1> DEFINE s == With(was.segments_, new)
           rec == [segments_ |-> s, allocated_segments_ |-> count]
<1>2. /\ s \in [Indices -> Blocks \cup {Null}]
      /\ \A i \in Indices : i \in first..last => s[i] = new[i]
      /\ \A i \in Indices : i \notin first..last => s[i] = was.segments_[i]
  <2>1. was.segments_ \in [Indices -> Blocks \cup {Null}] /\ first \in Int /\ first >= 0 /\ last \in Int
    BY <1>1, Sizes
  <2> QED
    BY <2>1, <1>1, WithParts
<1>3. arrays' = [arrays EXCEPT ![a] = rec]
  BY DEF Become
<1> HIDE DEF s
<1>4. rec \in Array
  BY <1>1, <1>2 DEF Array
<1>5. rec # None
  BY <1>4, NoneAssumption
<1>6. arrays[a]' = rec /\ \A b \in Arrays : b # a => arrays[b]' = arrays[b]
  BY <1>1, <1>3 DEF TypeOK
<1> HIDE DEF rec
<1>7. a \in Live' /\ Live' = Live \cup {a}
  BY <1>1, <1>5, <1>6 DEF Live
<1>8. \A b \in Live' : b # a => b \in Live /\ arrays[b]' = arrays[b]
  BY <1>6, <1>7 DEF Live
<1>9. /\ \A i \in first..last : new[i] \in Blocks /\ new[i] \notin heap
      /\ \A i, j \in first..last : new[i] = new[j] => i = j
      /\ DOMAIN new = first..last
  BY <1>1, NewBlocks, Sizes
<1>10. rec.segments_ = s /\ rec.allocated_segments_ = count
  BY DEF rec
<1>11. \A i \in 0..(first - 1) : i \in Indices /\ i \notin first..last
  BY <1>1, Sizes DEF Indices
<1>12. \A i \in first..last : i \in Indices
  BY <1>1, Sizes DEF Indices
<1>13. heap' = heap \cup { new[i] : i \in first..last }
  BY <1>9 DEF Become
<1>14. first # 0 => a \in Live /\ arrays[a] = was
  <2> SUFFICES ASSUME first # 0
               PROVE  a \in Live /\ arrays[a] = was
    OBVIOUS
  <2>1. was # Empty /\ was \in Array
    BY EmptyIsArray DEF Become
  <2> QED
    BY <2>1, <1>1, NoneAssumption DEF Become, Live
<1> QED
  BY <1>1, <1>2, <1>4, <1>6, <1>7, <1>8, <1>9, <1>10, <1>11, <1>12, <1>13, <1>14

----------------------------------------------------------------------------
(* Every step keeps the invariant.                                         *)

LEMMA BecomeKeeps ==
  ASSUME ArrayInv, NEW a, NEW was, NEW count, NEW first, NEW last, NEW new,
         Become(a, was, count, first, last, new), result' \in {"ok", "throw"}
  PROVE  ArrayInv'
<1>1. TypeOK /\ SegmentsOK
  BY DEF ArrayInv
<1>2. /\ first \in 0..NUM_SEGMENTS /\ last \in Int /\ last < NUM_SEGMENTS
      /\ a \in Live' /\ Live' = Live \cup {a}
      /\ \A b \in Live' : b # a => b \in Live /\ arrays[b]' = arrays[b]
      /\ arrays[a]' \in Array
      /\ arrays[a]'.allocated_segments_ = count
      /\ \A i \in 0..(first - 1) : arrays[a]'.segments_[i] = was.segments_[i]
      /\ \A i \in first..last : arrays[a]'.segments_[i] = new[i]
      /\ \A i \in first..last : new[i] \in Blocks /\ new[i] \notin heap
      /\ \A i, j \in first..last : new[i] = new[j] => i = j
      /\ heap' = heap \cup { new[i] : i \in first..last }
      /\ (first # 0 => a \in Live /\ arrays[a] = was)
  BY <1>1, BecomeParts
<1>3. TypeOK'
  <2>1. arrays' \in [Arrays -> Array \cup {None}]
    <3>1. \A b \in Arrays : b # a => arrays'[b] = arrays[b]
      BY <1>1 DEF Become, TypeOK
    <3>2. DOMAIN arrays' = Arrays /\ arrays' = [b \in Arrays |-> arrays'[b]]
      BY <1>1 DEF Become, TypeOK
    <3>3. \A b \in Arrays : arrays'[b] \in Array \cup {None}
      BY <1>1, <1>2, <3>1 DEF TypeOK
    <3> QED
      BY <3>2, <3>3
  <2>2. heap' \subseteq Blocks
    BY <1>1, <1>2 DEF TypeOK
  <2> QED
    BY <2>1, <2>2 DEF TypeOK
<1>4. first = was.allocated_segments_ /\ count \in 0..NUM_SEGMENTS
      /\ (count <= first \/ count <= last + 1)
  BY DEF Become
\* What a segment that counts now was before.
<1>5. \A i \in Counted(a)' :
        \/ i \in first..last /\ arrays[a]'.segments_[i] = new[i]
        \/ a \in Live /\ i \in Counted(a) /\ arrays[a]'.segments_[i] = arrays[a].segments_[i]
  <2> TAKE i \in Counted(a)'
  <2>1. i \in 0..(count - 1)
    BY <1>2 DEF Counted
  <2>2. CASE i >= first
    BY <2>1, <2>2, <1>2, <1>4, Sizes
  <2>3. CASE i < first
    BY <2>1, <2>3, <1>2, <1>4, Sizes DEF Counted
  <2> QED
    BY <2>1, <2>2, <2>3, <1>2, Sizes
<1>6. \A b \in Live' : b # a => Counted(b)' = Counted(b)
  BY <1>2 DEF Counted
<1>7. \A b \in Live : \A i \in Counted(b) : arrays[b].segments_[i] \in heap
  BY <1>1 DEF SegmentsOK
<1>8. \A b, c \in Live : \A i \in Counted(b), j \in Counted(c) :
        arrays[b].segments_[i] = arrays[c].segments_[j] => b = c /\ i = j
  BY <1>1 DEF SegmentsOK
<1>9. SegmentsOK'
  <2> SUFFICES ASSUME NEW b \in Live', NEW i \in Counted(b)'
               PROVE  /\ arrays[b]'.segments_[i] \in heap'
                      /\ \A c \in Live' : \A j \in Counted(c)' :
                           arrays[b]'.segments_[i] = arrays[c]'.segments_[j] => b = c /\ i = j
    BY DEF SegmentsOK
  <2>1. arrays[b]'.segments_[i] \in heap'
    BY <1>2, <1>5, <1>6, <1>7
  <2> SUFFICES ASSUME NEW c \in Live', NEW j \in Counted(c)',
                      arrays[b]'.segments_[i] = arrays[c]'.segments_[j]
               PROVE  b = c /\ i = j
    BY <2>1
  <2>2. CASE b # a /\ c # a
    BY <2>2, <1>2, <1>6, <1>8
  <2>3. CASE b = a /\ c # a
    BY <2>3, <1>2, <1>5, <1>6, <1>7, <1>8
  <2>4. CASE b # a /\ c = a
    BY <2>4, <1>2, <1>5, <1>6, <1>7, <1>8
  <2>5. CASE b = a /\ c = a
    BY <2>5, <1>2, <1>5, <1>7, <1>8
  <2> QED
    BY <2>2, <2>3, <2>4, <2>5
<1> QED
  BY <1>3, <1>9 DEF ArrayInv

\* A resize that ends in one of three ways.
LEMMA ResizedIsBecome ==
  ASSUME TypeOK, NEW a \in Arrays, NEW arr \in Array, NEW target \in Nat, NEW gone \in BOOLEAN,
         arrays[a] = arr \/ (arrays[a] = None /\ arr = Empty),
         gone => arrays[a] = None,
         Resized(a, arr, target, gone)
  PROVE  \/ /\ result' = "ok" /\ target # 0
            /\ \E last, new :
                 Become(a, arr, last + 1, arr.allocated_segments_, last, new)
         \/ /\ result' = "throw" /\ ~gone
            /\ \E last, new :
                 Become(a, arr, arr.allocated_segments_, arr.allocated_segments_, last, new)
         \/ /\ result' = "throw" /\ gone
            /\ arrays' = arrays
            /\ heap \subseteq heap' /\ heap' \subseteq Blocks
         \/ /\ result' = "ok" /\ target = 0
            /\ arrays' = [arrays EXCEPT ![a] = arr]
            /\ heap' = heap
<1> DEFINE first == arr.allocated_segments_
           top == last_segment(target)
<1>1. first \in 0..NUM_SEGMENTS /\ arr.segments_ \in [Indices -> Blocks \cup {Null}]
      /\ arr = [segments_ |-> arr.segments_, allocated_segments_ |-> first]
  BY ArrayParts
<1>2. top \in (-1)..(NUM_SEGMENTS - 1) /\ (target # 0 => top \in 0..(NUM_SEGMENTS - 1))
  <2>1. CASE target = 0
    BY <2>1, Sizes DEF last_segment
  <2>2. CASE target # 0
    BY <2>2, LastSegment, Sizes
  <2> QED
    BY <2>1, <2>2
<1> HIDE DEF top
<1>3. ASSUME target # 0, NEW new \in NewSegments(first, top),
             arrays' = [arrays EXCEPT ![a] =
               [segments_ |-> With(arr.segments_, new), allocated_segments_ |-> top + 1]],
             heap' = heap \cup { new[i] : i \in DOMAIN new }, result' = "ok"
      PROVE  Become(a, arr, top + 1, first, top, new)
  <2>1. top \in Int /\ top < NUM_SEGMENTS /\ top + 1 \in 0..NUM_SEGMENTS /\ top + 1 <= top + 1
    BY <1>2, <1>3, Sizes
  <2> QED
    BY <2>1, <1>3 DEF Become
<1>4. ASSUME NEW failed \in first..top, NEW new \in NewSegments(first, failed - 1), ~gone,
             arrays' = [arrays EXCEPT ![a] = [arr EXCEPT !.segments_ = With(@, new)]],
             heap' = heap \cup { new[i] : i \in DOMAIN new }
      PROVE  Become(a, arr, first, first, failed - 1, new)
  <2>1. failed - 1 \in Int /\ failed - 1 < NUM_SEGMENTS /\ first <= first
    BY <1>1, <1>2, Sizes
  <2>2. [arr EXCEPT !.segments_ = With(@, new)]
          = [segments_ |-> With(arr.segments_, new), allocated_segments_ |-> first]
    BY <1>1
  <2> QED
    BY <2>1, <2>2, <1>1, <1>4 DEF Become
<1>5. ASSUME NEW failed \in first..top, NEW new \in NewSegments(first, failed - 1), gone,
             arrays' = [arrays EXCEPT ![a] = None],
             heap' = heap \cup { new[i] : i \in DOMAIN new }
      PROVE  arrays' = arrays /\ heap \subseteq heap' /\ heap' \subseteq Blocks
  <2>1. arrays' = arrays
    BY <1>5 DEF TypeOK
  <2>2. failed - 1 \in Int /\ first \in Int
    BY <1>1, <1>2, Sizes
  <2>3. DOMAIN new = first..(failed - 1) /\ \A i \in first..(failed - 1) : new[i] \in Blocks
    BY <2>2, NewBlocks
  <2> QED
    BY <2>1, <2>3, <1>5 DEF TypeOK
<1> QED
  <2>1. CASE /\ target # 0
             /\ \E new \in NewSegments(first, top) :
                  /\ arrays' = [arrays EXCEPT ![a] =
                       [segments_ |-> With(arr.segments_, new), allocated_segments_ |-> top + 1]]
                  /\ heap' = heap \cup { new[i] : i \in DOMAIN new }
             /\ result' = "ok"
    BY <2>1, <1>3
  <2>2. CASE /\ \E failed \in first..top :
                  \E new \in NewSegments(first, failed - 1) :
                    /\ arrays' = [arrays EXCEPT ![a] =
                         IF gone THEN None ELSE [arr EXCEPT !.segments_ = With(@, new)]]
                    /\ heap' = heap \cup { new[i] : i \in DOMAIN new }
             /\ result' = "throw"
    BY <2>2, <1>4, <1>5
  <2>3. CASE /\ target = 0
             /\ arrays' = [arrays EXCEPT ![a] = arr]
             /\ result' = "ok"
             /\ UNCHANGED heap
    BY <2>3
  <2> QED
    BY <2>1, <2>2, <2>3 DEF Resized, FirstNew, top

\* What a step does: an array grows (or shrinks), fails to, fails to be made, is
\* made without elements, stays as it is, is destroyed, or moves.
Grows(a, was, target) ==
  /\ result' = "ok" /\ target # 0
  /\ \E last, new : Become(a, was, last + 1, was.allocated_segments_, last, new)
FailsToGrow(a, was) ==
  /\ result' = "throw"
  /\ \E last, new : Become(a, was, was.allocated_segments_, was.allocated_segments_, last, new)
FailsToBe == result' = "throw" /\ arrays' = arrays /\ heap \subseteq heap' /\ heap' \subseteq Blocks
IsEmpty(a) ==
  /\ result' = "ok" /\ arrays[a] = None
  /\ arrays' = [arrays EXCEPT ![a] = Empty] /\ heap' = heap
Stays == result' = "ok" /\ arrays' = arrays /\ heap' = heap

LEMMA ResizeSteps ==
  ASSUME TypeOK, NEW a \in Arrays, NEW was \in Array, NEW target \in Nat, arrays[a] = was,
         Resized(a, was, target, FALSE), [arrays EXCEPT ![a] = was] = arrays
  PROVE  Grows(a, was, target) \/ FailsToGrow(a, was) \/ Stays
<1>1. FALSE => arrays[a] = None
  OBVIOUS
<1> QED
  BY <1>1, ResizedIsBecome DEF Grows, FailsToGrow, Stays

LEMMA Steps ==
  ASSUME TypeOK, Next
  PROVE  \/ \E a \in Arrays, was \in Array, target \in Nat : Grows(a, was, target)
         \/ \E a \in Arrays, was \in Array : FailsToGrow(a, was)
         \/ FailsToBe \/ Stays
         \/ \E a \in Arrays : IsEmpty(a) \/ Destroy(a)
         \/ \E a, b \in Arrays : Move(a, b)
<1>1. ASSUME NEW a \in Arrays, NEW target \in Targets, Construct(a, target)
      PROVE  Grows(a, Empty, target) \/ FailsToBe \/ IsEmpty(a)
  <2>1. target \in Nat /\ Empty \in Array /\ arrays[a] = None /\ Resized(a, Empty, target, TRUE)
    BY <1>1, TargetTypes, EmptyIsArray DEF Construct
  <2> QED
    BY <2>1, ResizedIsBecome DEF Grows, FailsToBe, IsEmpty
<1>2. ASSUME NEW a \in Arrays, NEW target \in Targets, resize(a, target)
      PROVE  Grows(a, arrays[a], target) \/ FailsToGrow(a, arrays[a]) \/ Stays
  <2>1. target \in Nat /\ arrays[a] \in Array /\ Resized(a, arrays[a], target, FALSE)
    BY <1>2, TargetTypes DEF resize, TypeOK
  <2>2. [arrays EXCEPT ![a] = arrays[a]] = arrays
    BY DEF TypeOK
  <2> DEFINE was == arrays[a]
  <2>3. /\ was \in Array /\ arrays[a] = was /\ Resized(a, was, target, FALSE)
        /\ [arrays EXCEPT ![a] = was] = arrays
    BY <2>1, <2>2
  <2> HIDE DEF was
  <2>5. Grows(a, was, target) \/ FailsToGrow(a, was) \/ Stays
    BY <2>1, <2>3, ResizeSteps
  <2> QED
    BY <2>5 DEF was
<1>3. \A a \in Arrays, target \in Targets : resize(a, target) => arrays[a] \in Array
  BY DEF resize, TypeOK
<1> QED
  BY <1>1, <1>2, <1>3, TargetTypes, EmptyIsArray DEF Next

\* What happens elsewhere and what moves, in terms of the arrays there are.
LEMMA IsEmptyParts ==
  ASSUME TypeOK, NEW a \in Arrays, IsEmpty(a)
  PROVE  /\ Live' = Live \cup {a} /\ a \notin Live
         /\ arrays[a]' = Empty /\ Counted(a)' = {} /\ Owned(a)' = {}
         /\ \A b \in Live : arrays[b]' = arrays[b] /\ Counted(b)' = Counted(b) /\ Owned(b)' = Owned(b)
         /\ arrays' \in [Arrays -> Array \cup {None}]
<1>1. Empty \in Array /\ Empty # None /\ Empty.allocated_segments_ = 0
  BY EmptyIsArray, NoneAssumption
<1>2. arrays[a]' = Empty /\ \A b \in Arrays : b # a => arrays[b]' = arrays[b]
  BY DEF IsEmpty, TypeOK
<1>3. a \notin Live /\ Live' = Live \cup {a}
  BY <1>1, <1>2 DEF Live, IsEmpty
<1>4. 0..(Empty.allocated_segments_ - 1) = {}
  BY <1>1
<1>5. arrays' \in [Arrays -> Array \cup {None}]
  BY <1>1 DEF IsEmpty, TypeOK
<1> QED
  BY <1>2, <1>3, <1>4, <1>5 DEF Counted, Owned, Live

LEMMA DestroyParts ==
  ASSUME TypeOK, NEW a \in Arrays, Destroy(a)
  PROVE  /\ a \in Live /\ Live' = Live \ {a}
         /\ \A b \in Live' : arrays[b]' = arrays[b] /\ Counted(b)' = Counted(b) /\ Owned(b)' = Owned(b)
         /\ arrays' \in [Arrays -> Array \cup {None}]
<1>1. arrays[a]' = None /\ \A b \in Arrays : b # a => arrays[b]' = arrays[b]
  BY DEF Destroy, TypeOK
<1>2. a \in Live /\ Live' = Live \ {a}
  BY <1>1 DEF Live, Destroy
<1>3. arrays' \in [Arrays -> Array \cup {None}]
  BY DEF Destroy, TypeOK
<1>4. \A b \in Live \ {a} : arrays[b]' = arrays[b]
  BY <1>1 DEF Live
<1>5. \A b \in Live \ {a} : Counted(b)' = Counted(b) /\ Owned(b)' = Owned(b)
  BY <1>4 DEF Counted, Owned
<1> QED
  BY <1>2, <1>3, <1>4, <1>5

LEMMA MoveParts ==
  ASSUME TypeOK, NEW a \in Arrays, NEW b \in Arrays, Move(a, b)
  PROVE  /\ a # b /\ a \in Live /\ b \notin Live /\ Live' = Live \cup {b}
         /\ Counted(a)' = {} /\ Owned(a)' = {} /\ arrays[a]'.segments_ = arrays[a].segments_
         /\ arrays[b]' = arrays[a] /\ Counted(b)' = Counted(a) /\ Owned(b)' = Owned(a)
         /\ \A c \in Live : c # a =>
              arrays[c]' = arrays[c] /\ Counted(c)' = Counted(c) /\ Owned(c)' = Owned(c)
         /\ arrays' \in [Arrays -> Array \cup {None}]
<1>1. a # b /\ a \in Live /\ b \notin Live /\ arrays[a] \in Array
  BY DEF Move, Live, TypeOK
<1> DEFINE left == Deactivated(arrays[a])
<1>2. left \in Array /\ left.allocated_segments_ = 0 /\ left.segments_ = arrays[a].segments_
  BY <1>1, Sizes DEF Deactivated, Array
<1>3. arrays' = [[arrays EXCEPT ![a] = left] EXCEPT ![b] = arrays[a]]
  BY <1>1 DEF Move, TypeOK
<1> HIDE DEF left
<1>4. /\ arrays[a]' = left /\ arrays[b]' = arrays[a]
      /\ \A c \in Arrays : c # a /\ c # b => arrays[c]' = arrays[c]
  BY <1>1, <1>3 DEF TypeOK
<1>5. left # None
  BY <1>2, NoneAssumption
<1>6. Live' = Live \cup {b}
  BY <1>1, <1>4, <1>5 DEF Live
<1>7. 0..(left.allocated_segments_ - 1) = {}
  BY <1>2
<1>8. arrays' \in [Arrays -> Array \cup {None}]
  BY <1>1, <1>2, <1>3 DEF TypeOK
<1>9. Counted(a)' = {} /\ Owned(a)' = {}
  BY <1>4, <1>7 DEF Counted, Owned
<1>10. Counted(b)' = Counted(a) /\ Owned(b)' = Owned(a)
  BY <1>4 DEF Counted, Owned
<1>11. \A c \in Live : c # a =>
         arrays[c]' = arrays[c] /\ Counted(c)' = Counted(c) /\ Owned(c)' = Owned(c)
  BY <1>1, <1>4 DEF Counted, Owned, Live
<1> QED
  BY <1>1, <1>2, <1>4, <1>6, <1>8, <1>9, <1>10, <1>11

LEMMA InitArrayInv == Init => ArrayInv
BY DEF Init, ArrayInv, TypeOK, SegmentsOK, Live

LEMMA StepArrayInv == ArrayInv /\ [Next]_vars => ArrayInv'
<1> SUFFICES ASSUME ArrayInv, [Next]_vars
             PROVE  ArrayInv'
  OBVIOUS
<1>1. TypeOK /\ SegmentsOK
  BY DEF ArrayInv
<1>2. heap \subseteq Blocks /\ \A b \in Live : \A i \in Counted(b) : arrays[b].segments_[i] \in heap
  BY <1>1 DEF TypeOK, SegmentsOK
<1>3. \A b, c \in Live : \A i \in Counted(b), j \in Counted(c) :
        arrays[b].segments_[i] = arrays[c].segments_[j] => b = c /\ i = j
  BY <1>1 DEF SegmentsOK
<1>4. ASSUME NEW a \in Arrays, NEW was \in Array, NEW target \in Nat, Grows(a, was, target)
      PROVE  ArrayInv'
  <2>1. PICK last, new : Become(a, was, last + 1, was.allocated_segments_, last, new)
    BY <1>4 DEF Grows
  <2>2. result' \in {"ok", "throw"}
    BY <1>4 DEF Grows
  <2> DEFINE count == last + 1
             first == was.allocated_segments_
  <2>3. Become(a, was, count, first, last, new)
    BY <2>1
  <2> HIDE DEF count, first
  <2> QED
    BY <2>2, <2>3, BecomeKeeps
<1>5. ASSUME NEW a \in Arrays, NEW was \in Array, FailsToGrow(a, was)
      PROVE  ArrayInv'
  <2>1. PICK last, new : Become(a, was, was.allocated_segments_, was.allocated_segments_, last, new)
    BY <1>5 DEF FailsToGrow
  <2>2. result' \in {"ok", "throw"}
    BY <1>5 DEF FailsToGrow
  <2> DEFINE first == was.allocated_segments_
  <2>3. Become(a, was, first, first, last, new)
    BY <2>1
  <2> HIDE DEF first
  <2> QED
    BY <2>2, <2>3, BecomeKeeps
<1>6. ASSUME arrays' = arrays, heap \subseteq heap', heap' \subseteq Blocks, result' \in {"ok", "throw"}
      PROVE  ArrayInv'
  BY <1>1, <1>6 DEF ArrayInv, TypeOK, SegmentsOK, Live, Counted
<1>7. ASSUME NEW a \in Arrays, IsEmpty(a)
      PROVE  ArrayInv'
  <2>1. /\ Live' = Live \cup {a} /\ Counted(a)' = {}
        /\ \A b \in Live : arrays[b]' = arrays[b] /\ Counted(b)' = Counted(b)
        /\ arrays' \in [Arrays -> Array \cup {None}]
    BY <1>1, <1>7, IsEmptyParts
  <2>2. heap' = heap /\ result' = "ok"
    BY <1>7 DEF IsEmpty
  <2>3. TypeOK'
    BY <1>1, <2>1, <2>2 DEF TypeOK
  <2>4. SegmentsOK'
    <3> SUFFICES ASSUME NEW b \in Live', NEW i \in Counted(b)'
                 PROVE  /\ arrays[b]'.segments_[i] \in heap'
                        /\ \A c \in Live' : \A j \in Counted(c)' :
                             arrays[b]'.segments_[i] = arrays[c]'.segments_[j] => b = c /\ i = j
      BY DEF SegmentsOK
    <3> QED
      BY <1>2, <1>3, <2>1, <2>2
  <2> QED
    BY <2>3, <2>4 DEF ArrayInv
<1>8. ASSUME NEW a \in Arrays, Destroy(a)
      PROVE  ArrayInv'
  <2>1. /\ a \in Live /\ Live' = Live \ {a}
        /\ \A b \in Live' : arrays[b]' = arrays[b] /\ Counted(b)' = Counted(b)
        /\ arrays' \in [Arrays -> Array \cup {None}]
    BY <1>1, <1>8, DestroyParts
  <2>2. heap' = heap \ Owned(a) /\ result' = "ok"
    BY <1>8 DEF Destroy
  <2>3. TypeOK'
    BY <1>1, <2>1, <2>2 DEF TypeOK
  <2>4. SegmentsOK'
    <3> SUFFICES ASSUME NEW b \in Live', NEW i \in Counted(b)'
                 PROVE  /\ arrays[b]'.segments_[i] \in heap'
                        /\ \A c \in Live' : \A j \in Counted(c)' :
                             arrays[b]'.segments_[i] = arrays[c]'.segments_[j] => b = c /\ i = j
      BY DEF SegmentsOK
    <3>1. arrays[b].segments_[i] \notin Owned(a)
      BY <1>3, <2>1 DEF Owned, Counted
    <3> QED
      BY <1>2, <1>3, <2>1, <2>2, <3>1
  <2> QED
    BY <2>3, <2>4 DEF ArrayInv
<1>9. ASSUME NEW a \in Arrays, NEW b \in Arrays, Move(a, b)
      PROVE  ArrayInv'
  <2>1. /\ a # b /\ a \in Live /\ b \notin Live /\ Live' = Live \cup {b}
        /\ Counted(a)' = {} /\ arrays[b]' = arrays[a] /\ Counted(b)' = Counted(a)
        /\ \A c \in Live : c # a => arrays[c]' = arrays[c] /\ Counted(c)' = Counted(c)
        /\ arrays' \in [Arrays -> Array \cup {None}]
    BY <1>1, <1>9, MoveParts
  <2>2. heap' = heap /\ result' = "ok"
    BY <1>9 DEF Move
  <2>3. TypeOK'
    BY <1>1, <2>1, <2>2 DEF TypeOK
  <2>4. SegmentsOK'
    <3> SUFFICES ASSUME NEW d \in Live', NEW i \in Counted(d)'
                 PROVE  /\ arrays[d]'.segments_[i] \in heap'
                        /\ \A c \in Live' : \A j \in Counted(c)' :
                             arrays[d]'.segments_[i] = arrays[c]'.segments_[j] => d = c /\ i = j
      BY DEF SegmentsOK
    <3>1. \A c \in Live' : \A j \in Counted(c)' :
            IF c = b THEN j \in Counted(a) /\ arrays[c]'.segments_[j] = arrays[a].segments_[j]
            ELSE c \in Live /\ c # a /\ j \in Counted(c) /\ arrays[c]'.segments_[j] = arrays[c].segments_[j]
      BY <2>1
    <3>2. \A c \in Live' : \A j \in Counted(c)' : arrays[c]'.segments_[j] \in heap'
      BY <1>2, <2>1, <2>2, <3>1
    <3> QED
      BY <1>3, <2>1, <3>1, <3>2
  <2> QED
    BY <2>3, <2>4 DEF ArrayInv
<1>10. CASE UNCHANGED vars
  BY <1>1, <1>6, <1>10 DEF vars, TypeOK
<1>11. CASE Next
  BY <1>1, <1>2, <1>11, <1>4, <1>5, <1>6, <1>7, <1>8, <1>9, Steps DEF FailsToBe, Stays
<1> QED
  BY <1>10, <1>11

\* The segments that are counted are allocated and different, always.
THEOREM ArrayInvariant == Spec => []ArrayInv
BY InitArrayInv, StepArrayInv, PTL DEF Spec

\* What the arrays, the memory and the result of a call can be.
THEOREM ArrayTypes == Spec => []TypeOK
<1>1. ArrayInv => TypeOK
  BY DEF ArrayInv
<1> QED
  BY <1>1, ArrayInvariant, PTL

LEMMA OwnedIsCounted ==
  ASSUME ArrayInv, NEW a \in Live
  PROVE  Cardinality(Owned(a)) = arrays[a].allocated_segments_
<1>1. arrays[a].allocated_segments_ \in Nat
  BY LiveIsArray, Sizes DEF ArrayInv
<1> DEFINE n == arrays[a].allocated_segments_
           S == 0..(n - 1)
           f == [i \in S |-> arrays[a].segments_[i]]
<1>2. Owned(a) = { f[i] : i \in S }
  BY DEF Owned
<1>3. \A i, j \in S : f[i] = f[j] => i = j
  <2>1. \A i, j \in S : arrays[a].segments_[i] = arrays[a].segments_[j] => i = j
    BY DEF ArrayInv, SegmentsOK, Counted
  <2> QED
    BY <2>1
<1>4. IsFiniteSet(S) /\ Cardinality(S) = n
  <2>1. 0 \in Int /\ n - 1 \in Int
    BY <1>1
  <2>2. IsFiniteSet(S) /\ Cardinality(S) = IF 0 > n - 1 THEN 0 ELSE (n - 1) - 0 + 1
    BY <2>1, FS_Interval
  <2> QED
    BY <1>1, <2>2
<1>5. DOMAIN f = S
  OBVIOUS
<1>6. f \in [S -> Owned(a)]
  BY <1>2
<1> HIDE DEF f, S, n
<1>7. f \in Bijection(S, Owned(a))
  BY <1>2, <1>3, <1>5, <1>6 DEF Bijection, Injection, Surjection, IsInjective
<1>8. Cardinality(Owned(a)) = n
  BY <1>4, <1>7, FS_Bijection DEF ExistsBijection
<1> QED
  BY <1>8 DEF n

\* Every index below size() leads to allocated memory of its own.
THEOREM IndicesAreAllocated == Spec => []IndexedIsAllocated
<1>1. ArrayInv => IndexedIsAllocated
  <2> SUFFICES ASSUME ArrayInv
               PROVE  IndexedIsAllocated
    OBVIOUS
  <2>1. \A a \in Live : Owned(a) \subseteq heap
    BY DEF ArrayInv, SegmentsOK, Owned, Counted
  <2>2. \A a, b \in Live : a # b => Owned(a) \cap Owned(b) = {}
    BY DEF ArrayInv, SegmentsOK, Owned, Counted
  <2> QED
    BY <2>1, <2>2, OwnedIsCounted DEF IndexedIsAllocated
<1> QED
  BY <1>1, ArrayInvariant, PTL

----------------------------------------------------------------------------
(* What a step may never do.                                               *)

LEMMA StepsStayInPlace ==
  ASSUME TypeOK, Next
  PROVE  \A a \in Live : arrays[a]' # None => Unmoved(a)
<1> SUFFICES ASSUME NEW c \in Live, arrays[c]' # None
             PROVE  Unmoved(c)
  OBVIOUS
<1>1. ASSUME NEW a, NEW was, NEW count, NEW last, NEW new,
             Become(a, was, count, was.allocated_segments_, last, new)
      PROVE  Unmoved(c)
  <2> DEFINE first == was.allocated_segments_
  <2>1. Become(a, was, count, first, last, new)
    BY <1>1
  <2>2. arrays[a] = was \/ a \notin Live
    BY <2>1 DEF Become, Live
  <2> HIDE DEF first
  <2>3. /\ \A b \in Live' : b # a => b \in Live /\ arrays[b]' = arrays[b]
        /\ Live' = Live \cup {a}
        /\ \A i \in 0..(first - 1) : arrays[a]'.segments_[i] = was.segments_[i]
    BY <2>1, BecomeParts
  <2>4. CASE c # a
    BY <2>3, <2>4 DEF Unmoved
  <2>5. CASE c = a
    BY <2>2, <2>3, <2>5 DEF Unmoved, first
  <2> QED
    BY <2>4, <2>5
<1>2. ASSUME NEW a \in Arrays, NEW was \in Array, NEW target \in Nat, Grows(a, was, target)
      PROVE  Unmoved(c)
  BY <1>1, <1>2 DEF Grows
<1>3. ASSUME NEW a \in Arrays, NEW was \in Array, FailsToGrow(a, was)
      PROVE  Unmoved(c)
  BY <1>1, <1>3 DEF FailsToGrow
<1>4. CASE arrays' = arrays
  BY <1>4 DEF Unmoved
<1>5. ASSUME NEW a \in Arrays, IsEmpty(a)
      PROVE  Unmoved(c)
  <2>1. arrays[c]' = arrays[c]
    BY <1>5, IsEmptyParts
  <2> QED
    BY <2>1 DEF Unmoved
<1>6. ASSUME NEW a \in Arrays, Destroy(a)
      PROVE  Unmoved(c)
  <2>1. c \in Live'
    BY DEF Live
  <2>2. arrays[c]' = arrays[c]
    BY <1>6, <2>1, DestroyParts
  <2> QED
    BY <2>2 DEF Unmoved
<1>7. ASSUME NEW a \in Arrays, NEW b \in Arrays, Move(a, b)
      PROVE  Unmoved(c)
  <2>1. arrays[c]'.segments_ = arrays[c].segments_
    BY <1>7, MoveParts
  <2> QED
    BY <2>1 DEF Unmoved
<1> QED
  BY <1>2, <1>3, <1>4, <1>5, <1>6, <1>7, Steps DEF FailsToBe, Stays

\* An element that is counted stays at its address in every step that leaves its
\* array there: whoever has found a lock still has the lock.
THEOREM LocksStayInPlace == Spec => GrowsInPlace
<1>1. ArrayInv /\ [Next]_vars => [\A a \in Live : arrays[a]' # None => Unmoved(a)]_vars
  BY StepsStayInPlace DEF ArrayInv
<1> QED
  BY <1>1, ArrayInvariant, PTL DEF Spec, GrowsInPlace

LEMMA StepsLoseNothing ==
  ASSUME ArrayInv, Next, result' = "ok", ~Shrinks
  PROVE  Lost' \subseteq Lost
<1>1. TypeOK
  BY DEF ArrayInv
<1> SUFFICES ASSUME NEW x \in heap', \A b \in Live' : x \notin Owned(b)'
             PROVE  x \in Lost
  BY DEF Lost
<1>2. x \in heap /\ (\A b \in Live : x \notin Owned(b)) => x \in Lost
  BY DEF Lost
<1>3. ASSUME NEW a \in Arrays, NEW was \in Array, NEW target \in Nat, Grows(a, was, target)
      PROVE  x \in Lost
  <2>1. PICK last, new : Become(a, was, last + 1, was.allocated_segments_, last, new)
    BY <1>3 DEF Grows
  <2> DEFINE first == was.allocated_segments_
             count == last + 1
  <2>2. Become(a, was, count, first, last, new) /\ (arrays[a] = was \/ a \notin Live)
        /\ count = last + 1 /\ first = was.allocated_segments_
    BY <2>1 DEF Become, Live
  <2> HIDE DEF first, count
  <2>3. /\ first \in 0..NUM_SEGMENTS /\ last \in Int
        /\ a \in Live' /\ Live' = Live \cup {a}
        /\ \A b \in Live' : b # a => b \in Live /\ arrays[b]' = arrays[b]
        /\ arrays[a]'.allocated_segments_ = count
        /\ \A i \in 0..(first - 1) : arrays[a]'.segments_[i] = was.segments_[i]
        /\ \A i \in first..last : arrays[a]'.segments_[i] = new[i]
        /\ heap' = heap \cup { new[i] : i \in first..last }
    BY <1>1, <2>2, BecomeParts
  <2>4. \A i \in 0..last : x # arrays[a]'.segments_[i]
    BY <2>2, <2>3 DEF Owned
  <2>5. x \in heap
    <3>1. ASSUME NEW i \in first..last, x = new[i]
          PROVE  FALSE
      BY <2>3, <2>4, <3>1, Sizes
    <3> QED
      BY <2>3, <3>1
  <2>6. \A b \in Live : b # a => x \notin Owned(b)
    BY <2>3 DEF Owned
  <2>7. ~ (a \in Live /\ x \in Owned(a))
    <3> SUFFICES ASSUME a \in Live, x \in Owned(a) PROVE FALSE
      OBVIOUS
    <3>1. PICK i \in 0..(first - 1) : x = was.segments_[i]
      BY <2>2 DEF Owned
    <3>2. i \notin 0..last
      BY <2>3, <2>4, <3>1
    <3>3. i \in count..(first - 1)
      BY <2>2, <2>3, <3>1, <3>2, Sizes
    <3>4. Live' = Live /\ arrays[a] = was
      BY <2>2, <2>3
    <3>5. count < first /\ arrays[a].allocated_segments_ = first
      BY <2>2, <2>3, <3>3, <3>4
    <3> QED
      BY <2>3, <3>4, <3>5 DEF Shrinks
  <2> QED
    BY <1>2, <2>5, <2>6, <2>7
<1>4. CASE Stays
  BY <1>2, <1>4 DEF Stays, Live, Owned
<1>5. ASSUME NEW a \in Arrays, IsEmpty(a)
      PROVE  x \in Lost
  <2>1. heap' = heap
    BY <1>5 DEF IsEmpty
  <2> QED
    BY <1>1, <1>2, <1>5, <2>1, IsEmptyParts
<1>6. ASSUME NEW a \in Arrays, Destroy(a)
      PROVE  x \in Lost
  <2>1. heap' = heap \ Owned(a)
    BY <1>6 DEF Destroy
  <2> QED
    BY <1>1, <1>2, <1>6, <2>1, DestroyParts
<1>7. ASSUME NEW a \in Arrays, NEW b \in Arrays, Move(a, b)
      PROVE  x \in Lost
  <2>1. heap' = heap
    BY <1>7 DEF Move
  <2> QED
    BY <1>1, <1>2, <1>7, <2>1, MoveParts
<1>8. ~FailsToBe /\ \A a \in Arrays, was \in Array : ~FailsToGrow(a, was)
  BY DEF FailsToBe, FailsToGrow
<1> QED
  BY <1>1, <1>3, <1>4, <1>5, <1>6, <1>7, <1>8, Steps

\* A call that succeeds and does not shrink the array loses no block, whatever
\* was made, resized, moved or destroyed before, or failed.
THEOREM BlocksAreKept == Spec => GrowthLosesNothing
<1>1. ArrayInv /\ [Next]_vars => [result' = "ok" /\ ~Shrinks => Lost' \subseteq Lost]_vars
  BY StepsLoseNothing
<1> QED
  BY <1>1, ArrayInvariant, PTL DEF Spec, GrowthLosesNothing
=============================================================================
