------------------------- MODULE CuckooDict_proofs -------------------------
(***************************************************************************)
(* The items of the hash table, proved for every hash function and every   *)
(* number of threads, keys, slots and locks.                               *)
(*                                                                         *)
(* The first part is about where they are: DataInv is inductive together   *)
(* with IndInv, and Placement, NoDuplicates and the assertions of the code *)
(* follow from it.                                                         *)
(*                                                                         *)
(* The second part is about what they are: the hash table implements an    *)
(* atomic dictionary (Linearizable), since each step of CuckooMap is a     *)
(* step of AtomicMap or changes nothing of what AtomicMap sees.  What moves*)
(* and splits do to the entries also gives that the elem_counters add up   *)
(* to their number (SizeExact).                                            *)
(***************************************************************************)
EXTENDS CuckooMap_proofs, FiniteSums

----------------------------------------------------------------------------
(* The index functions.                                                    *)

\* The other bucket of the other bucket is the bucket itself, whatever the
\* multiplier of alt_index.
LEMMA AltInverse ==
  ASSUME NEW hp, NEW tag, NEW b \in Buckets(hp)
  PROVE  alt_index(hp, tag, alt_index(hp, tag, b)) = b
BY DEF alt_index, Buckets, Xor

\* From either bucket of a hash alt_index leads to the other one.
LEMMA OtherBucket ==
  ASSUME NEW hp, NEW hv, NEW b \in BucketsOf(hp, hv)
  PROVE  /\ b \in Buckets(hp)
         /\ BucketsOf(hp, hv) = {b, alt_index(hp, partial_key(hv), b)}
BY AltInverse, IndexTypes DEF BucketsOf

\* When a table doubles each of the two buckets of a hash either stays or
\* becomes the one hashsize(hp) later.
LEMMA Grown ==
  ASSUME NEW hp \in Nat, NEW hv
  PROVE  /\ index_hash(hp + 1, hv) \in {index_hash(hp, hv), index_hash(hp, hv) \cup {hp}}
         /\ \A tag :
              LET old == alt_index(hp, tag, index_hash(hp, hv))
              IN  alt_index(hp + 1, tag, index_hash(hp + 1, hv)) \in {old, old \cup {hp}}
<1>1. hashmask(hp + 1) = hashmask(hp) \cup {hp} /\ hp \notin hashmask(hp)
  BY DEF hashmask, Bits
<1>2. \A w : w \cap hashmask(hp + 1) \in {w \cap hashmask(hp), (w \cap hashmask(hp)) \cup {hp}}
  BY <1>1
<1>3. ASSUME NEW tag
      PROVE  Xor(index_hash(hp + 1, hv), Mix[tag]) \cap hashmask(hp)
               = Xor(index_hash(hp, hv), Mix[tag]) \cap hashmask(hp)
  BY <1>1 DEF Xor, index_hash
<1> QED
  BY <1>2, <1>3 DEF index_hash, alt_index

LEMMA NewBucket ==
  ASSUME NEW hp \in Nat, NEW b \in Buckets(hp)
  PROVE  b \in Buckets(hp + 1) /\ b \cup {hp} \in Buckets(hp + 1) /\ hp \notin b
BY DEF Buckets, hashmask, Bits

\* The new bucket of an old one has the same lock, or one no old bucket has.
LEMMA NewLock ==
  ASSUME NEW hp \in Nat, NEW b \in Buckets(hp)
  PROVE  /\ lock_ind(b) \in locks_to_move(hp)
         /\ \/ lock_ind(b \cup {hp}) = lock_ind(b)
            \/ lock_ind(b \cup {hp}) \in Locks \ locks_to_move(hp)
<1>1. hp \notin hashmask(hp)
  BY DEF hashmask, Bits
<1> QED
  BY <1>1, IndexTypes DEF lock_ind, locks_to_move, Buckets

----------------------------------------------------------------------------
(* What a step leaves alone.                                               *)

\* A step of thread t changes what the other threads do only through the table.
LEMMA StepLeavesOthers ==
  ASSUME IndInv, NEW t \in Threads, (\E r \in Requests : Call(t, r)) \/ Step(t)
  PROVE  \A u \in Threads \ {t} : LeavesAlone(u)
<1> USE DEF LeavesAlone, Goto, Finish, IndInv, TypeOK, PathTypes
<1>1. CASE \E r \in Requests : Call(t, r)
  BY <1>1 DEF Call
<1>2. CASE Snapshot(t) \/ HashpowerChanged(t) \/ Return(t)
  BY <1>2 DEF Snapshot, HashpowerChanged, Return
<1>3. CASE LockBucket(t) \/ LockAll(t)
  BY <1>3 DEF LockBucket, LockAll, TakeLowest
<1>4. CASE Operate(t) \/ Place(t)
  BY <1>4 DEF Operate, Find, Erase, Update, Insert, CopyThrows, Place, OnDuplicate, add_to_bucket
<1>5. CASE RunCuckoo(t) \/ MoveFails(t) \/ NothingToMove(t)
  BY <1>5 DEF RunCuckoo, MoveFails, NothingToMove, StartSearch
<1>6. CASE SlotSearch(t)
  BY <1>6 DEF SlotSearch
<1>7. CASE Fill(t)
  BY <1>7 DEF Fill, StartMove
<1>8. CASE Move(t)
  BY <1>8 DEF Move, StartMove
<1>9. CASE ScanCounter(t)
  BY <1>9 DEF ScanCounter
<1>10. CASE LockExpansion(t) \/ CheckResize(t) \/ Double(t) \/ DoubleThrows(t) \/ Expanded(t)
  BY <1>10 DEF LockExpansion, CheckResize, Double, DoubleThrows, Expanded
<1>11. CASE MoveBuckets(t) \/ UnlockNew(t)
  BY <1>11 DEF MoveBuckets, UnlockNew, threads
<1> QED
  BY <1>1, <1>2, <1>3, <1>4, <1>5, <1>6, <1>7, <1>8, <1>9, <1>10, <1>11 DEF Step, Cuckoo, Expand

\* Which buckets are still to be split does not change.
LEMMA UnsplitSame ==
  ASSUME NEW t \in Threads, \A u \in Threads \ {t} : LeavesAlone(u),
         pc[t] # "split", pc'[t] # "split"
  PROVE  \A b : Unsplit(b)' = Unsplit(b)
BY DEF Unsplit, LeavesAlone

\* The lock of a bucket that is still to be split is held by the thread that
\* splits.
LEMMA UnsplitIsLocked ==
  ASSUME IndInv, NEW b, Unsplit(b)
  PROVE  \E u \in Threads : pc[u] = "split" /\ locks[lock_ind(b)] = u
<1>1. PICK u \in Threads : pc[u] = "split" /\ lock_ind(b) \in want[u]
  BY DEF Unsplit
<1> QED
  BY <1>1 DEF IndInv, ExpansionOK, LocksHeld

\* Another thread's step leaves the freed slot and the new buckets alone.
LEMMA OthersData ==
  ASSUME IndInv, DataInv, NEW t \in Threads, NEW u \in Threads \ {t},
         LeavesAlone(u), WritesLocked(t)
  PROVE  PathOK(u)' /\ NewAreEmpty(u)'
<1>1. ASSUME NEW b \in DOMAIN buckets, locks[lock_ind(b)] = u
      PROVE  buckets'[b] = buckets[b]
  BY <1>1 DEF WritesLocked
<1>2. DOMAIN buckets = Buckets(hashpower)
  BY DEF IndInv, TypeOK
<1>3. PathOK(u) /\ NewAreEmpty(u)
  BY DEF DataInv
<1>4. ASSUME pc[u] = "place"
      PROVE  buckets'[path[u][1].bucket] = buckets[path[u][1].bucket]
  <2>1. path[u][1].bucket \in {first(u), second(u)} /\ Len(path[u]) = 1
    BY <1>4 DEF IndInv, RequestOK
  <2>2. path[u][1].bucket \in Buckets(hashpower)
    BY <1>4, <2>1, SnapIsCurrent
  <2> QED
    BY <1>1, <1>2, <1>4, <2>1, <2>2, HoldsBoth
<1>5. PathOK(u)'
  BY <1>3, <1>4 DEF PathOK, LeavesAlone, occupied
<1>6. ASSUME pc[u] = "split", NEW b \in Buckets(snap[u]), lock_ind(b) \in want[u]
      PROVE  buckets'[b \cup {snap[u]}] = buckets[b \cup {snap[u]}]
  <2>1. /\ hashpower = snap[u] + 1 /\ snap[u] \in Nat
        /\ want[u] \cup (Locks \ locks_to_move(snap[u])) \subseteq LocksHeld(u)
    BY <1>6 DEF IndInv, TypeOK, ExpansionOK
  <2>2. b \cup {snap[u]} \in Buckets(hashpower)
    BY <1>6, <2>1, NewBucket
  <2>3. lock_ind(b \cup {snap[u]}) \in LocksHeld(u)
    BY <1>6, <2>1, NewLock
  <2> QED
    BY <1>1, <1>2, <2>2, <2>3 DEF LocksHeld
<1>7. NewAreEmpty(u)'
  BY <1>3, <1>6 DEF NewAreEmpty, LeavesAlone, occupied
<1> QED
  BY <1>5, <1>7

----------------------------------------------------------------------------
(* What a thread sees under the locks of its key's buckets.                *)

LEMMA KeyBuckets ==
  ASSUME IndInv, NEW t \in Threads, pc[t] \in {"critical", "move", "place"}
  PROVE  BucketsOf(hashpower, Hash[req[t].key]) = {first(t), second(t)}
BY SnapIsCurrent DEF BucketsOf, first, second

LEMMA LockedIsSplit ==
  ASSUME IndInv, NEW b,
         locks[lock_ind(b)] = None \/ \E t \in Threads : locks[lock_ind(b)] = t /\ pc[t] # "split"
  PROVE  ~Unsplit(b)
BY UnsplitIsLocked, MapAssumption

\* An item with the thread's key is in one of the two buckets it has locked,
\* even while another thread splits the table's buckets.
LEMMA InPlace ==
  ASSUME IndInv, Placement, NEW t \in Threads, pc[t] \in {"critical", "place"},
         NEW p \in Positions, KeyAt(p) = req[t].key
  PROVE  p[1] \in {first(t), second(t)}
<1>1. ASSUME NEW b \in {first(t), second(t)} PROVE locks[lock_ind(b)] = t
  BY <1>1, HoldsBoth DEF IndInv, RequestOK
<1>2. CASE ~Unsplit(p[1])
  BY <1>2, KeyBuckets DEF Placement
<1>3. CASE Unsplit(p[1])
  <2>1. PICK u \in Threads : pc[u] = "split" /\ lock_ind(p[1]) \in want[u]
    BY <1>3 DEF Unsplit
  <2> DEFINE hp == snap[u]
             hv == Hash[req[t].key]
  <2>2. /\ hp \in Nat /\ hashpower = hp + 1
        /\ want[u] \cup (Locks \ locks_to_move(hp)) \subseteq LocksHeld(u)
    BY <2>1 DEF IndInv, TypeOK, ExpansionOK
  <2>3. p[1] \in BucketsOf(hp, hv)
    BY <1>3, <2>2 DEF Placement
  <2>4. p[1] \in Buckets(hp)
    BY <2>3, OtherBucket
  <2>5. PICK c \in BucketsOf(hp + 1, hv) : c \in {p[1], p[1] \cup {hp}}
    BY <2>2, <2>3, Grown DEF BucketsOf
  <2>6. locks[lock_ind(c)] = t
    BY <1>1, <2>2, <2>5, KeyBuckets
  <2>7. lock_ind(c) \in LocksHeld(u)
    BY <2>1, <2>2, <2>4, <2>5, NewLock
  <2> QED
    BY <2>1, <2>6, <2>7 DEF LocksHeld
<1> QED
  BY <1>2, <1>3

\* What cuckoo_find returns is an item with the key ...
LEMMA Found ==
  ASSUME IndInv, NEW t \in Threads, pc[t] \in {"critical", "move", "place"},
         NEW p \in cuckoo_find(t)
  PROVE  /\ p \in Positions /\ KeyAt(p) = req[t].key
         /\ p[1] \in {first(t), second(t)} /\ p[2] \in Slots /\ p = <<p[1], p[2]>>
BY SnapIsCurrent DEF cuckoo_find, SlotsOf, Positions, KeyAt

\* ... and if it finds none, there is none in the table.
LEMMA NotFound ==
  ASSUME IndInv, Placement, NEW t \in Threads, pc[t] \in {"critical", "place"},
         cuckoo_find(t) = {}
  PROVE  \A p \in Positions : KeyAt(p) # req[t].key
<1> SUFFICES ASSUME NEW p \in Positions, KeyAt(p) = req[t].key PROVE FALSE
  OBVIOUS
<1> DEFINE b == IF SlotsOf(req[t].key, first(t)) # {} THEN first(t) ELSE second(t)
           S == SlotsOf(req[t].key, b)
<1>1. p[1] \in {first(t), second(t)}
  BY InPlace
<1>2. p[2] \in SlotsOf(req[t].key, p[1])
  BY DEF Positions, KeyAt, SlotsOf
<1>3. S # {}
  BY <1>1, <1>2
<1>4. S \in SUBSET Int /\ IsFiniteSet(S)
  <2>1. S \subseteq 0 .. SlotPerBucket - 1
    BY DEF SlotsOf, Slots
  <2>2. IsFiniteSet(0 .. SlotPerBucket - 1)
    BY FS_Interval, MapAssumption
  <2>3. \A n : n \in 0 .. SlotPerBucket - 1 => n \in Int
    BY MapAssumption
  <2> HIDE DEF S
  <2> QED
    BY <2>1, <2>2, <2>3, FS_Subset
<1>5. PICK n \in S : \A m \in S : n <= m
  <2> HIDE DEF S
  <2> QED
    BY <1>3, <1>4, LeastNumber
<1>6. <<b, n>> \in cuckoo_find(t)
  BY <1>5 DEF cuckoo_find
<1> QED
  BY <1>6

----------------------------------------------------------------------------
(* Steps that change no bucket.                                            *)

\* What has to be shown of a step of thread t.
LEMMA DataFrom ==
  ASSUME IndInv, DataInv, NEW t \in Threads, WritesLocked(t),
         \A u \in Threads \ {t} : LeavesAlone(u),
         Placement', NoDuplicates', PathOK(t)', NewAreEmpty(t)'
  PROVE  DataInv'
<1>1. \A u \in Threads \ {t} : PathOK(u)' /\ NewAreEmpty(u)'
  BY OthersData
<1> QED
  BY <1>1 DEF DataInv

LEMMA SameItems ==
  ASSUME UNCHANGED <<buckets, hashpower>>
  PROVE  Positions' = Positions /\ \A p : KeyAt(p)' = KeyAt(p)
BY DEF Positions, KeyAt, occupied

LEMMA SamePlaces ==
  ASSUME Placement, NoDuplicates, UNCHANGED <<buckets, hashpower>>,
         \A b : Unsplit(b)' = Unsplit(b)
  PROVE  Placement' /\ NoDuplicates'
<1>1. Placement'
  BY SameItems DEF Placement
<1>2. NoDuplicates'
  BY SameItems DEF NoDuplicates
<1> QED
  BY <1>1, <1>2

\* A path that stays as it is, and one that is given up.
LEMMA PathKept ==
  ASSUME NEW t \in Threads, PathOK(t),
         path'[t] = path[t], snap'[t] = snap[t], pc'[t] \notin {"fill", "place"}
  PROVE  PathOK(t)'
BY DEF PathOK

LEMMA PathGone ==
  ASSUME NEW t \in Threads, path'[t] = <<>>, pc'[t] # "place"
  PROVE  PathOK(t)'
BY DEF PathOK

LEMMA QuietKeeps ==
  ASSUME IndInv, DataInv, NEW t \in Threads, WritesLocked(t),
         \A u \in Threads \ {t} : LeavesAlone(u),
         UNCHANGED <<buckets, hashpower>>, pc[t] # "split", pc'[t] # "split",
         PathOK(t)'
  PROVE  DataInv'
<1>1. Placement' /\ NoDuplicates'
  BY SamePlaces, UnsplitSame DEF DataInv
<1>2. NewAreEmpty(t)'
  BY DEF NewAreEmpty
<1> QED
  BY <1>1, <1>2, DataFrom

----------------------------------------------------------------------------
(* Operations under the locks of the key's buckets.                        *)

\* The content of a slot after another one was written.
LEMMA PutSlot ==
  ASSUME TypeOK, NEW b \in Buckets(hashpower), NEW s \in Slots, NEW e, Put(b, s, e)
  PROVE  \A c \in Buckets(hashpower), r \in Slots :
           buckets'[c][r] = IF c = b /\ r = s THEN e ELSE buckets[c][r]
BY DEF TypeOK, Put

LEMMA PutKeeps ==
  ASSUME IndInv, Placement, NoDuplicates, NEW t \in Threads,
         pc[t] \in {"critical", "place"}, pc'[t] # "split", hashpower' = hashpower,
         \A u \in Threads \ {t} : LeavesAlone(u),
         NEW b \in {first(t), second(t)}, NEW s \in Slots, NEW e, Put(b, s, e),
         \/ e = Free
         \/ /\ e.key = req[t].key
            /\ \A p \in Positions : KeyAt(p) = req[t].key => p = <<b, s>>
  PROVE  Placement' /\ NoDuplicates'
<1>1. b \in Buckets(hashpower) /\ b \in BucketsOf(hashpower, Hash[req[t].key])
  BY SnapIsCurrent, KeyBuckets
<1>2. ASSUME NEW p \in Positions'
      PROVE  \/ p = <<b, s>> /\ e # Free /\ KeyAt(p)' = e.key
             \/ p # <<b, s>> /\ p \in Positions /\ KeyAt(p)' = KeyAt(p)
  <2>1. p \in Buckets(hashpower) \X Slots /\ buckets'[p[1]][p[2]] # Free
    BY <1>2 DEF Positions, occupied
  <2> QED
    BY <1>1, <2>1, PutSlot DEF IndInv, Positions, occupied, KeyAt
<1>3. ~Unsplit(b)
  <2>1. locks[lock_ind(b)] = t
    BY HoldsBoth DEF IndInv, RequestOK
  <2> QED
    BY <2>1, LockedIsSplit
<1>4. \A c : Unsplit(c)' = Unsplit(c)
  BY UnsplitSame
<1>5. Placement'
  BY <1>1, <1>2, <1>3, <1>4 DEF Placement
<1>6. NoDuplicates'
  BY <1>2 DEF NoDuplicates
<1> QED
  BY <1>5, <1>6

\* What has to be shown of an operation that ends, with or without a write.
LEMMA EndKeeps ==
  ASSUME IndInv, DataInv, NEW t \in Threads, WritesLocked(t),
         \A u \in Threads \ {t} : LeavesAlone(u),
         pc[t] \in {"critical", "place"}, pc'[t] = "return", UNCHANGED <<hashpower, path, snap>>,
         \/ buckets' = buckets
         \/ Placement' /\ NoDuplicates'
  PROVE  DataInv'
<1>1. PathOK(t)'
  BY PathKept DEF DataInv
<1>2. NewAreEmpty(t)'
  BY DEF NewAreEmpty
<1> QED
  BY <1>1, <1>2, DataFrom, QuietKeeps

\* The position cuckoo_find returns is the only one of the key.
LEMMA FoundIsOnly ==
  ASSUME IndInv, NoDuplicates, NEW t \in Threads, pc[t] \in {"critical", "move", "place"},
         NEW p \in cuckoo_find(t)
  PROVE  \A q \in Positions : KeyAt(q) = req[t].key => q = <<p[1], p[2]>>
BY Found DEF NoDuplicates

LEMMA FreeType ==
  ASSUME IndInv, NEW t \in Threads, pc[t] \in {"critical", "move", "place"},
         NEW p \in FreePosition(t)
  PROVE  p[1] \in {first(t), second(t)} /\ p[2] \in Slots
BY DEF FreePosition, FreeSlots

LEMMA FinishPC ==
  ASSUME TypeOK, NEW t \in Threads, NEW r, Finish(t, r)
  PROVE  pc'[t] = "return"
BY DEF TypeOK, Finish, Goto

LEMMA NewEntryKey ==
  ASSUME NEW t
  PROVE  NewEntry(t).key = req[t].key
BY DEF NewEntry

\* An insert that finds the key ends, and so does one that adds it to a slot
\* of its buckets.
LEMMA InsertData ==
  ASSUME IndInv, DataInv, NEW t \in Threads, WritesLocked(t),
         \A u \in Threads \ {t} : LeavesAlone(u),
         pc[t] \in {"critical", "place"}, UNCHANGED <<hashpower, path, snap>>,
         \/ OnDuplicate(t)
         \/ \E b \in {first(t), second(t)}, s \in Slots : add_to_bucket(t, b, s)
  PROVE  DataInv'
<1>1. Placement /\ NoDuplicates
  BY DEF DataInv
<1>2. pc'[t] = "return"
  BY FinishPC DEF OnDuplicate, add_to_bucket, IndInv
<1>3. CASE OnDuplicate(t)
  <2>1. PICK p \in cuckoo_find(t) :
          IF req[t].op = "upsert" THEN Put(p[1], p[2], NewEntry(t)) ELSE UNCHANGED buckets
    BY <1>3 DEF OnDuplicate
  <2>2. CASE Put(p[1], p[2], NewEntry(t))
    BY <1>1, <1>2, <2>2, Found, FoundIsOnly, NewEntryKey, PutKeeps, EndKeeps
  <2> QED
    BY <1>2, <2>1, <2>2, EndKeeps
<1>4. ASSUME NEW b \in {first(t), second(t)}, NEW s \in Slots, add_to_bucket(t, b, s)
      PROVE  DataInv'
  <2>1. cuckoo_find(t) = {} /\ Put(b, s, NewEntry(t))
    BY <1>4 DEF add_to_bucket
  <2>2. \A p \in Positions : KeyAt(p) # req[t].key
    BY <1>1, <2>1, NotFound
  <2> QED
    BY <1>1, <1>2, <2>1, <2>2, NewEntryKey, PutKeeps, EndKeeps
<1> QED
  BY <1>3, <1>4

LEMMA OperateData ==
  ASSUME IndInv, DataInv, NEW t \in Threads, WritesLocked(t),
         \A u \in Threads \ {t} : LeavesAlone(u), Operate(t)
  PROVE  DataInv'
<1>1. Placement /\ NoDuplicates
  BY DEF DataInv
<1>2. CASE Find(t) \/ CopyThrows(t)
  <2>1. pc'[t] = "return"
    BY <1>2, FinishPC DEF Find, CopyThrows, IndInv
  <2> QED
    BY <1>2, <2>1, EndKeeps DEF Find, CopyThrows, InCritical
<1>3. CASE Erase(t)
  <2>1. pc'[t] = "return" /\ pc[t] = "critical" /\ UNCHANGED <<hashpower, path, snap>>
    BY <1>3, FinishPC DEF Erase, InCritical, IndInv
  <2>2. ASSUME NEW p \in cuckoo_find(t), Put(p[1], p[2], Free) PROVE DataInv'
    BY <1>1, <2>1, <2>2, Found, PutKeeps, EndKeeps
  <2> QED
    BY <1>3, <2>1, <2>2, EndKeeps DEF Erase
<1>4. CASE Update(t)
  <2>1. pc'[t] = "return" /\ pc[t] = "critical" /\ UNCHANGED <<hashpower, path, snap>>
    BY <1>4, FinishPC DEF Update, InCritical, IndInv
  <2>2. ASSUME NEW p \in cuckoo_find(t), Put(p[1], p[2], NewEntry(t)) PROVE DataInv'
    BY <1>1, <2>1, <2>2, Found, FoundIsOnly, NewEntryKey, PutKeeps, EndKeeps
  <2> QED
    BY <1>4, <2>1, <2>2, EndKeeps DEF Update
<1>5. CASE Insert(t)
  BY <1>5, FreeType, InsertData DEF Insert, Inserting
<1> QED
  BY <1>2, <1>3, <1>4, <1>5 DEF Operate

LEMMA RecordType ==
  ASSUME IndInv, NEW t \in Threads
  PROVE  /\ path[t] \in Seq(CuckooRecord(snap[t])) /\ Len(path[t]) \in Nat
         /\ \A i \in 1 .. Len(path[t]) : path[t][i] \in CuckooRecord(snap[t])
<1>1. path[t] \in Seq(CuckooRecord(snap[t]))
  BY DEF IndInv, TypeOK, PathTypes
<1> HIDE DEF CuckooRecord
<1> QED
  BY <1>1

LEMMA PlaceData ==
  ASSUME IndInv, DataInv, NEW t \in Threads, WritesLocked(t),
         \A u \in Threads \ {t} : LeavesAlone(u), Place(t)
  PROVE  DataInv'
<1>1. pc[t] = "place" /\ Len(path[t]) = 1 /\ path[t][1].bucket \in {first(t), second(t)}
  BY DEF Place, IndInv, RequestOK
<1>2. path[t][1].slot \in Slots
  <2>1. path[t][1] \in CuckooRecord(snap[t])
    BY <1>1, RecordType
  <2> QED
    BY <2>1 DEF CuckooRecord
<1> QED
  BY <1>1, <1>2, InsertData DEF Place

----------------------------------------------------------------------------
(* The search for a path and the moves along it.                           *)

LEMMA SearchData ==
  ASSUME IndInv, DataInv, NEW t \in Threads, WritesLocked(t),
         \A u \in Threads \ {t} : LeavesAlone(u),
         RunCuckoo(t) \/ SlotSearch(t) \/ MoveFails(t)
  PROVE  DataInv'
<1> USE DEF StartSearch, Goto
<1>1. CASE RunCuckoo(t) \/ MoveFails(t)
  <2>1. path'[t] = <<>> /\ pc'[t] = "search" /\ pc[t] \in {"critical", "move"}
    BY <1>1 DEF RunCuckoo, Inserting, MoveFails, IndInv, TypeOK, PathTypes
  <2>2. UNCHANGED <<buckets, hashpower>>
    BY <1>1 DEF RunCuckoo, MoveFails, table
  <2> QED
    BY <2>1, <2>2, PathGone, QuietKeeps
<1>2. CASE SlotSearch(t)
  <2>1. /\ pc[t] = "search" /\ pc'[t] \in {"search", "fill", "expand"}
        /\ UNCHANGED <<buckets, hashpower, path>>
    BY <1>2 DEF SlotSearch, IndInv, TypeOK, table
  <2>2. path'[t] = <<>>
    BY <2>1 DEF IndInv, RequestOK
  <2> QED
    BY <2>1, <2>2, PathGone, QuietKeeps
<1> QED
  BY <1>1, <1>2

LEMMA NothingToMoveData ==
  ASSUME IndInv, DataInv, NEW t \in Threads, WritesLocked(t),
         \A u \in Threads \ {t} : LeavesAlone(u), NothingToMove(t)
  PROVE  DataInv'
<1>1. /\ pc[t] = "move" /\ pc'[t] = "place" /\ Len(path[t]) = 1 /\ ~Stale(path[t])
      /\ UNCHANGED <<buckets, hashpower, path, snap>>
  BY DEF NothingToMove, Goto, IndInv, TypeOK, table
<1>2. ~occupied(path[t][1].bucket, path[t][1].slot)
  BY <1>1 DEF Stale
<1>3. PathOK(t)'
  BY <1>1, <1>2 DEF DataInv, PathOK, occupied
<1> QED
  BY <1>1, <1>3, QuietKeeps

LEMMA FillData ==
  ASSUME IndInv, DataInv, NEW t \in Threads, WritesLocked(t),
         \A u \in Threads \ {t} : LeavesAlone(u), Fill(t)
  PROVE  DataInv'
<1> DEFINE b == FillBucket(t)
           slot == bfs[t].slots[Len(path[t]) + 1]
           hash == IF occupied(b, slot) THEN Hash[buckets[b][slot].key] ELSE {}
           rec == [bucket |-> b, slot |-> slot, hash |-> hash]
           p == Append(path[t], rec)
           n == Len(path[t])
<1>1. /\ pc[t] = "fill" /\ hashpower = snap[t] /\ locks[lock_ind(b)] = None
      /\ UNCHANGED <<buckets, hashpower, snap>>
      /\ bfs[t] \in Pathcode /\ n < Len(bfs[t].slots)
  BY DEF Fill, table, IndInv, RequestOK
<1>2. path'[t] = p /\ (pc'[t] = "lock" \/ (pc'[t] = "fill" /\ occupied(b, slot)))
  BY <1>1 DEF Fill, StartMove, Goto, IndInv, TypeOK, PathTypes
<1>3. slot \in Slots
  BY <1>1, RecordType DEF Pathcode
<1>4. b \in Buckets(hashpower)
  BY <1>1, IndexTypes, WantedAreLocks DEF FillBucket
<1>5. occupied(b, slot) => b \in BucketsOf(snap[t], hash)
  <2>1. ~Unsplit(b)
    BY <1>1, LockedIsSplit
  <2>2. occupied(b, slot) => <<b, slot>> \in Positions
    BY <1>3, <1>4 DEF Positions
  <2>3. occupied(b, slot) => b \in BucketsOf(hashpower, Hash[KeyAt(<<b, slot>>)])
    BY <2>1, <2>2 DEF DataInv, Placement
  <2> QED
    BY <1>1, <2>3 DEF KeyAt
<1>6. n > 0 => b = alt_index(snap[t], partial_key(path[t][n].hash), path[t][n].bucket)
  <2>1. n > 0 => path[t] # <<>>
    OBVIOUS
  <2> QED
    BY <2>1 DEF FillBucket
<1>7. n \in Nat /\ Len(p) = n + 1 /\ p[n + 1] = rec /\ \A i \in 1 .. n : p[i] = path[t][i]
  <2> DEFINE R == UNION {CuckooRecord(snap[t]), {rec}}
             s == path[t]
  <2>1. s \in Seq(CuckooRecord(snap[t])) /\ n \in Nat
    BY RecordType
  <2>2. s \in Seq(R) /\ rec \in R
    <3>1. CuckooRecord(snap[t]) \subseteq R /\ rec \in R
      OBVIOUS
    <3> HIDE DEF R, rec
    <3> QED
      BY <2>1, <3>1
  <2> HIDE DEF R, s, rec
  <2> QED
    BY <2>1, <2>2, AppendProperties DEF s
<1>8. rec.bucket = b /\ rec.hash = hash
  OBVIOUS
<1> HIDE DEF p, rec, b, slot, hash
<1>9. PathOK(t)'
  <2>1. /\ \A i \in 1 .. n : path[t][i].bucket \in BucketsOf(snap[t], path[t][i].hash)
        /\ \A i \in 1 .. n - 1 : path[t][i + 1].bucket =
             alt_index(snap[t], partial_key(path[t][i].hash), path[t][i].bucket)
    BY <1>1 DEF DataInv, PathOK
  <2>2. ASSUME NEW i \in 1 .. Len(p), i < Len(p) \/ pc'[t] = "fill"
        PROVE  p[i].bucket \in BucketsOf(snap[t], p[i].hash)
    <3>1. CASE i = n + 1
      BY <1>2, <1>5, <1>7, <1>8, <2>2, <3>1
    <3>2. CASE i \in 1 .. n
      BY <1>7, <2>1, <3>2
    <3> QED
      BY <1>7, <3>1, <3>2
  <2>3. ASSUME NEW i \in 1 .. Len(p) - 1
        PROVE  p[i + 1].bucket = alt_index(snap[t], partial_key(p[i].hash), p[i].bucket)
    <3>1. CASE i = n
      BY <1>6, <1>7, <1>8, <3>1
    <3>2. CASE i \in 1 .. n - 1
      <4>1. i \in 1 .. n /\ i + 1 \in 1 .. n
        BY <1>7, <3>2
      <4> QED
        BY <1>7, <2>1, <3>2, <4>1
    <3> QED
      BY <1>7, <3>1, <3>2
  <2> QED
    BY <1>1, <1>2, <2>2, <2>3 DEF PathOK
<1> QED
  BY <1>1, <1>2, <1>9, QuietKeeps

\* The item that moves is still the one the path was found with, so the slot
\* it moves to is in the other one of its buckets.
LEMMA MoveData ==
  ASSUME IndInv, DataInv, NEW t \in Threads, WritesLocked(t),
         \A u \in Threads \ {t} : LeavesAlone(u), Move(t)
  PROVE  DataInv'
<1> DEFINE p == path[t]
           d == Len(p)
           to == p[d]
           from == p[d - 1]
           k == buckets[from.bucket][from.slot].key
<1>1. /\ pc[t] = "move" /\ d \in Nat /\ d > 1 /\ snap[t] = hashpower
      /\ UNCHANGED <<hashpower, snap>>
      /\ buckets' = [buckets EXCEPT ![to.bucket][to.slot] = buckets[from.bucket][from.slot],
                                    ![from.bucket][from.slot] = Free]
  BY SnapIsCurrent, RecordType DEF Move
<1>2. ~Stale(p)
  BY DEF Move
<1>3. /\ ~occupied(to.bucket, to.slot) /\ occupied(from.bucket, from.slot)
      /\ Hash[k] = from.hash
  BY <1>1, <1>2 DEF Stale
<1>4. /\ d = 2 => pc'[t] = "place" /\ path'[t] = SubSeq(p, 1, 1)
      /\ d # 2 => pc'[t] = "lock" /\ path'[t] = SubSeq(p, 1, d - 1)
  BY DEF Move, StartMove, Goto, IndInv, TypeOK, PathTypes
<1>5. /\ to.bucket \in Buckets(hashpower) /\ from.bucket \in Buckets(hashpower)
      /\ to.slot \in Slots /\ from.slot \in Slots
  <2>1. to \in CuckooRecord(snap[t]) /\ from \in CuckooRecord(snap[t])
    <3>1. d \in 1 .. Len(p) /\ d - 1 \in 1 .. Len(p)
      BY <1>1
    <3> QED
      BY <3>1, RecordType
  <2> HIDE DEF to, from
  <2> QED
    BY <1>1, <2>1 DEF CuckooRecord
<1>6. to.bucket \in BucketsOf(hashpower, Hash[k])
  <2>1. /\ from.bucket \in BucketsOf(hashpower, from.hash)
        /\ to.bucket = alt_index(hashpower, partial_key(from.hash), from.bucket)
    <3>1. d - 1 \in 1 .. Len(p) /\ d - 1 < Len(p) /\ d - 1 \in 1 .. Len(p) - 1 /\ d - 1 + 1 = d
      BY <1>1
    <3> QED
      BY <1>1, <3>1 DEF DataInv, PathOK
  <2> HIDE DEF to, from, k
  <2> QED
    BY <1>3, <2>1, OtherBucket
<1>7. ~Unsplit(to.bucket)
  <2>1. \A B : \A b \in B : lock_ind(b) \in LocksOf(B)
    BY DEF LocksOf
  <2>2. LocksHeld(t) = MoveLocks(t, p)
    BY <1>1 DEF IndInv, RequestOK, HoldingOK, LocksWanted
  <2>3. p[1].bucket \in {first(t), second(t)}
    BY <1>1 DEF IndInv, RequestOK
  <2>4. lock_ind(to.bucket) \in MoveLocks(t, p)
    <3> HIDE DEF p
    <3> QED
      BY <1>1, <2>1, <2>3 DEF MoveLocks
  <2> QED
    BY <1>1, <2>2, <2>4, LockedIsSplit DEF LocksHeld
<1>8. \A b \in Buckets(hashpower), s \in Slots :
        buckets'[b][s] = IF b = from.bucket /\ s = from.slot THEN Free
                         ELSE IF b = to.bucket /\ s = to.slot
                              THEN buckets[from.bucket][from.slot]
                         ELSE buckets[b][s]
  <2> HIDE DEF to, from
  <2> QED
    BY <1>1, <1>5 DEF IndInv, TypeOK
<1>9. <<from.bucket, from.slot>> \in Positions /\ KeyAt(<<from.bucket, from.slot>>) = k
  BY <1>3, <1>5 DEF Positions, KeyAt
<1>10. pc'[t] # "split" /\ pc'[t] # "fill"
  BY <1>4
<1>11. /\ \A i \in 1 .. Len(path'[t]) : path'[t][i] = p[i]
       /\ Len(path'[t]) = d - 1
  <2>1. p \in Seq(CuckooRecord(snap[t]))
    BY RecordType
  <2>2. path'[t] = SubSeq(p, 1, d - 1)
    <3>1. d = 2 => d - 1 = 1
      OBVIOUS
    <3> HIDE DEF d, p
    <3> QED
      BY <1>4, <3>1
  <2> HIDE DEF p
  <2> QED
    BY <1>1, <2>1, <2>2, SubSeqProperties
<1>12. pc'[t] = "place" => d = 2
  BY <1>4
<1> DEFINE fb == from.bucket
           fs == from.slot
           tb == to.bucket
           ts == to.slot
           e == buckets[fb][fs]
<1>13. e # Free /\ e.key = k
  BY <1>3 DEF occupied
<1>14. PathOK(t)'
  <2>1. pc'[t] = "place" => path'[t][1] = from
    BY <1>1, <1>11, <1>12
  <2>2. buckets'[from.bucket][from.slot] = Free
    BY <1>5, <1>8
  <2>3. ASSUME NEW i \in 1 .. Len(path'[t]), i < Len(path'[t])
        PROVE  path'[t][i].bucket \in BucketsOf(snap'[t], path'[t][i].hash)
    BY <1>1, <1>11, <2>3 DEF DataInv, PathOK
  <2>4. ASSUME NEW i \in 1 .. Len(path'[t]) - 1
        PROVE  path'[t][i + 1].bucket =
                 alt_index(snap'[t], partial_key(path'[t][i].hash), path'[t][i].bucket)
    <3>1. /\ i \in 1 .. Len(path'[t]) /\ i + 1 \in 1 .. Len(path'[t])
          /\ i \in 1 .. Len(path[t]) - 1
      BY <1>1, <1>11
    <3> QED
      BY <1>1, <1>11, <3>1 DEF DataInv, PathOK
  <2>5. pc'[t] = "place" => buckets'[path'[t][1].bucket][path'[t][1].slot] = Free
    BY <2>1, <2>2
  <2> HIDE DEF p
  <2> QED
    BY <1>10, <2>3, <2>4, <2>5 DEF PathOK, occupied
<1> HIDE DEF fb, fs, tb, ts, e, k, to, from, p, d
<1>15. ASSUME NEW q \in Positions'
       PROVE  \/ q = <<tb, ts>> /\ KeyAt(q)' = k
              \/ q # <<fb, fs>> /\ q \in Positions /\ KeyAt(q)' = KeyAt(q)
  <2>1. q \in Buckets(hashpower) \X Slots /\ buckets'[q[1]][q[2]] # Free
    BY <1>1, <1>15 DEF Positions, occupied
  <2> QED
    BY <1>8, <1>13, <2>1 DEF Positions, occupied, KeyAt, fb, fs, tb, ts, e
<1>16. \A b : Unsplit(b)' = Unsplit(b)
  BY <1>1, <1>10, UnsplitSame
<1>17. Placement'
  BY <1>1, <1>6, <1>7, <1>15, <1>16 DEF DataInv, Placement, tb
<1>18. NoDuplicates'
  BY <1>9, <1>15 DEF DataInv, NoDuplicates, fb, fs
<1>19. NewAreEmpty(t)'
  BY <1>10 DEF NewAreEmpty
<1> QED
  BY <1>14, <1>17, <1>18, <1>19, DataFrom

LEMMA CuckooData ==
  ASSUME IndInv, DataInv, NEW t \in Threads, WritesLocked(t),
         \A u \in Threads \ {t} : LeavesAlone(u), Cuckoo(t)
  PROVE  DataInv'
BY SearchData, FillData, NothingToMoveData, MoveData, PlaceData DEF Cuckoo

----------------------------------------------------------------------------
(* Doubling the table and splitting its buckets.                           *)

\* The thread that holds the expansion lock is the only one that splits.
LEMMA OneSplitter ==
  ASSUME IndInv, NEW t \in Threads, pc[t] \in Expanding
  PROVE  \A u \in Threads \ {t} : pc[u] # "split"
BY DEF IndInv, ExpansionOK, Expanding

LEMMA DoubleData ==
  ASSUME IndInv, DataInv, NEW t \in Threads, WritesLocked(t),
         \A u \in Threads \ {t} : LeavesAlone(u), Double(t)
  PROVE  DataInv'
<1> DEFINE hp == hashpower
<1>1. /\ pc[t] = "double" /\ snap[t] = hp /\ hp \in Nat /\ hashpower' = hp + 1
      /\ pc'[t] = "split" /\ want'[t] = locks_to_move(hp) /\ UNCHANGED <<path, snap>>
  BY DEF Double, Goto, IndInv, ExpansionOK, TypeOK
<1>2. /\ buckets' = [b \in Buckets(hp + 1) |->
                       IF b \in Buckets(hp) THEN buckets[b] ELSE [s \in Slots |-> Free]]
  BY BucketBits DEF Double, Doubled, IndInv
<1>3. \A b : ~Unsplit(b)
  BY <1>1, OneSplitter DEF Unsplit, Expanding
<1>4. \A b \in Buckets(hp) : Unsplit(b)'
  <2>1. \A b \in Buckets(hp) : lock_ind(b) \in locks_to_move(hp)
    BY <1>1, NewLock
  <2> QED
    BY <1>1, <2>1 DEF Unsplit
<1> HIDE DEF hp
<1>5. ASSUME NEW p \in Positions'
      PROVE  p[1] \in Buckets(hp) /\ p \in Positions /\ KeyAt(p)' = KeyAt(p)
  <2>1. p \in Buckets(hp + 1) \X Slots /\ buckets'[p[1]][p[2]] # Free
    BY <1>1, <1>5 DEF Positions, occupied
  <2>2. p[1] \in Buckets(hp)
    BY <1>2, <2>1
  <2> QED
    BY <1>2, <2>1, <2>2 DEF Positions, occupied, KeyAt, hp
<1>6. Placement'
  <2>1. ASSUME NEW p \in Positions' PROVE p[1] \in BucketsOf(hp, Hash[KeyAt(p)'])
    BY <1>3, <1>5 DEF DataInv, Placement, hp
  <2>2. (hp + 1) - 1 = hp
    BY <1>1
  <2> QED
    BY <1>1, <1>4, <1>5, <2>1, <2>2 DEF Placement
<1>7. NoDuplicates'
  BY <1>5 DEF DataInv, NoDuplicates
<1>8. NewAreEmpty(t)'
  <2>1. ASSUME NEW b \in Buckets(hp), NEW s \in Slots PROVE buckets'[b \cup {hp}][s] = Free
    <3>1. b \cup {hp} \in Buckets(hp + 1) /\ b \cup {hp} \notin Buckets(hp)
      BY <1>1, NewBucket DEF Buckets, hashmask, Bits
    <3> QED
      BY <1>2, <3>1
  <2> QED
    BY <1>1, <2>1 DEF NewAreEmpty, occupied
<1>9. PathOK(t)'
  BY <1>1, PathKept DEF DataInv
<1> QED
  BY <1>6, <1>7, <1>8, <1>9, DataFrom

\* An item of an old bucket stays in one of its two buckets, whether it rises
\* to the new bucket or not.
LEMMA RisingRight ==
  ASSUME NEW hp \in Nat, NEW b, NEW s \in Slots, occupied(b, s),
         b \in BucketsOf(hp, Hash[buckets[b][s].key])
  PROVE  (IF s \in Rising(hp, b) THEN b \cup {hp} ELSE b)
           \in BucketsOf(hp + 1, Hash[buckets[b][s].key])
<1> DEFINE hv == Hash[buckets[b][s].key]
           old == index_hash(hp, hv)
           new == index_hash(hp + 1, hv)
           oldalt == alt_index(hp, partial_key(hv), old)
           newalt == alt_index(hp + 1, partial_key(hv), new)
<1>1. s \in Rising(hp, b) <=> \/ old = b /\ new = b \cup {hp}
                              \/ oldalt = b /\ newalt = b \cup {hp}
  BY DEF Rising
<1>2. new \in {old, old \cup {hp}} /\ newalt \in {oldalt, oldalt \cup {hp}}
  BY Grown
<1>3. b \in {old, oldalt} /\ BucketsOf(hp + 1, hv) = {new, newalt}
  BY DEF BucketsOf
<1> HIDE DEF hv, old, new, oldalt, newalt
<1>4. (IF s \in Rising(hp, b) THEN b \cup {hp} ELSE b) \in BucketsOf(hp + 1, hv)
  BY <1>1, <1>2, <1>3
<1> QED
  BY <1>4 DEF hv

\* An item in a new bucket got there from the old bucket of the same slots.
LEMMA RisenFrom ==
  ASSUME NEW hp, NEW b, NEW i \in Slots, Risen(hp, b)[i] # Free
  PROVE  \E s \in Rising(hp, b) :
           /\ Risen(hp, b)[i] = buckets[b][s]
           /\ Cardinality({ r \in Rising(hp, b) : r < s }) = i
<1> DEFINE ranked == { s \in Rising(hp, b) : Cardinality({ r \in Rising(hp, b) : r < s }) = i }
<1>1. Risen(hp, b)[i] = IF ranked # {} THEN buckets[b][CHOOSE s \in ranked : TRUE] ELSE Free
  BY DEF Risen
<1>2. ranked # {}
  BY <1>1
<1>3. (CHOOSE s \in ranked : TRUE) \in ranked
  BY <1>2
<1> QED
  BY <1>1, <1>2, <1>3

EntryAt(p) == buckets[p[1]][p[2]]

\* Where the items of the table come from when the buckets of one lock are
\* split: from the position where they are, or from the old bucket.
LEMMA SplitOrigin ==
  ASSUME TypeOK, NEW hp \in Nat, hashpower = hp + 1, NEW l \in locks_to_move(hp),
         SplitLock(hp, l), hashpower' = hashpower,
         \A b \in OldBuckets(hp, l), s \in Slots : ~occupied(b \cup {hp}, s),
         NEW p \in Positions'
  PROVE  \E o \in Positions :
           /\ EntryAt(p)' = EntryAt(o)
           /\ \/ o = p /\ lock_ind(p[1]) # l
              \/ o = p /\ p[1] \in OldBuckets(hp, l) /\ p[2] \notin Rising(hp, p[1])
              \/ /\ o[1] \in OldBuckets(hp, l) /\ o[2] \in Rising(hp, o[1])
                 /\ p = << o[1] \cup {hp}, Cardinality({ r \in Rising(hp, o[1]) : r < o[2] }) >>
<1>1. p \in Buckets(hp + 1) \X Slots /\ buckets'[p[1]][p[2]] # Free
  BY DEF Positions, occupied
<1>2. buckets'[p[1]] =
        IF p[1] \in OldBuckets(hp, l) THEN LowerHalf(hp, p[1])
        ELSE IF hp \in p[1] /\ p[1] \ {hp} \in OldBuckets(hp, l)
             THEN UpperHalf(hp, p[1] \ {hp})
        ELSE buckets[p[1]]
  BY <1>1 DEF SplitLock, TypeOK
<1>3. CASE p[1] \in OldBuckets(hp, l)
  <2>1. buckets'[p[1]][p[2]] = IF p[2] \in Rising(hp, p[1]) THEN Free ELSE buckets[p[1]][p[2]]
    BY <1>1, <1>2, <1>3 DEF LowerHalf
  <2>2. p[2] \notin Rising(hp, p[1]) /\ p \in Positions /\ EntryAt(p)' = EntryAt(p)
    BY <1>1, <2>1 DEF Positions, occupied, EntryAt
  <2> QED
    BY <1>3, <2>2
<1>4. CASE p[1] \notin OldBuckets(hp, l) /\ hp \in p[1] /\ p[1] \ {hp} \in OldBuckets(hp, l)
  <2> DEFINE b == p[1] \ {hp}
  <2>1. b \cup {hp} = p[1] /\ b \in OldBuckets(hp, l) /\ b \in Buckets(hp)
    BY <1>4 DEF OldBuckets
  <2>2. buckets[b \cup {hp}][p[2]] = Free
    BY <1>1, <2>1 DEF occupied
  <2>3. buckets'[p[1]][p[2]] = Risen(hp, b)[p[2]]
    BY <1>1, <1>2, <1>4, <2>2 DEF UpperHalf
  <2> HIDE DEF b
  <2>4. PICK s \in Rising(hp, b) :
          /\ Risen(hp, b)[p[2]] = buckets[b][s]
          /\ Cardinality({ r \in Rising(hp, b) : r < s }) = p[2]
    BY <1>1, <2>3, RisenFrom
  <2>5. b \in Buckets(hashpower) /\ s \in Slots /\ occupied(b, s)
    BY <2>1, NewBucket DEF Rising
  <2>6. <<b, s>> \in Positions /\ EntryAt(p)' = EntryAt(<<b, s>>)
    BY <2>3, <2>4, <2>5 DEF Positions, EntryAt
  <2>7. p = <<b \cup {hp}, Cardinality({ r \in Rising(hp, b) : r < s })>>
    BY <1>1, <2>1, <2>4
  <2> QED
    BY <2>1, <2>4, <2>6, <2>7
<1>5. CASE p[1] \notin OldBuckets(hp, l) /\ ~(hp \in p[1] /\ p[1] \ {hp} \in OldBuckets(hp, l))
  <2>1. p \in Positions /\ EntryAt(p)' = EntryAt(p)
    BY <1>1, <1>2, <1>5 DEF Positions, occupied, EntryAt
  <2>2. lock_ind(p[1]) # l
    <3>1. CASE hp \in p[1]
      <4>1. p[1] \ {hp} \in Buckets(hp)
        BY <1>1, <3>1 DEF Buckets, hashmask, Bits
      <4>2. lock_ind(p[1] \ {hp}) # l
        BY <1>5, <3>1, <4>1 DEF OldBuckets
      <4>3. hp \notin l
        BY DEF locks_to_move, hashmask, Bits
      <4> QED
        BY <4>2, <4>3 DEF lock_ind
    <3>2. CASE hp \notin p[1]
      <4>1. p[1] \in Buckets(hp)
        BY <1>1, <3>2 DEF Buckets, hashmask, Bits
      <4> QED
        BY <1>5, <4>1 DEF OldBuckets
    <3> QED
      BY <3>1, <3>2
  <2> QED
    BY <2>1, <2>2
<1> QED
  BY <1>3, <1>4, <1>5

LEMMA MoveBucketsData ==
  ASSUME IndInv, DataInv, NEW t \in Threads, WritesLocked(t),
         \A u \in Threads \ {t} : LeavesAlone(u), MoveBuckets(t)
  PROVE  DataInv'
<1> DEFINE hp == snap[t]
<1>1. PICK l \in want[t] : SplitLock(hp, l) /\ want' = [want EXCEPT ![t] = @ \ {l}]
  BY DEF MoveBuckets
<1>2. /\ pc[t] = "split" /\ hp \in Nat /\ hashpower = hp + 1 /\ hashpower' = hp + 1
      /\ l \in locks_to_move(hp) /\ want[t] \subseteq locks_to_move(hp)
      /\ UNCHANGED <<path, snap>>
  BY DEF MoveBuckets, IndInv, TypeOK, ExpansionOK
<1>3. /\ want'[t] = want[t] \ {l}
      /\ want'[t] # {} => pc'[t] = "split"
      /\ want'[t] = {} => pc'[t] = "unlock_new"
  BY <1>1 DEF MoveBuckets, Goto, IndInv, TypeOK
<1>4. \A b \in OldBuckets(hp, l), s \in Slots : ~occupied(b \cup {hp}, s)
  BY <1>2 DEF DataInv, NewAreEmpty, OldBuckets
<1>5. \A b : /\ Unsplit(b) <=> lock_ind(b) \in want[t]
             /\ Unsplit(b)' <=> lock_ind(b) \in want[t] \ {l}
  <2>1. \A u \in Threads \ {t} : pc[u] # "split"
    BY <1>2, OneSplitter DEF Expanding
  <2>2. \A u \in Threads \ {t} : pc'[u] # "split"
    BY <2>1 DEF LeavesAlone
  <2> QED
    BY <1>2, <1>3, <2>1, <2>2 DEF Unsplit
<1> HIDE DEF hp
<1> DEFINE From(p, o) ==
             /\ KeyAt(p)' = KeyAt(o)
             /\ \/ o = p /\ lock_ind(p[1]) # l
                \/ o = p /\ p[1] \in OldBuckets(hp, l) /\ p[2] \notin Rising(hp, p[1])
                \/ /\ o[1] \in OldBuckets(hp, l) /\ o[2] \in Rising(hp, o[1])
                   /\ p = << o[1] \cup {hp},
                             Cardinality({ r \in Rising(hp, o[1]) : r < o[2] }) >>
<1>6. \A p \in Positions' : \E o \in Positions : From(p, o)
  BY <1>1, <1>2, <1>4, SplitOrigin DEF IndInv, KeyAt, EntryAt
<1>7. Placement'
  <2> SUFFICES ASSUME NEW p \in Positions'
               PROVE  p[1] \in BucketsOf(IF lock_ind(p[1]) \in want[t] \ {l} THEN hp ELSE hp + 1,
                                         Hash[KeyAt(p)'])
    BY <1>2, <1>5 DEF Placement
  <2>1. PICK o \in Positions : From(p, o)
    BY <1>6
  <2>2. o[1] \in BucketsOf(IF lock_ind(o[1]) \in want[t] THEN hp ELSE hp + 1, Hash[KeyAt(o)])
    <3>1. (hp + 1) - 1 = hp
      BY <1>2
    <3> QED
      BY <1>2, <1>5, <3>1 DEF DataInv, Placement
  <2>3. CASE o = p /\ lock_ind(p[1]) # l
    BY <2>1, <2>2, <2>3
  <2>4. ASSUME o[1] \in OldBuckets(hp, l)
        PROVE  /\ lock_ind(o[1]) = l
               /\ (IF o[2] \in Rising(hp, o[1]) THEN o[1] \cup {hp} ELSE o[1])
                    \in BucketsOf(hp + 1, Hash[KeyAt(o)])
    <3>1. lock_ind(o[1]) = l
      BY <2>4 DEF OldBuckets
    <3>2. o[1] \in BucketsOf(hp, Hash[KeyAt(o)])
      BY <2>2, <3>1
    <3> QED
      BY <1>2, <3>1, <3>2, RisingRight DEF Positions, KeyAt
  <2>5. CASE o = p /\ p[1] \in OldBuckets(hp, l) /\ p[2] \notin Rising(hp, p[1])
    BY <2>1, <2>4, <2>5
  <2>6. CASE /\ o[1] \in OldBuckets(hp, l) /\ o[2] \in Rising(hp, o[1])
             /\ p[1] = o[1] \cup {hp}
    <3>1. lock_ind(p[1]) \notin want[t] \ {l}
      BY <1>2, <2>4, <2>6, NewLock DEF OldBuckets
    <3> QED
      BY <2>1, <2>4, <2>6, <3>1
  <2> QED
    BY <2>1, <2>3, <2>5, <2>6
<1>8. NoDuplicates'
  <2> SUFFICES ASSUME NEW p \in Positions', NEW q \in Positions', KeyAt(p)' = KeyAt(q)'
               PROVE  p = q
    BY DEF NoDuplicates
  <2>1. PICK o \in Positions : From(p, o)
    BY <1>6
  <2>2. PICK r \in Positions : From(q, r)
    BY <1>6
  <2>3. o = r
    BY <2>1, <2>2 DEF DataInv, NoDuplicates
  <2>4. o[1] \in OldBuckets(hp, l) => lock_ind(o[1]) = l
    BY DEF OldBuckets
  <2> QED
    BY <2>1, <2>2, <2>3, <2>4
<1>9. NewAreEmpty(t)'
  <2>1. ASSUME NEW b \in Buckets(hp), NEW s \in Slots, lock_ind(b) \in want[t] \ {l}
        PROVE  buckets'[b \cup {hp}][s] = Free
    <3>1. b \cup {hp} \in Buckets(hp + 1) /\ (b \cup {hp}) \ {hp} = b /\ hp \notin b
      <4>1. b \cup {hp} \in Buckets(hp + 1) /\ hp \notin b
        BY <1>2, NewBucket
      <4> QED
        BY <4>1
    <3>2. b \notin OldBuckets(hp, l) /\ b \cup {hp} \notin OldBuckets(hp, l)
      BY <1>2, <2>1, <3>1 DEF OldBuckets, Buckets, hashmask, Bits
    <3>3. buckets'[b \cup {hp}] = buckets[b \cup {hp}]
      BY <1>1, <1>2, <3>1, <3>2 DEF SplitLock, IndInv, TypeOK
    <3>4. ~occupied(b \cup {hp}, s)
      BY <1>2, <2>1 DEF DataInv, NewAreEmpty, hp
    <3> QED
      BY <3>3, <3>4 DEF occupied
  <2> QED
    BY <1>2, <1>3, <2>1 DEF NewAreEmpty, occupied, hp
<1>10. PathOK(t)'
  BY <1>2, <1>3, PathKept DEF DataInv
<1> QED
  BY <1>7, <1>8, <1>9, <1>10, DataFrom

LEMMA ExpandData ==
  ASSUME IndInv, DataInv, NEW t \in Threads, WritesLocked(t),
         \A u \in Threads \ {t} : LeavesAlone(u), Expand(t)
  PROVE  DataInv'
<1>1. CASE \/ LockExpansion(t) \/ CheckResize(t) \/ LockAll(t) \/ DoubleThrows(t)
           \/ UnlockNew(t) \/ Expanded(t)
  <2>1. /\ UNCHANGED <<buckets, hashpower, path, snap>>
        /\ pc[t] # "split" /\ pc'[t] \notin {"split", "fill", "place"}
    BY <1>1 DEF LockExpansion, CheckResize, LockAll, DoubleThrows, UnlockNew, Expanded, threads,
                Goto, Finish, IndInv, TypeOK
  <2> QED
    BY <2>1, PathKept, QuietKeeps DEF DataInv
<1> QED
  BY <1>1, DoubleData, MoveBucketsData DEF Expand

----------------------------------------------------------------------------
(* The invariant.                                                          *)

LEMMA InitDataInv == Init => DataInv
<1> SUFFICES ASSUME Init PROVE DataInv
  OBVIOUS
<1> USE DEF Init
<1>1. Positions = {}
  BY DEF Positions, occupied
<1>2. \A t \in Threads : PathOK(t) /\ NewAreEmpty(t)
  BY DEF PathOK, NewAreEmpty
<1> QED
  BY <1>1, <1>2 DEF DataInv, Placement, NoDuplicates

\* The invariant does not speak of the locks.
LEMMA QuietData ==
  ASSUME DataInv, UNCHANGED <<hashpower, buckets, threads>>
  PROVE  DataInv'
<1> USE DEF threads
<1>1. \A b : Unsplit(b)' = Unsplit(b)
  BY DEF Unsplit
<1>2. Placement' /\ NoDuplicates'
  BY <1>1, SamePlaces DEF DataInv
<1>3. \A t \in Threads : PathOK(t)' /\ NewAreEmpty(t)'
  BY DEF DataInv, PathOK, NewAreEmpty, occupied
<1> QED
  BY <1>2, <1>3 DEF DataInv

LEMMA StutterData == DataInv /\ UNCHANGED vars => DataInv'
BY QuietData DEF vars, table

\* While no thread holds a lock every item is where a find looks for it, and
\* all of them may be put elsewhere.
Placed == \A p \in Positions : p[1] \in BucketsOf(hashpower, Hash[KeyAt(p)])

LEMMA ReplacedData ==
  ASSUME IndInv, DataInv, \A t \in Threads : LocksHeld(t) = {}
  PROVE  /\ Placed
         /\ Placed' /\ NoDuplicates' /\ UNCHANGED threads => DataInv'
<1>1. \A t \in Threads : pc[t] \notin {"place", "split"}
  BY HoldsNothing
<1>2. Placed
  BY <1>1 DEF DataInv, Placement, Placed, Unsplit
<1>3. ASSUME Placed', NoDuplicates', UNCHANGED threads PROVE DataInv'
  <2>1. \A t \in Threads : pc'[t] \notin {"place", "split"}
    BY <1>1, <1>3 DEF threads
  <2>2. Placement'
    BY <1>3, <2>1 DEF Placement, Placed, Unsplit
  <2>3. \A t \in Threads : PathOK(t)' /\ NewAreEmpty(t)'
    BY <1>1, <1>3, <2>1 DEF DataInv, PathOK, NewAreEmpty, threads
  <2> QED
    BY <1>3, <2>2, <2>3 DEF DataInv
<1> QED
  BY <1>2, <1>3

LEMMA NextDataInv == IndInv /\ DataInv /\ [Next]_vars => DataInv'
<1> SUFFICES ASSUME IndInv, DataInv, Next PROVE DataInv'
  BY StutterData
<1>1. PICK t \in Threads : (\E r \in Requests : Call(t, r)) \/ Step(t)
  BY DEF Next
<1>2. \A u \in Threads \ {t} : LeavesAlone(u)
  BY <1>1, StepLeavesOthers
<1>3. WritesLocked(t)
  BY <1>1, StepWrites DEF Call, table, WritesLocked
<1> USE DEF IndInv, TypeOK, PathTypes, Goto, Finish, table
<1>4. CASE (\E r \in Requests : Call(t, r)) \/ LockBucket(t) \/ ScanCounter(t)
  <2>1. /\ UNCHANGED <<buckets, hashpower, path, snap>>
        /\ pc[t] # "split" /\ pc'[t] \notin {"split", "fill", "place"}
    BY <1>4 DEF Call, LockBucket, ScanCounter
  <2> QED
    BY <1>2, <1>3, <2>1, PathKept, QuietKeeps DEF DataInv
<1>5. CASE Snapshot(t) \/ HashpowerChanged(t) \/ Return(t)
  <2>1. /\ UNCHANGED <<buckets, hashpower>> /\ path'[t] = <<>>
        /\ pc[t] # "split" /\ pc'[t] \notin {"split", "fill", "place"}
    BY <1>5 DEF Snapshot, HashpowerChanged, Return
  <2> QED
    BY <1>2, <1>3, <2>1, PathGone, QuietKeeps
<1> QED
  BY <1>1, <1>2, <1>3, <1>4, <1>5, OperateData, CuckooData, ExpandData DEF Step

\* Where items are, for every hash function and every number of threads, keys,
\* slots and locks, while some thread may be doubling the table.
THEOREM DataInvariant == Spec => []DataInv
<1>1. Init => IndInv /\ DataInv
  BY InitIndInv, InitDataInv
<1>2. IndInv /\ DataInv /\ [Next]_vars => (IndInv /\ DataInv)'
  BY NextIndInv, NextDataInv
<1> QED
  BY <1>1, <1>2, PTL DEF Spec

\* Every item is where a find looks for it: in one of the two buckets of its
\* key, also while items move along cuckoo paths and buckets are split.
THEOREM PlacementHolds == Spec => []Placement
<1>1. DataInv => Placement
  BY DEF DataInv
<1> QED
  BY <1>1, DataInvariant, PTL

\* No key is in the table twice, although an insert lets go of its locks
\* after it has seen that the key is not there.
THEOREM NoDuplicatesHold == Spec => []NoDuplicates
<1>1. DataInv => NoDuplicates
  BY DEF DataInv
<1> QED
  BY <1>1, DataInvariant, PTL

LEMMA AssertionsNow == IndInv /\ DataInv => CuckooAsserts
<1> SUFFICES ASSUME IndInv, DataInv, NEW t \in Threads
             PROVE  /\ pc[t] = "place" =>
                         /\ path[t][1].bucket \in {first(t), second(t)}
                         /\ ~occupied(path[t][1].bucket, path[t][1].slot)
                    /\ \A i \in 1 .. Len(path[t]) - 1 :
                         /\ path[t][i].bucket \in BucketsOf(snap[t], path[t][i].hash)
                         /\ path[t][i + 1].bucket \in BucketsOf(snap[t], path[t][i].hash)
  BY DEF CuckooAsserts
<1>1. PathOK(t) /\ RequestOK(t)
  BY DEF IndInv, DataInv
<1>2. pc[t] = "place" => /\ path[t][1].bucket \in {first(t), second(t)}
                         /\ ~occupied(path[t][1].bucket, path[t][1].slot)
  BY <1>1, Len(<<>>) = 0 DEF PathOK, RequestOK
<1>3. ASSUME NEW i \in 1 .. Len(path[t]) - 1
      PROVE  /\ path[t][i].bucket \in BucketsOf(snap[t], path[t][i].hash)
             /\ path[t][i + 1].bucket \in BucketsOf(snap[t], path[t][i].hash)
  <2>1. i \in 1 .. Len(path[t]) /\ i < Len(path[t])
    BY RecordType
  <2>2. path[t][i].bucket \in BucketsOf(snap[t], path[t][i].hash)
    BY <1>1, <2>1 DEF PathOK
  <2>3. path[t][i + 1].bucket =
          alt_index(snap[t], partial_key(path[t][i].hash), path[t][i].bucket)
    BY <1>1 DEF PathOK
  <2> QED
    BY <2>2, <2>3, OtherBucket
<1> QED
  BY <1>2, <1>3

\* The assertions of cuckoo_insert, run_cuckoo and cuckoopath_search hold.
THEOREM AssertionsHold == Spec => []CuckooAsserts
BY AssertionsNow, Protocol, DataInvariant, PTL

\* When no operation is running no bucket is still to be split: every item is
\* in a bucket a find looks in (if threads to split them can be created).
THEOREM ItemsAreFindable == Spec => []Findable
<1>1. Placement => Findable
  BY DEF Placement, Findable, Idle, Unsplit
<1> QED
  BY <1>1, PlacementHolds, PTL

----------------------------------------------------------------------------
(* The entries and the dictionary they are.                                *)

\* The entries in the table, wherever they are.
Items == { EntryAt(p) : p \in Positions }

----------------------------------------------------------------------------
(* The dictionary is determined by the entries.                            *)

LEMMA ItemTypes ==
  ASSUME TypeOK, NEW e \in Items
  PROVE  e \in Entry /\ e.key \in Keys /\ e.val \in Values /\ e.val # None
<1>1. e \in Entry
  BY DEF TypeOK, Items, EntryAt, Positions, occupied
<1> QED
  BY <1>1, NoneAssumption DEF Entry

\* A key that is there has the value of its only entry, and one that is not
\* there is absent.
DictOK ==
  /\ \A e \in Items : e \in Entry /\ e.key \in Keys /\ e.val # None /\ dict[e.key] = e.val
  /\ \A k \in Keys : (\A e \in Items : e.key # k) => dict[k] = None

LEMMA DictHas ==
  ASSUME TypeOK, NoDuplicates, NEW e \in Items
  PROVE  dict[e.key] = e.val
<1>1. PICK p \in Positions : EntryAt(p) = e
  BY DEF Items
<1>2. KeyAt(p) = e.key /\ e.key \in Keys
  BY <1>1, ItemTypes DEF EntryAt, KeyAt
<1> DEFINE q == CHOOSE q \in Positions : KeyAt(q) = e.key
<1>3. q \in Positions /\ KeyAt(q) = e.key
  BY <1>2
<1>4. q = p
  BY <1>2, <1>3 DEF NoDuplicates
<1>5. dict[e.key] = buckets[q[1]][q[2]].val
  BY <1>2 DEF dict
<1> QED
  BY <1>1, <1>4, <1>5 DEF EntryAt

LEMMA DictHasNot ==
  ASSUME NEW k \in Keys, \A e \in Items : e.key # k
  PROVE  dict[k] = None
<1>1. \A p \in Positions : KeyAt(p) # k
  BY DEF Items, EntryAt, KeyAt
<1> QED
  BY <1>1 DEF dict, Absent

LEMMA DictNow == TypeOK /\ NoDuplicates => DictOK
BY ItemTypes, DictHas, DictHasNot DEF DictOK

LEMMA DictNext == TypeOK' /\ NoDuplicates' => DictOK'
BY DictNow, PTL

LEMMA DictDomain == dict = [k \in Keys |-> dict[k]] /\ dict' = [k \in Keys |-> dict'[k]]
BY DEF dict

LEMMA DictStays ==
  ASSUME UNCHANGED <<buckets, hashpower>>
  PROVE  dict' = dict
BY DEF dict, Positions, KeyAt, occupied

\* A step that changes no entry, or the entry of one key, and the dictionary.
LEMMA DictSame ==
  ASSUME DictOK, DictOK', Items' = Items
  PROVE  dict' = dict
<1>1. ASSUME NEW k \in Keys PROVE dict'[k] = dict[k]
  <2>1. CASE \E e \in Items : e.key = k
    BY <2>1 DEF DictOK
  <2>2. CASE \A e \in Items : e.key # k
    BY <2>2 DEF DictOK
  <2> QED
    BY <2>1, <2>2
<1> QED
  BY <1>1, DictDomain

LEMMA DictChanges ==
  ASSUME DictOK, DictOK', NEW k \in Keys, NEW N, Items' = { e \in Items : e.key # k } \cup N,
         NEW v, \/ N = {} /\ v = None
                \/ \E e : N = {e} /\ e.key = k /\ e.val = v
  PROVE  dict' = [dict EXCEPT ![k] = v]
<1>1. ASSUME NEW j \in Keys \ {k} PROVE dict'[j] = dict[j]
  <2>1. CASE \E e \in Items : e.key = j
    BY <2>1 DEF DictOK
  <2>2. CASE \A e \in Items : e.key # j
    BY <2>2 DEF DictOK
  <2> QED
    BY <2>1, <2>2
<1>2. dict'[k] = v
  BY DEF DictOK
<1> QED
  BY <1>1, <1>2, DictDomain

----------------------------------------------------------------------------
(* The entries after a step.                                               *)

LEMMA ItemsSame ==
  ASSUME UNCHANGED <<buckets, hashpower>>
  PROVE  Items' = Items
BY SameItems DEF Items, EntryAt

\* A write to the one slot that may hold the key k.
LEMMA ItemsAfterPut ==
  ASSUME TypeOK, NEW b \in Buckets(hashpower), NEW s \in Slots, NEW e, Put(b, s, e),
         hashpower' = hashpower, NEW k,
         e = Free \/ e.key = k,
         occupied(b, s) => buckets[b][s].key = k,
         \A p \in Positions : KeyAt(p) = k => p = <<b, s>>
  PROVE  Items' = { x \in Items : x.key # k } \cup (IF e = Free THEN {} ELSE {e})
<1> DEFINE N == IF e = Free THEN {} ELSE {e}
<1>1. \A c \in Buckets(hashpower), r \in Slots :
        buckets'[c][r] = IF c = b /\ r = s THEN e ELSE buckets[c][r]
  BY PutSlot
<1>2. ASSUME NEW x \in Items' PROVE x \in { y \in Items : y.key # k } \cup N
  <2>1. PICK p \in Positions' : buckets'[p[1]][p[2]] = x
    BY <1>2 DEF Items, EntryAt
  <2>2. p \in Buckets(hashpower) \X Slots /\ x # Free
    BY <2>1 DEF Positions, occupied
  <2>3. CASE p = <<b, s>>
    BY <1>1, <2>1, <2>2, <2>3
  <2>4. CASE p # <<b, s>>
    <3>1. p \in Positions /\ EntryAt(p) = x
      BY <1>1, <2>1, <2>2, <2>4 DEF Positions, occupied, EntryAt
    <3> QED
      BY <2>4, <3>1 DEF Items, KeyAt, EntryAt
  <2> QED
    BY <2>3, <2>4
<1>3. ASSUME NEW x \in Items, x.key # k PROVE x \in Items'
  <2>1. PICK p \in Positions : buckets[p[1]][p[2]] = x
    BY <1>3 DEF Items, EntryAt
  <2>2. p \in Buckets(hashpower) \X Slots /\ x # Free
    BY <2>1 DEF Positions, occupied
  <2>3. p # <<b, s>>
    BY <1>3, <2>1, <2>2 DEF occupied
  <2>4. p \in Positions' /\ EntryAt(p)' = x
    BY <1>1, <2>1, <2>2, <2>3 DEF Positions, occupied, EntryAt
  <2> QED
    BY <2>4 DEF Items
<1>4. ASSUME e # Free PROVE e \in Items'
  <2>1. <<b, s>> \in Positions' /\ EntryAt(<<b, s>>)' = e
    BY <1>1, <1>4 DEF Positions, occupied, EntryAt
  <2> QED
    BY <2>1 DEF Items
<1>5. \A x \in N : x \in Items'
  BY <1>4
<1> QED
  BY <1>2, <1>3, <1>5

\* When every position of the old table has a counterpart in the new one, and
\* the other way round, the entries are the same.
LEMMA ItemsMove ==
  ASSUME \A p \in Positions : \E q \in Positions' : EntryAt(q)' = EntryAt(p),
         \A q \in Positions' : \E p \in Positions : EntryAt(q)' = EntryAt(p)
  PROVE  Items' = Items
<1>1. \A x \in Items : x \in Items'
  BY DEF Items
<1>2. \A x \in Items' : x \in Items
  BY DEF Items
<1> QED
  BY <1>1, <1>2

LEMMA ItemsAfterMove ==
  ASSUME IndInv, NEW t \in Threads, Move(t)
  PROVE  Items' = Items
<1> DEFINE p == path[t]
           d == Len(p)
           to == p[d]
           from == p[d - 1]
           tb == to.bucket
           ts == to.slot
           fb == from.bucket
           fs == from.slot
           e == buckets[fb][fs]
<1>1. /\ d \in Nat /\ d > 1 /\ snap[t] = hashpower /\ hashpower' = hashpower
      /\ buckets' = [buckets EXCEPT ![tb][ts] = e, ![fb][fs] = Free]
      /\ ~Stale(p)
  BY SnapIsCurrent, RecordType DEF Move
<1>2. buckets[tb][ts] = Free /\ e # Free
  BY <1>1 DEF Stale, occupied
<1>3. tb \in Buckets(hashpower) /\ fb \in Buckets(hashpower) /\ ts \in Slots /\ fs \in Slots
  <2>1. to \in CuckooRecord(snap[t]) /\ from \in CuckooRecord(snap[t])
    <3>1. d \in 1 .. Len(p) /\ d - 1 \in 1 .. Len(p)
      BY <1>1
    <3> QED
      BY <3>1, RecordType
  <2> HIDE DEF to, from
  <2> QED
    BY <1>1, <2>1 DEF CuckooRecord
<1> HIDE DEF p, d, to, from, tb, ts, fb, fs
<1>4. \A b \in Buckets(hashpower), s \in Slots :
        buckets'[b][s] = IF b = fb /\ s = fs THEN Free
                         ELSE IF b = tb /\ s = ts THEN e
                         ELSE buckets[b][s]
  BY <1>1, <1>3 DEF IndInv, TypeOK
<1>5. Positions = { q \in Buckets(hashpower) \X Slots : buckets[q[1]][q[2]] # Free }
  BY DEF Positions, occupied
<1>6. Positions' = { q \in Buckets(hashpower) \X Slots : buckets'[q[1]][q[2]] # Free }
  BY <1>1 DEF Positions, occupied
<1>7. ASSUME NEW q \in Positions
      PROVE  \E r \in Positions' : buckets'[r[1]][r[2]] = buckets[q[1]][q[2]]
  <2>1. CASE q = <<fb, fs>>
    <3>1. <<tb, ts>> \in Positions' /\ buckets'[tb][ts] = e
      BY <1>2, <1>3, <1>4, <1>6
    <3>2. buckets[q[1]][q[2]] = e
      BY <2>1
    <3> QED
      BY <3>1, <3>2
  <2>2. CASE q # <<fb, fs>>
    <3>1. q \in Buckets(hashpower) \X Slots /\ buckets[q[1]][q[2]] # Free
      BY <1>5
    <3>2. q # <<tb, ts>>
      BY <1>2, <3>1
    <3>3. buckets'[q[1]][q[2]] = buckets[q[1]][q[2]]
      BY <1>4, <2>2, <3>1, <3>2
    <3> QED
      BY <1>6, <3>1, <3>3
  <2> QED
    BY <2>1, <2>2
<1>8. ASSUME NEW q \in Positions'
      PROVE  \E r \in Positions : buckets'[q[1]][q[2]] = buckets[r[1]][r[2]]
  <2>1. q \in Buckets(hashpower) \X Slots /\ buckets'[q[1]][q[2]] # Free
    BY <1>6
  <2>2. CASE q = <<tb, ts>>
    <3>1. <<fb, fs>> \in Positions
      BY <1>2, <1>3, <1>5
    <3>2. buckets'[q[1]][q[2]] = e
      BY <1>4, <2>1, <2>2
    <3> QED
      BY <3>1, <3>2
  <2>3. CASE q # <<tb, ts>>
    <3>1. q # <<fb, fs>>
      BY <1>4, <2>1
    <3>2. buckets'[q[1]][q[2]] = buckets[q[1]][q[2]]
      BY <1>4, <2>1, <2>3, <3>1
    <3> QED
      BY <1>5, <2>1, <3>2
  <2> QED
    BY <2>2, <2>3
<1> QED
  BY <1>7, <1>8, ItemsMove DEF EntryAt

LEMMA ItemsAfterDouble ==
  ASSUME IndInv, NEW t \in Threads, Double(t)
  PROVE  Items' = Items
<1> DEFINE hp == hashpower
<1>1. hp \in Nat /\ hashpower' = hp + 1
  BY DEF Double, IndInv, ExpansionOK, TypeOK
<1>2. buckets' = [b \in Buckets(hp + 1) |->
                    IF b \in Buckets(hp) THEN buckets[b] ELSE [s \in Slots |-> Free]]
  BY BucketBits DEF Double, Doubled, IndInv
<1>3. Buckets(hp) \subseteq Buckets(hp + 1)
  BY <1>1, NewBucket
<1> HIDE DEF hp
<1>4. Positions = { q \in Buckets(hp) \X Slots : buckets[q[1]][q[2]] # Free }
  BY DEF Positions, occupied, hp
<1>5. Positions' = { q \in Buckets(hp + 1) \X Slots : buckets'[q[1]][q[2]] # Free }
  BY <1>1 DEF Positions, occupied
<1>6. \A q \in Positions : q \in Positions' /\ buckets'[q[1]][q[2]] = buckets[q[1]][q[2]]
  BY <1>2, <1>3, <1>4, <1>5
<1>7. \A q \in Positions' : q \in Positions /\ buckets'[q[1]][q[2]] = buckets[q[1]][q[2]]
  BY <1>2, <1>4, <1>5
<1> QED
  BY <1>6, <1>7, ItemsMove DEF EntryAt

\* The items that rise from one bucket get different slots of the new one.
LEMMA Ranks ==
  ASSUME NEW S \in SUBSET Slots, NEW s \in S
  PROVE  /\ Cardinality({ r \in S : r < s }) \in Slots
         /\ \A m \in S : Cardinality({ r \in S : r < m }) = Cardinality({ r \in S : r < s })
                           => m = s
<1> DEFINE Under(m) == { r \in S : r < m }
<1>1. \A m \in S : m \in Int /\ m >= 0 /\ m < SlotPerBucket
  BY MapAssumption DEF Slots
<1>2. IsFiniteSet(S)
  <2>1. IsFiniteSet(Slots)
    BY FS_Interval, MapAssumption DEF Slots
  <2> QED
    BY <2>1, FS_Subset
<1>3. ASSUME NEW m \in S
      PROVE  IsFiniteSet(Under(m)) /\ Cardinality(Under(m)) \in Nat /\ Cardinality(Under(m)) <= m
  <2>1. Under(m) \subseteq 0 .. m - 1
    BY <1>1
  <2>2. IsFiniteSet(0 .. m - 1) /\ Cardinality(0 .. m - 1) = m
    <3>1. m - 1 \in Int /\ (IF 0 > m - 1 THEN 0 ELSE (m - 1) - 0 + 1) = m
      BY <1>1
    <3> QED
      BY <3>1, FS_Interval
  <2> HIDE DEF Under
  <2>3. IsFiniteSet(Under(m)) /\ Cardinality(Under(m)) <= m
    BY <2>1, <2>2, FS_Subset
  <2> QED
    BY <2>3, FS_CardinalityType
<1>4. ASSUME NEW m \in S, NEW n \in S, m < n
      PROVE  Cardinality(Under(m)) # Cardinality(Under(n))
  <2>1. Under(m) \subseteq Under(n) /\ m \in Under(n) /\ m \notin Under(m)
    BY <1>1, <1>4
  <2> HIDE DEF Under
  <2> QED
    BY <1>3, <2>1, FS_Subset
<1>5. Cardinality(Under(s)) \in Slots
  <2> HIDE DEF Under
  <2> QED
    BY <1>1, <1>3, MapAssumption DEF Slots
<1>6. ASSUME NEW m \in S, Cardinality(Under(m)) = Cardinality(Under(s))
      PROVE  m = s
  <2> HIDE DEF Under
  <2> QED
    BY <1>1, <1>4, <1>6
<1> QED
  BY <1>5, <1>6

LEMMA RisenTo ==
  ASSUME NEW hp, NEW b, NEW s \in Rising(hp, b)
  PROVE  \E i \in Slots : Risen(hp, b)[i] = buckets[b][s]
<1> DEFINE i == Cardinality({ r \in Rising(hp, b) : r < s })
           ranked == { m \in Rising(hp, b) : Cardinality({ r \in Rising(hp, b) : r < m }) = i }
<1>1. Rising(hp, b) \in SUBSET Slots
  BY DEF Rising
<1>2. i \in Slots
  BY <1>1, Ranks
<1>3. ranked = {s}
  <2>1. s \in ranked
    OBVIOUS
  <2>2. \A m \in ranked : m = s
    BY <1>1, Ranks
  <2> QED
    BY <2>1, <2>2
<1>4. Risen(hp, b)[i] = IF ranked # {} THEN buckets[b][CHOOSE m \in ranked : TRUE] ELSE Free
  BY <1>2 DEF Risen
<1> HIDE DEF i, ranked
<1>5. (CHOOSE m \in ranked : TRUE) = s
  BY <1>3
<1> QED
  BY <1>2, <1>3, <1>4, <1>5 DEF i

\* Splitting the buckets of a lock loses no item and makes none.
LEMMA ItemsAfterSplit ==
  ASSUME IndInv, DataInv, NEW t \in Threads, MoveBuckets(t)
  PROVE  Items' = Items
<1> DEFINE hp == snap[t]
<1>1. PICK l \in want[t] : SplitLock(hp, l)
  BY DEF MoveBuckets
<1>2. /\ pc[t] = "split" /\ hp \in Nat /\ hashpower = hp + 1 /\ hashpower' = hashpower
      /\ l \in locks_to_move(hp)
  BY DEF MoveBuckets, IndInv, TypeOK, ExpansionOK
<1>3. \A b \in OldBuckets(hp, l), s \in Slots : ~occupied(b \cup {hp}, s)
  BY <1>2 DEF DataInv, NewAreEmpty, OldBuckets
<1> HIDE DEF hp
<1>4. \A q \in Positions' : \E p \in Positions : EntryAt(q)' = EntryAt(p)
  BY <1>1, <1>2, <1>3, SplitOrigin DEF IndInv
<1>5. Positions' = { q \in Buckets(hp + 1) \X Slots : buckets'[q[1]][q[2]] # Free }
  BY <1>2 DEF Positions, occupied
<1>6. ASSUME NEW p \in Positions
      PROVE  \E q \in Positions' : buckets'[q[1]][q[2]] = buckets[p[1]][p[2]]
  <2> DEFINE b == p[1]
             s == p[2]
  <2>1. /\ b \in Buckets(hp + 1) /\ s \in Slots /\ p = <<b, s>> /\ buckets[b][s] # Free
    BY <1>2 DEF Positions, occupied
  <2> HIDE DEF b, s
  <2>2. buckets' = [c \in Buckets(hp + 1) |->
                      IF c \in OldBuckets(hp, l) THEN LowerHalf(hp, c)
                      ELSE IF hp \in c /\ c \ {hp} \in OldBuckets(hp, l)
                           THEN UpperHalf(hp, c \ {hp})
                      ELSE buckets[c]]
    BY <1>1, <1>2 DEF SplitLock, IndInv, TypeOK
  <2>3. CASE b \in OldBuckets(hp, l) /\ s \in Rising(hp, b)
    <3> DEFINE c == b \cup {hp}
    <3>1. PICK i \in Slots : Risen(hp, b)[i] = buckets[b][s]
      BY <2>3, RisenTo
    <3>2. c \in Buckets(hp + 1) /\ hp \notin b /\ c \notin OldBuckets(hp, l)
      BY <1>2, <2>3, NewBucket DEF OldBuckets
    <3>3. c \ {hp} = b
      BY <3>2
    <3>4. buckets'[c] = UpperHalf(hp, b)
      BY <2>2, <2>3, <3>2, <3>3
    <3>5. UpperHalf(hp, b)[i] = buckets[b][s]
      BY <2>1, <3>1 DEF UpperHalf
    <3>6. <<c, i>> \in Positions'
      BY <1>5, <2>1, <3>1, <3>2, <3>4, <3>5
    <3> QED
      BY <2>1, <3>4, <3>5, <3>6
  <2>4. CASE b \in OldBuckets(hp, l) /\ s \notin Rising(hp, b)
    <3>1. buckets'[b][s] = buckets[b][s]
      BY <2>1, <2>2, <2>4 DEF LowerHalf
    <3> QED
      BY <1>5, <2>1, <3>1
  <2>5. CASE b \notin OldBuckets(hp, l) /\ hp \in b /\ b \ {hp} \in OldBuckets(hp, l)
    <3>1. (b \ {hp}) \cup {hp} = b
      BY <2>5
    <3> QED
      BY <1>3, <2>1, <2>5, <3>1 DEF occupied
  <2>6. CASE b \notin OldBuckets(hp, l) /\ ~(hp \in b /\ b \ {hp} \in OldBuckets(hp, l))
    <3>1. buckets'[b] = buckets[b]
      BY <2>1, <2>2, <2>6
    <3> QED
      BY <1>5, <2>1, <3>1
  <2> QED
    BY <2>3, <2>4, <2>5, <2>6
<1> QED
  BY <1>4, <1>6, ItemsMove DEF EntryAt

----------------------------------------------------------------------------
(* What an operation does to the dictionary.                               *)

LEMMA RequestKey ==
  ASSUME IndInv, NEW t \in Threads, pc[t] \in {"critical", "place"}
  PROVE  req[t] \in KeyRequests \cup ValRequests /\ req[t].key \in Keys
<1>1. req[t] \in KeyRequests \cup ValRequests
  BY DEF IndInv, RequestOK
<1> QED
  BY <1>1 DEF KeyRequests, ValRequests

\* An operation finds the key exactly if it is in the dictionary.
LEMMA FoundValue ==
  ASSUME IndInv, DataInv, NEW t \in Threads, pc[t] \in {"critical", "place"},
         NEW p \in cuckoo_find(t)
  PROVE  /\ dict[req[t].key] = buckets[p[1]][p[2]].val
         /\ dict[req[t].key] # None
<1>1. EntryAt(p) \in Items /\ EntryAt(p).key = req[t].key
  BY Found DEF Items, EntryAt, KeyAt
<1>2. DictOK
  BY DictNow DEF IndInv, DataInv
<1> QED
  BY <1>1, <1>2, ItemTypes DEF DictOK, EntryAt, IndInv

LEMMA NotFoundValue ==
  ASSUME IndInv, DataInv, NEW t \in Threads, pc[t] \in {"critical", "place"},
         cuckoo_find(t) = {}
  PROVE  dict[req[t].key] = None
<1>1. \A p \in Positions : KeyAt(p) # req[t].key
  BY NotFound DEF DataInv
<1>2. \A e \in Items : e.key # req[t].key
  BY <1>1 DEF Items, EntryAt, KeyAt
<1> QED
  BY <1>2, RequestKey, DictHasNot

LEMMA RemovedKey ==
  ASSUME IndInv, DataInv, TypeOK', NoDuplicates', hashpower' = hashpower,
         NEW t \in Threads, pc[t] \in {"critical", "place"},
         NEW p \in cuckoo_find(t), Put(p[1], p[2], Free)
  PROVE  dict' = [dict EXCEPT ![req[t].key] = None]
<1> DEFINE k == req[t].key
<1>1. DictOK /\ DictOK' /\ k \in Keys
  BY DictNow, DictNext, RequestKey DEF IndInv, DataInv
<1>2. /\ p[1] \in Buckets(hashpower) /\ p[2] \in Slots /\ buckets[p[1]][p[2]].key = k
      /\ \A q \in Positions : KeyAt(q) = k => q = <<p[1], p[2]>>
  BY Found, FoundIsOnly DEF DataInv, Positions, KeyAt
<1> HIDE DEF k
<1> DEFINE e == Free
<1>3. e = Free \/ e.key = k
  OBVIOUS
<1> HIDE DEF e
<1>4. Items' = { x \in Items : x.key # k } \cup (IF e = Free THEN {} ELSE {e})
  BY <1>2, <1>3, ItemsAfterPut DEF IndInv, k, e
<1>5. dict' = [dict EXCEPT ![k] = None]
  BY <1>1, <1>4, DictChanges DEF e
<1> QED
  BY <1>5 DEF k

LEMMA StoredKey ==
  ASSUME IndInv, DataInv, TypeOK', NoDuplicates', hashpower' = hashpower,
         NEW t \in Threads, pc[t] \in {"critical", "place"}, req[t] \in ValRequests,
         NEW b \in {first(t), second(t)}, NEW s \in Slots, Put(b, s, NewEntry(t)),
         occupied(b, s) => buckets[b][s].key = req[t].key,
         \A q \in Positions : KeyAt(q) = req[t].key => q = <<b, s>>
  PROVE  dict' = [dict EXCEPT ![req[t].key] = req[t].val]
<1> DEFINE k == req[t].key
           e == NewEntry(t)
<1>1. DictOK /\ DictOK' /\ k \in Keys
  BY DictNow, DictNext, RequestKey DEF IndInv, DataInv
<1>2. e # Free /\ e.key = k /\ e.val = req[t].val
  <2>1. e \in Entry
    BY NewEntryType
  <2> QED
    BY <2>1, FreeAssumption DEF NewEntry
<1>3. b \in Buckets(hashpower)
  BY SnapIsCurrent
<1> HIDE DEF k, e
<1>4. Items' = { x \in Items : x.key # k } \cup {e}
  BY <1>2, <1>3, ItemsAfterPut DEF IndInv, k, e
<1>5. dict' = [dict EXCEPT ![k] = e.val]
  BY <1>1, <1>2, <1>4, DictChanges
<1> QED
  BY <1>2, <1>5 DEF k

----------------------------------------------------------------------------
(* The steps at which operations take effect.                              *)

\* An operation that ends has a request and no result yet.
LEMMA MayPerform ==
  ASSUME IndInv, CallsOK, NEW t \in Threads, pc[t] \notin {"idle", "return"}
  PROVE  req[t] # None /\ res[t] = None /\ req[t] \in Requests
BY DEF CallsOK, CallOK, IndInv, RequestOK

LEMMA Performs ==
  ASSUME IndInv, CallsOK, NEW t \in Threads, pc[t] \in {"critical", "place"},
         dict' = Atomic!Effect(req[t]), NEW r, r = Atomic!Result(req[t]), Finish(t, r),
         req' = req
  PROVE  Atomic!Perform(t)
<1>1. req[t].op \notin {"size", "empty"}
  BY RequestKey DEF KeyRequests, ValRequests
<1> QED
  BY <1>1, MayPerform DEF Atomic!Perform, Finish

LEMMA FindPerforms ==
  ASSUME IndInv, DataInv, CallsOK, NEW t \in Threads, Find(t)
  PROVE  Atomic!Perform(t)
<1>1. /\ pc[t] = "critical" /\ req[t].op = "find" /\ UNCHANGED <<buckets, hashpower, req>>
  BY DEF Find, InCritical
<1>2. dict' = Atomic!Effect(req[t])
  <2>1. dict' = dict
    BY <1>1, DictStays
  <2> QED
    BY <1>1, <2>1 DEF Atomic!Effect
<1>3. ASSUME NEW p \in cuckoo_find(t)
      PROVE  <<"found", buckets[p[1]][p[2]].val>> = Atomic!Result(req[t])
  BY <1>1, FoundValue DEF Atomic!Result, Absent
<1>4. cuckoo_find(t) = {} => <<"false">> = Atomic!Result(req[t])
  BY <1>1, NotFoundValue DEF Atomic!Result, Absent
<1> QED
  BY <1>1, <1>2, <1>3, <1>4, Performs DEF Find

LEMMA ErasePerforms ==
  ASSUME IndInv, DataInv, CallsOK, TypeOK', NoDuplicates', NEW t \in Threads, Erase(t)
  PROVE  Atomic!Perform(t)
<1>1. pc[t] = "critical" /\ req[t].op = "erase" /\ UNCHANGED <<hashpower, req>>
  BY DEF Erase, InCritical
<1>2. ASSUME NEW p \in cuckoo_find(t), Put(p[1], p[2], Free), Finish(t, <<"true">>)
      PROVE  Atomic!Perform(t)
  <2>1. dict' = Atomic!Effect(req[t])
    BY <1>1, <1>2, RemovedKey DEF Atomic!Effect, Absent
  <2>2. <<"true">> = Atomic!Result(req[t])
    BY <1>1, FoundValue DEF Atomic!Result, Absent
  <2> QED
    BY <1>1, <1>2, <2>1, <2>2, Performs
<1>3. CASE cuckoo_find(t) = {} /\ Finish(t, <<"false">>) /\ UNCHANGED buckets
  <2>1. dict' = dict /\ dict[req[t].key] = None
    BY <1>1, <1>3, DictStays, NotFoundValue
  <2>2. dict' = Atomic!Effect(req[t])
    BY <1>1, <2>1, DictDomain DEF Atomic!Effect, Absent
  <2>3. <<"false">> = Atomic!Result(req[t])
    BY <1>1, <2>1 DEF Atomic!Result, Absent
  <2> QED
    BY <1>1, <1>3, <2>2, <2>3, Performs
<1> QED
  BY <1>2, <1>3 DEF Erase

LEMMA UpdatePerforms ==
  ASSUME IndInv, DataInv, CallsOK, TypeOK', NoDuplicates', NEW t \in Threads, Update(t)
  PROVE  Atomic!Perform(t)
<1>1. /\ pc[t] = "critical" /\ req[t].op = "update" /\ UNCHANGED <<hashpower, req>>
      /\ req[t] \in ValRequests
  BY DEF Update, InCritical, IndInv, RequestOK, KeyRequests
<1>2. ASSUME NEW p \in cuckoo_find(t), Put(p[1], p[2], NewEntry(t)), Finish(t, <<"true">>)
      PROVE  Atomic!Perform(t)
  <2>1. dict' = [dict EXCEPT ![req[t].key] = req[t].val]
    BY <1>1, <1>2, Found, FoundIsOnly, StoredKey DEF DataInv, KeyAt
  <2>2. dict[req[t].key] # None
    BY <1>1, FoundValue
  <2>3. dict' = Atomic!Effect(req[t])
    BY <1>1, <2>1, <2>2 DEF Atomic!Effect, Absent
  <2>4. <<"true">> = Atomic!Result(req[t])
    BY <1>1, <2>2 DEF Atomic!Result, Absent
  <2> QED
    BY <1>1, <1>2, <2>3, <2>4, Performs
<1>3. CASE cuckoo_find(t) = {} /\ Finish(t, <<"false">>) /\ UNCHANGED buckets
  <2>1. dict' = dict /\ dict[req[t].key] = None
    BY <1>1, <1>3, DictStays, NotFoundValue
  <2>2. dict' = Atomic!Effect(req[t])
    BY <1>1, <2>1 DEF Atomic!Effect, Absent
  <2>3. <<"false">> = Atomic!Result(req[t])
    BY <1>1, <2>1 DEF Atomic!Result, Absent
  <2> QED
    BY <1>1, <1>3, <2>2, <2>3, Performs
<1> QED
  BY <1>2, <1>3 DEF Update

\* An insert or upsert takes effect when it finds the key or adds it to a free
\* slot, at once or after the moves along a cuckoo path.
LEMMA InsertPerforms ==
  ASSUME IndInv, DataInv, CallsOK, TypeOK', NoDuplicates', NEW t \in Threads,
         pc[t] \in {"critical", "place"}, req[t] \in ValRequests,
         req[t].op \in {"upsert", "insert"}, UNCHANGED <<hashpower, req>>,
         \/ OnDuplicate(t)
         \/ \E b \in {first(t), second(t)}, s \in Slots :
              add_to_bucket(t, b, s) /\ ~occupied(b, s)
  PROVE  Atomic!Perform(t)
<1>1. CASE OnDuplicate(t)
  <2>1. PICK p \in cuckoo_find(t) :
          IF req[t].op = "upsert" THEN Put(p[1], p[2], NewEntry(t)) ELSE UNCHANGED buckets
    BY <1>1 DEF OnDuplicate
  <2>2. dict[req[t].key] # None
    BY FoundValue
  <2>3. dict' = Atomic!Effect(req[t])
    <3>1. CASE req[t].op = "upsert"
      <4>1. dict' = [dict EXCEPT ![req[t].key] = req[t].val]
        BY <2>1, <3>1, Found, FoundIsOnly, StoredKey DEF DataInv, KeyAt
      <4> QED
        BY <3>1, <4>1 DEF Atomic!Effect
    <3>2. CASE req[t].op = "insert"
      <4>1. dict' = dict
        BY <2>1, <3>2, DictStays
      <4> QED
        BY <2>2, <3>2, <4>1 DEF Atomic!Effect, Absent
    <3> QED
      BY <3>1, <3>2
  <2>4. <<"false">> = Atomic!Result(req[t])
    BY <2>2 DEF Atomic!Result, Absent
  <2> QED
    BY <1>1, <2>3, <2>4, Performs DEF OnDuplicate
<1>2. ASSUME NEW b \in {first(t), second(t)}, NEW s \in Slots,
             add_to_bucket(t, b, s), ~occupied(b, s)
      PROVE  Atomic!Perform(t)
  <2>1. cuckoo_find(t) = {} /\ Put(b, s, NewEntry(t)) /\ Finish(t, <<"true">>)
    BY <1>2 DEF add_to_bucket
  <2>2. dict[req[t].key] = None /\ \A q \in Positions : KeyAt(q) # req[t].key
    BY <2>1, NotFound, NotFoundValue DEF DataInv
  <2>3. dict' = [dict EXCEPT ![req[t].key] = req[t].val]
    BY <1>2, <2>1, <2>2, StoredKey
  <2>4. dict' = Atomic!Effect(req[t])
    BY <2>2, <2>3 DEF Atomic!Effect, Absent
  <2>5. <<"true">> = Atomic!Result(req[t])
    BY <2>2 DEF Atomic!Result, Absent
  <2> QED
    BY <2>1, <2>4, <2>5, Performs
<1> QED
  BY <1>1, <1>2

\* An operation that fails has changed nothing.
LEMMA ThrowPerforms ==
  ASSUME IndInv, CallsOK, NEW t \in Threads, pc[t] \notin {"idle", "return"},
         req[t].op \in {"find", "upsert", "insert", "update"},
         Finish(t, <<"throw">>), UNCHANGED <<buckets, hashpower, req>>
  PROVE  Atomic!Perform(t)
BY MayPerform, DictStays DEF Atomic!Perform, Finish

\* size and empty return any count and any answer.
LEMMA ScanPerforms ==
  ASSUME IndInv, CallsOK, NEW t \in Threads, ScanCounter(t)
  PROVE  Atomic!Perform(t) \/ (UNCHANGED <<dict, req, res>>)
<1>1. PICK l \in Lowest(want[t]) :
        LET total == (sum[t] + counter[l]) % CounterMod
            done == want[t] = {l} \/ (pc[t] = "scan" /\ req[t].op = "empty" /\ counter[l] # 0)
        IN  /\ pc[t] \in {"scan", "load"}
            /\ IF ~done THEN UNCHANGED <<pc, res>>
               ELSE IF pc[t] = "load" THEN Goto(t, "check") /\ UNCHANGED res
               ELSE Finish(t, IF req[t].op = "size" THEN <<"size", total>>
                              ELSE <<IF counter[l] = 0 THEN "true" ELSE "false">>)
            /\ UNCHANGED <<table, req, snap, path, bfs>>
  BY DEF ScanCounter
<1> DEFINE total == (sum[t] + counter[l]) % CounterMod
           result == IF req[t].op = "size" THEN <<"size", total>>
                     ELSE <<IF counter[l] = 0 THEN "true" ELSE "false">>
<1>2. dict' = dict /\ req' = req
  BY <1>1, DictStays DEF table
<1>3. total \in Counts
  <2>1. l \in Locks
    BY <1>1 DEF Lowest, IndInv, TypeOK
  <2> QED
    BY <2>1, MapAssumption DEF IndInv, TypeOK, Counts
<1>4. result \in CountResults
  BY <1>3 DEF CountResults
<1>5. res' = res \/ (pc[t] = "scan" /\ Finish(t, result))
  BY <1>1
<1> HIDE DEF total, result
<1>6. CASE pc[t] = "scan" /\ Finish(t, result)
  <2>1. req[t].op \in {"size", "empty"}
    BY <1>6 DEF IndInv, RequestOK, CountRequests
  <2> QED
    BY <1>2, <1>4, <1>6, <2>1, MayPerform DEF Atomic!Perform, Finish
<1> QED
  BY <1>2, <1>5, <1>6

\* The steps of a cuckoo search, the moves, and the doubling of the table are
\* not seen.
LEMMA HiddenSteps ==
  ASSUME IndInv, DataInv, TypeOK', NoDuplicates', NEW t \in Threads,
         \/ RunCuckoo(t) \/ SlotSearch(t) \/ Fill(t) \/ MoveFails(t) \/ NothingToMove(t) \/ Move(t)
         \/ Snapshot(t) \/ LockBucket(t) \/ HashpowerChanged(t) \/ LockExpansion(t) \/ LockAll(t)
         \/ Double(t) \/ MoveBuckets(t) \/ UnlockNew(t) \/ Expanded(t)
  PROVE  UNCHANGED <<dict, req, res>>
<1>1. CASE \/ RunCuckoo(t) \/ SlotSearch(t) \/ Fill(t) \/ MoveFails(t) \/ NothingToMove(t)
           \/ Snapshot(t) \/ LockBucket(t) \/ HashpowerChanged(t) \/ LockExpansion(t) \/ LockAll(t)
           \/ UnlockNew(t) \/ Expanded(t)
  <2>1. UNCHANGED <<buckets, hashpower, req, res>>
    BY <1>1 DEF RunCuckoo, SlotSearch, Fill, MoveFails, NothingToMove, Snapshot, LockBucket,
                HashpowerChanged, LockExpansion, LockAll, UnlockNew, Expanded, table, threads
  <2> QED
    BY <2>1, DictStays
<1>2. CASE Move(t) \/ Double(t) \/ MoveBuckets(t)
  <2>1. Items' = Items
    BY <1>2, ItemsAfterMove, ItemsAfterDouble, ItemsAfterSplit
  <2>2. DictOK /\ DictOK'
    BY DictNow, DictNext DEF IndInv, DataInv
  <2>3. UNCHANGED <<req, res>>
    BY <1>2 DEF Move, Double, MoveBuckets
  <2> QED
    BY <2>1, <2>2, <2>3, DictSame
<1> QED
  BY <1>1, <1>2

----------------------------------------------------------------------------
(* The refinement.                                                         *)

\* A call that a thread executes has a request, one that returns a result.
LEMMA CallStep ==
  ASSUME IndInv, CallsOK, NEW t \in Threads, NEW r \in Requests, Call(t, r)
  PROVE  Atomic!Call(t, r)
<1>1. req[t] = None
  BY DEF Call, CallsOK, CallOK
<1>2. dict' = dict
  BY DictStays DEF Call, table
<1> QED
  BY <1>1, <1>2 DEF Atomic!Call, Call

LEMMA ReturnStep ==
  ASSUME IndInv, CallsOK, NEW t \in Threads, Return(t)
  PROVE  Atomic!Return(t)
<1>1. res[t] # None
  BY DEF Return, CallsOK, CallOK
<1>2. dict' = dict
  BY DictStays DEF Return, table
<1> QED
  BY <1>1, <1>2 DEF Atomic!Return, Return

\* Every step of a thread is a step of the atomic dictionary, or not seen.
LEMMA StepRefines ==
  ASSUME IndInv, DataInv, CallsOK, TypeOK', NoDuplicates', NEW t \in Threads, Step(t)
  PROVE  Atomic!Perform(t) \/ Atomic!Return(t) \/ UNCHANGED <<dict, req, res>>
<1>1. CASE Find(t) \/ Erase(t) \/ Update(t)
  BY <1>1, FindPerforms, ErasePerforms, UpdatePerforms
<1>2. CASE Insert(t)
  <2>1. /\ pc[t] = "critical" /\ req[t] \in ValRequests /\ req[t].op \in {"upsert", "insert"}
        /\ UNCHANGED <<hashpower, req>>
    BY <1>2 DEF Insert, Inserting, IndInv, RequestOK, KeyRequests
  <2>2. ASSUME NEW p \in FreePosition(t), add_to_bucket(t, p[1], p[2])
        PROVE  Atomic!Perform(t)
    <3>1. p[1] \in {first(t), second(t)} /\ p[2] \in Slots /\ ~occupied(p[1], p[2])
      BY DEF FreePosition, FreeSlots
    <3> QED
      BY <2>1, <2>2, <3>1, InsertPerforms
  <2> QED
    BY <1>2, <2>1, <2>2, InsertPerforms DEF Insert
<1>3. CASE Place(t)
  <2>1. /\ pc[t] = "place" /\ req[t] \in ValRequests /\ UNCHANGED <<hashpower, req>>
        /\ Len(path[t]) = 1 /\ path[t][1].bucket \in {first(t), second(t)}
        /\ req[t].op \in {"upsert", "insert"}
    BY <1>3, Len(<<>>) = 0 DEF Place, IndInv, RequestOK, CallsOK, CallOK
  <2>2. ~occupied(path[t][1].bucket, path[t][1].slot)
    BY <2>1 DEF DataInv, PathOK
  <2>3. path[t][1].slot \in Slots
    <3>1. path[t][1] \in CuckooRecord(snap[t])
      BY <2>1, RecordType
    <3> QED
      BY <3>1 DEF CuckooRecord
  <2> QED
    BY <1>3, <2>1, <2>2, <2>3, InsertPerforms DEF Place
<1>4. CASE CopyThrows(t)
  BY <1>4, ThrowPerforms DEF CopyThrows
<1>5. CASE CheckResize(t)
  <2>1. pc[t] = "check" /\ req[t] \in ValRequests /\ UNCHANGED <<buckets, hashpower, req>>
    BY <1>5 DEF CheckResize, IndInv, RequestOK, Expanding
  <2>2. req[t].op \in {"upsert", "insert", "update"}
    BY <2>1 DEF ValRequests
  <2>3. Finish(t, <<"throw">>) \/ res' = res
    BY <1>5 DEF CheckResize
  <2> QED
    BY <2>1, <2>2, <2>3, ThrowPerforms, DictStays
<1>6. CASE DoubleThrows(t)
  <2>1. pc[t] = "double" /\ req[t] \in ValRequests /\ UNCHANGED <<buckets, hashpower, req>>
    BY <1>6 DEF DoubleThrows, IndInv, RequestOK, Expanding
  <2>2. req[t].op \in {"upsert", "insert", "update"}
    BY <2>1 DEF ValRequests
  <2> QED
    BY <1>6, <2>1, <2>2, ThrowPerforms DEF DoubleThrows
<1>7. CASE ScanCounter(t)
  BY <1>7, ScanPerforms
<1>8. CASE Return(t)
  BY <1>8, ReturnStep
<1> QED
  BY <1>1, <1>2, <1>3, <1>4, <1>5, <1>6, <1>7, <1>8, HiddenSteps DEF Step, Operate, Cuckoo, Expand

----------------------------------------------------------------------------
(* The calls.                                                              *)

\* A thread that neither starts, ends nor leaves a call.
LEMMA CallGoesOn ==
  ASSUME NEW t \in Threads, CallOK(t),
         pc[t] \notin {"idle", "return"}, pc'[t] \notin {"idle", "return"},
         req'[t] = req[t], res'[t] = res[t],
         path'[t] # <<>> \/ pc'[t] \in {"search", "fill", "move", "place", "expand"} \cup Expanding
           => \/ req[t].op \in {"upsert", "insert"} \/ path[t] # <<>>
              \/ pc[t] \in {"search", "fill", "move", "place", "expand"} \cup Expanding
  PROVE  CallOK(t)'
BY DEF CallOK, Expanding

LEMMA CallEnds ==
  ASSUME TypeOK, NEW t \in Threads, CallOK(t), pc[t] \notin {"idle", "return"},
         NEW r \in Results, Finish(t, r), req' = req, path' = path
  PROVE  CallOK(t)'
BY NoneAssumption DEF CallOK, TypeOK, Finish, Goto, Expanding

LEMMA OperateCallOK ==
  ASSUME IndInv, NEW t \in Threads, CallOK(t), Operate(t) \/ Place(t)
  PROVE  CallOK(t)'
<1>1. pc[t] \notin {"idle", "return"} /\ req' = req /\ path' = path /\ TypeOK
  BY DEF Operate, Find, Erase, Update, Insert, CopyThrows, Place, InCritical, Inserting, IndInv
<1>2. PICK r : Finish(t, r) /\ r \in Results
  <2>1. CASE Find(t)
    <3>1. ASSUME NEW p \in cuckoo_find(t)
          PROVE  <<"found", buckets[p[1]][p[2]].val>> \in Results
      BY <2>1, FindType DEF Find, InCritical, Results, Entry
    <3>2. <<"false">> \in Results
      BY DEF Results
    <3> QED
      BY <2>1, <3>1, <3>2 DEF Find
  <2>2. CASE Erase(t) \/ Update(t) \/ Insert(t) \/ CopyThrows(t) \/ Place(t)
    <3>1. Finish(t, <<"true">>) \/ Finish(t, <<"false">>) \/ Finish(t, <<"throw">>)
      BY <2>2 DEF Erase, Update, Insert, CopyThrows, Place, OnDuplicate, add_to_bucket
    <3> QED
      BY <3>1 DEF Results
  <2> QED
    BY <2>1, <2>2 DEF Operate
<1> QED
  BY <1>1, <1>2, CallEnds

LEMMA CuckooCallOK ==
  ASSUME IndInv, NEW t \in Threads, CallOK(t),
         \/ RunCuckoo(t) \/ SlotSearch(t) \/ Fill(t) \/ MoveFails(t) \/ NothingToMove(t) \/ Move(t)
         \/ Snapshot(t) \/ LockBucket(t) \/ HashpowerChanged(t)
  PROVE  CallOK(t)'
<1>1. UNCHANGED <<req, res>>
  BY DEF RunCuckoo, SlotSearch, Fill, MoveFails, NothingToMove, Move, Snapshot, LockBucket,
         HashpowerChanged, table, threads
<1> USE DEF Goto, IndInv, TypeOK, PathTypes
<1>2. CASE RunCuckoo(t) \/ MoveFails(t)
  BY <1>1, <1>2, CallGoesOn DEF RunCuckoo, MoveFails, StartSearch, Inserting
<1>3. CASE SlotSearch(t)
  BY <1>1, <1>3, CallGoesOn DEF SlotSearch
<1>4. CASE Fill(t)
  BY <1>1, <1>4, CallGoesOn DEF Fill, StartMove
<1>5. CASE NothingToMove(t) \/ Move(t)
  BY <1>1, <1>5, CallGoesOn DEF NothingToMove, Move, StartMove
<1>6. CASE Snapshot(t) \/ HashpowerChanged(t)
  BY <1>1, <1>6, CallGoesOn DEF Snapshot, HashpowerChanged, Expanding
<1>7. CASE LockBucket(t)
  BY <1>1, <1>7, CallGoesOn DEF LockBucket, Expanding
<1> QED
  BY <1>2, <1>3, <1>4, <1>5, <1>6, <1>7

LEMMA ExpandCallOK ==
  ASSUME IndInv, NEW t \in Threads, CallOK(t), Expand(t)
  PROVE  CallOK(t)'
<1>1. UNCHANGED <<req, path>> /\ pc[t] \in {"expand"} \cup Expanding /\ TypeOK
  BY DEF Expand, LockExpansion, CheckResize, LockAll, Double, DoubleThrows, MoveBuckets, UnlockNew,
         Expanded, threads, Expanding, IndInv
<1>2. <<"throw">> \in Results
  BY DEF Results
<1>3. Finish(t, <<"throw">>) \/ (res' = res /\ pc'[t] \notin {"idle", "return"})
  <2> USE DEF Goto, IndInv, TypeOK
  <2>1. CASE LockExpansion(t) \/ CheckResize(t) \/ LockAll(t)
    BY <2>1 DEF LockExpansion, CheckResize, LockAll
  <2>2. CASE Double(t) \/ DoubleThrows(t) \/ MoveBuckets(t)
    BY <2>2 DEF Double, DoubleThrows, MoveBuckets
  <2>3. CASE UnlockNew(t) \/ Expanded(t)
    BY <2>3 DEF UnlockNew, Expanded, threads
  <2> QED
    BY <2>1, <2>2, <2>3 DEF Expand
<1> QED
  BY <1>1, <1>2, <1>3, CallGoesOn, CallEnds DEF Expanding

LEMMA ScanCallOK ==
  ASSUME IndInv, NEW t \in Threads, CallOK(t), ScanCounter(t)
  PROVE  CallOK(t)'
<1>1. PICK l \in Lowest(want[t]) :
        LET total == (sum[t] + counter[l]) % CounterMod
            done == want[t] = {l} \/ (pc[t] = "scan" /\ req[t].op = "empty" /\ counter[l] # 0)
        IN  /\ pc[t] \in {"scan", "load"}
            /\ sum' = [sum EXCEPT ![t] = total]
            /\ IF ~done THEN UNCHANGED <<pc, res>>
               ELSE IF pc[t] = "load" THEN Goto(t, "check") /\ UNCHANGED res
               ELSE Finish(t, IF req[t].op = "size" THEN <<"size", total>>
                              ELSE <<IF counter[l] = 0 THEN "true" ELSE "false">>)
            /\ UNCHANGED <<table, req, snap, path, bfs>>
  BY DEF ScanCounter
<1> DEFINE total == (sum[t] + counter[l]) % CounterMod
           result == IF req[t].op = "size" THEN <<"size", total>>
                     ELSE <<IF counter[l] = 0 THEN "true" ELSE "false">>
<1>2. total \in Counts
  <2>1. l \in Locks
    BY <1>1 DEF Lowest, IndInv, TypeOK
  <2> QED
    BY <2>1, MapAssumption DEF IndInv, TypeOK, Counts
<1>3. result \in Results
  BY <1>2 DEF Results, CountResults
<1>4. \/ UNCHANGED <<pc, res>>
      \/ pc[t] = "load" /\ Goto(t, "check") /\ res' = res
      \/ Finish(t, result)
  BY <1>1
<1> HIDE DEF result, total
<1>5. UNCHANGED <<req, path>> /\ pc[t] \in {"scan", "load"} /\ TypeOK
  BY <1>1 DEF IndInv
<1>6. CASE UNCHANGED <<pc, res>> \/ (pc[t] = "load" /\ Goto(t, "check") /\ res' = res)
  <2>1. pc'[t] = pc[t] \/ (pc[t] = "load" /\ pc'[t] = "check")
    BY <1>5, <1>6 DEF Goto, TypeOK
  <2> QED
    BY <1>5, <1>6, <2>1, CallGoesOn DEF Expanding
<1> QED
  BY <1>3, <1>4, <1>5, <1>6, CallEnds

LEMMA CallOrReturnOK ==
  ASSUME IndInv, NEW t \in Threads, CallOK(t), Return(t) \/ \E r \in Requests : Call(t, r)
  PROVE  CallOK(t)'
<1> USE DEF Goto, IndInv, TypeOK, PathTypes
<1>1. CASE Return(t)
  BY <1>1 DEF Return, CallOK, Expanding
<1>2. CASE \E r \in Requests : Call(t, r)
  <2>1. path'[t] = <<>> /\ pc[t] = "idle" /\ res'[t] = res[t] /\ pc'[t] \in {"scan", "snapshot"}
        /\ req'[t] \in Requests
    BY <1>2 DEF Call, RequestOK
  <2> QED
    BY <2>1, NoneAssumption DEF CallOK, Expanding
<1> QED
  BY <1>1, <1>2

\* A step of a thread touches no other thread's result.
LEMMA OthersResults ==
  ASSUME TypeOK, NEW t \in Threads, (\E r \in Requests : Call(t, r)) \/ Step(t)
  PROVE  \A u \in Threads \ {t} : res'[u] = res[u]
<1>1. res' = res \/ \E r : res' = [res EXCEPT ![t] = r]
  <2>1. CASE \E r \in Requests : Call(t, r)
    BY <2>1 DEF Call
  <2>2. CASE Snapshot(t) \/ LockBucket(t) \/ HashpowerChanged(t) \/ Return(t)
    BY <2>2 DEF Snapshot, LockBucket, HashpowerChanged, Return
  <2>3. CASE Operate(t)
    BY <2>3 DEF Operate, Find, Erase, Update, Insert, CopyThrows, Finish, OnDuplicate, add_to_bucket
  <2>4. CASE Cuckoo(t)
    BY <2>4 DEF Cuckoo, RunCuckoo, SlotSearch, Fill, MoveFails, NothingToMove, Move, Place,
                OnDuplicate, add_to_bucket, Finish
  <2>5. CASE ScanCounter(t)
    BY <2>5 DEF ScanCounter, Finish
  <2>6. CASE Expand(t)
    BY <2>6 DEF Expand, LockExpansion, CheckResize, LockAll, Double, DoubleThrows, MoveBuckets,
                UnlockNew, Expanded, threads, Finish
  <2> QED
    BY <2>1, <2>2, <2>3, <2>4, <2>5, <2>6 DEF Step
<1> QED
  BY <1>1 DEF TypeOK

LEMMA StepCallsOK ==
  ASSUME IndInv, CallsOK, NEW t \in Threads, (\E r \in Requests : Call(t, r)) \/ Step(t)
  PROVE  CallsOK'
<1>1. CallOK(t)'
  BY OperateCallOK, CuckooCallOK, ExpandCallOK, ScanCallOK, CallOrReturnOK
     DEF CallsOK, Step, Cuckoo
<1>2. ASSUME NEW u \in Threads \ {t} PROVE CallOK(u)'
  BY StepLeavesOthers, OthersResults DEF CallsOK, CallOK, LeavesAlone, IndInv
<1> QED
  BY <1>1, <1>2 DEF CallsOK

LEMMA NextCallsOK == IndInv /\ CallsOK /\ [Next]_vars => CallsOK'
<1>1. CASE Next
  BY <1>1, StepCallsOK DEF Next
<1>2. CASE UNCHANGED vars
  BY <1>2 DEF CallsOK, CallOK, vars, threads
<1> QED
  BY <1>1, <1>2

----------------------------------------------------------------------------
(* The refinement theorem.                                                 *)

\* What Linearizable rests on: the protocol of the locks, the places of the
\* items, and what a thread has been asked for.
LinInv == IndInv /\ DataInv /\ CallsOK

LEMMA InitRefines == Init => Atomic!Init /\ LinInv
<1> SUFFICES ASSUME Init PROVE Atomic!Init /\ LinInv
  OBVIOUS
<1>1. \A p \in Buckets(hashpower) \X Slots : ~occupied(p[1], p[2])
  BY DEF Init, occupied
<1>2. dict = [k \in Keys |-> None]
  BY <1>1 DEF dict, Positions, Absent
<1>3. CallsOK
  BY DEF Init, CallsOK, CallOK, Expanding
<1> QED
  BY <1>2, <1>3, InitIndInv, InitDataInv DEF LinInv, Atomic!Init, Init, Absent

LEMMA NextRefines == LinInv /\ [Next]_vars => [Atomic!Next]_<<dict, req, res>> /\ LinInv'
<1> SUFFICES ASSUME LinInv, [Next]_vars PROVE [Atomic!Next]_<<dict, req, res>> /\ LinInv'
  OBVIOUS
<1>1. LinInv'
  BY NextIndInv, NextDataInv, NextCallsOK DEF LinInv
<1>2. TypeOK' /\ NoDuplicates'
  BY <1>1 DEF LinInv, IndInv, DataInv
<1>3. ASSUME NEW t \in Threads, NEW r \in Requests, Call(t, r)
      PROVE  Atomic!Next
  BY <1>3, CallStep DEF Atomic!Next, LinInv
<1>4. ASSUME NEW t \in Threads, Step(t)
      PROVE  Atomic!Next \/ UNCHANGED <<dict, req, res>>
  BY <1>2, <1>4, StepRefines DEF Atomic!Next, LinInv
<1>5. UNCHANGED vars => UNCHANGED <<dict, req, res>>
  BY DictStays DEF vars, table, threads
<1> QED
  BY <1>1, <1>3, <1>4, <1>5 DEF Next

\* Every operation takes effect on the dictionary at one instant between its
\* call and its return, whatever moves or splits go on around it, for every
\* hash function and every number of threads, keys, slots and locks.
THEOREM Implements == Spec => Linearizable
BY InitRefines, NextRefines, PTL DEF Spec, Linearizable, Atomic!Spec, Atomic!vars

----------------------------------------------------------------------------
(* The counters.                                                           *)

\* The sum of the counters differs from the number of items by a multiple of
\* the number at which a counter wraps.
CountOK == Congruent(SumOf(counter, Locks), Cardinality(Items), CounterMod)

----------------------------------------------------------------------------
(* Numbers of items.                                                       *)

LEMMA FiniteLocks == IsFiniteSet(Locks)
<1>1. IsFiniteSet(Bits(LockBits))
  BY FS_Interval, IndexAssumption DEF Bits
<1> QED
  BY <1>1, FS_SUBSET DEF Locks

LEMMA FinitePositions ==
  ASSUME TypeOK
  PROVE  IsFiniteSet(Positions)
<1>1. hashpower \in Nat
  BY DEF TypeOK
<1>2. IsFiniteSet(Bits(hashpower)) /\ IsFiniteSet(Slots)
  BY <1>1, FS_Interval, MapAssumption DEF Bits, Slots
<1>3. IsFiniteSet(Buckets(hashpower))
  BY <1>2, FS_SUBSET DEF Buckets, hashmask
<1>4. IsFiniteSet(Buckets(hashpower) \X Slots)
  BY <1>2, <1>3, FS_Product
<1> QED
  BY <1>4, FS_Subset DEF Positions

\* There are as many items as occupied slots, because no key is there twice.
LEMMA ItemCount ==
  ASSUME TypeOK, NoDuplicates
  PROVE  IsFiniteSet(Items) /\ Cardinality(Items) = Cardinality(Positions)
<1> DEFINE f == [p \in Positions |-> EntryAt(p)]
<1>1. \A p, q \in Positions : EntryAt(p) = EntryAt(q) => p = q
  BY DEF NoDuplicates, KeyAt, EntryAt
<1>2. f \in Bijection(Positions, Items)
  <2>1. f \in [Positions -> Items]
    BY DEF Items
  <2>2. \A p, q \in Positions : f[p] = f[q] => p = q
    BY <1>1
  <2>3. \A x \in Items : \E p \in Positions : f[p] = x
    BY DEF Items
  <2> HIDE DEF f
  <2> QED
    BY <2>1, <2>2, <2>3 DEF Bijection, Injection, Surjection, IsInjective
<1> HIDE DEF f
<1>3. IsFiniteSet(Positions)
  BY FinitePositions
<1> QED
  BY <1>2, <1>3, FS_Bijection, FS_SameCardinalityBij DEF ExistsBijection

LEMMA ItemsAreCounted ==
  ASSUME TypeOK, NoDuplicates
  PROVE  Cardinality(Items) \in Nat
BY ItemCount, FS_CardinalityType

LEMMA CounterSum ==
  ASSUME TypeOK
  PROVE  /\ counter \in [Locks -> Int]
         /\ SumOf(counter, Locks) \in Int
<1>1. counter \in [Locks -> Int]
  BY MapAssumption DEF TypeOK, Counts
<1> QED
  BY <1>1, FiniteLocks, SumType

\* What SizeExact says, in terms of the sums of FiniteSums.
LEMMA ExactWhenCongruent ==
  ASSUME TypeOK, NoDuplicates
  PROVE  SizeExact <=> CountOK
<1>1. MapThenSumSet(LAMBDA l : counter[l], Locks) = SumOf(counter, Locks)
  BY DEF SumOf, MapThenSumSet, MapThenFoldSet
<1>2. SumOf(counter, Locks) \in Int /\ Cardinality(Items) \in Int
  BY CounterSum, ItemsAreCounted
<1> QED
  BY <1>1, <1>2, ItemCount, SameModulo, MapAssumption DEF SizeExact, CountOK

----------------------------------------------------------------------------
(* How the counters and the number of items change.                        *)

LEMMA ModChange ==
  ASSUME NEW f \in [Locks -> Int], NEW l \in Locks, NEW d \in Int,
         NEW g, g = [f EXCEPT ![l] = (f[l] + d) % CounterMod]
  PROVE  g \in [Locks -> Int] /\ Congruent(SumOf(g, Locks), SumOf(f, Locks) + d, CounterMod)
<1> DEFINE v == (f[l] + d) % CounterMod
           rest == SumOf(f, Locks) - f[l]
<1>0. g = [f EXCEPT ![l] = v]
  OBVIOUS
<1>1. f[l] + d \in Int /\ CounterMod \in Nat \ {0}
  BY MapAssumption
<1>2. v \in 0 .. CounterMod - 1 /\ Congruent(v, f[l] + d, CounterMod)
  BY <1>1, ModCongruent
<1>3. v \in Int /\ rest \in Int
  BY <1>2, FiniteLocks, SumType, MapAssumption
<1> HIDE DEF v
<1>4. g \in [Locks -> Int] /\ SumOf(g, Locks) = SumOf(f, Locks) + (v - f[l])
  <2>1. SumOf([f EXCEPT ![l] = v], Locks) = SumOf(f, Locks) + (v - f[l])
    BY <1>3, FiniteLocks, SumChanges
  <2> QED
    BY <1>0, <1>3, <2>1
<1>5. SumOf(f, Locks) \in Int
  BY FiniteLocks, SumType
<1>6. SumOf(g, Locks) = v + rest /\ SumOf(f, Locks) + d = (f[l] + d) + rest
  BY <1>3, <1>4, <1>5
<1> HIDE DEF rest
<1>7. Congruent(v + rest, (f[l] + d) + rest, CounterMod)
  BY <1>1, <1>2, <1>3, CongruentPlus
<1> QED
  BY <1>4, <1>6, <1>7

LEMMA CountFollows ==
  ASSUME TypeOK, NoDuplicates, TypeOK', NoDuplicates', CountOK, NEW d \in Int,
         Congruent(SumOf(counter', Locks), SumOf(counter, Locks) + d, CounterMod),
         Cardinality(Items') = Cardinality(Items) + d
  PROVE  CountOK'
<1> DEFINE a == SumOf(counter', Locks)
           b == SumOf(counter, Locks)
           c == Cardinality(Items)
           m == CounterMod
<1>1. a \in Int /\ b \in Int
  <2>1. counter \in [Locks -> Int] /\ counter' \in [Locks -> Int]
    BY MapAssumption DEF TypeOK, Counts
  <2> QED
    BY <2>1, FiniteLocks, SumType
<1>2. c \in Int /\ m \in Nat
  BY ItemsAreCounted, MapAssumption
<1>3. Congruent(a, b + d, m) /\ Congruent(b, c, m)
  BY DEF CountOK
<1> HIDE DEF a, b, c, m
<1>4. Congruent(b + d, c + d, m)
  BY <1>1, <1>2, <1>3, CongruentPlus
<1>5. Congruent(a, c + d, m)
  BY <1>1, <1>2, <1>3, <1>4, CongruentTrans
<1> QED
  BY <1>5 DEF CountOK, a, c, m

LEMMA CountChanges ==
  ASSUME TypeOK, NEW l \in Locks, NEW d \in Int, Count(l, d)
  PROVE  Congruent(SumOf(counter', Locks), SumOf(counter, Locks) + d, CounterMod)
BY CounterSum, ModChange DEF Count

\* Items that move from one lock's buckets to another's leave the sum alone,
\* also when both locks are the same.
LEMMA RecountKeepsSum ==
  ASSUME TypeOK, NEW l \in Locks, NEW new \in Locks, NEW n \in Nat, Recount(l, new, n)
  PROVE  Congruent(SumOf(counter', Locks), SumOf(counter, Locks) + 0, CounterMod)
<1> DEFINE d == -n
           f == [counter EXCEPT ![l] = (counter[l] + d) % CounterMod]
           a == SumOf(counter, Locks)
           b == SumOf(f, Locks)
           c == SumOf(counter', Locks)
<1>1. counter \in [Locks -> Int] /\ a \in Int /\ d \in Int /\ n \in Int /\ d + n = 0
  BY CounterSum
<1>2. f = [counter EXCEPT ![l] = (@ - n) % CounterMod]
  <2>1. counter[l] - n = counter[l] + (-n)
    BY <1>1
  <2> QED
    BY <2>1
<1>3. counter' = [f EXCEPT ![new] = (f[new] + n) % CounterMod]
  BY <1>2 DEF Recount
<1> HIDE DEF d
<1>4. f \in [Locks -> Int] /\ Congruent(b, a + d, CounterMod)
  BY <1>1, ModChange
<1> HIDE DEF f
<1>5. counter' \in [Locks -> Int] /\ Congruent(c, b + n, CounterMod)
  BY <1>1, <1>3, <1>4, ModChange
<1>6. b \in Int /\ c \in Int /\ CounterMod \in Nat
  BY <1>4, <1>5, FiniteLocks, SumType, MapAssumption
<1> HIDE DEF a, b, c
<1>7. Congruent(b + n, (a + d) + n, CounterMod)
  <2> DEFINE e == a + d
  <2>1. e \in Int
    BY <1>1
  <2> HIDE DEF e
  <2>2. Congruent(b + n, e + n, CounterMod)
    BY <1>1, <1>4, <1>6, <2>1, CongruentPlus DEF e
  <2> QED
    BY <2>2 DEF e
<1>8. (a + d) + n = a + 0
  BY <1>1
<1> QED
  BY <1>1, <1>5, <1>6, <1>7, <1>8, CongruentTrans DEF a, c

LEMMA PutPositions ==
  ASSUME TypeOK, NEW b \in Buckets(hashpower), NEW s \in Slots, NEW e, Put(b, s, e),
         hashpower' = hashpower
  PROVE  Positions' = IF e = Free THEN Positions \ {<<b, s>>} ELSE Positions \cup {<<b, s>>}
<1>1. \A c \in Buckets(hashpower), r \in Slots :
        buckets'[c][r] = IF c = b /\ r = s THEN e ELSE buckets[c][r]
  BY PutSlot
<1>2. Positions = { p \in Buckets(hashpower) \X Slots : buckets[p[1]][p[2]] # Free }
  BY DEF Positions, occupied
<1>3. Positions' = { p \in Buckets(hashpower) \X Slots : buckets'[p[1]][p[2]] # Free }
  BY DEF Positions, occupied
<1>4. ASSUME NEW p \in Buckets(hashpower) \X Slots
      PROVE  buckets'[p[1]][p[2]] = IF p = <<b, s>> THEN e ELSE buckets[p[1]][p[2]]
  BY <1>1
<1>5. <<b, s>> \in Buckets(hashpower) \X Slots
  OBVIOUS
<1>6. CASE e = Free
  BY <1>2, <1>3, <1>4, <1>5, <1>6
<1>7. CASE e # Free
  BY <1>2, <1>3, <1>4, <1>5, <1>7
<1> QED
  BY <1>6, <1>7

LEMMA ItemCountNow == TypeOK /\ NoDuplicates => Cardinality(Items) = Cardinality(Positions)
BY ItemCount

LEMMA ItemCountNext == TypeOK' /\ NoDuplicates' => Cardinality(Items') = Cardinality(Positions')
<1>1. (TypeOK /\ NoDuplicates => Cardinality(Items) = Cardinality(Positions))'
  BY ItemCountNow, PTL
<1> QED
  BY <1>1

LEMMA PutCounts ==
  ASSUME TypeOK, NoDuplicates, TypeOK', NoDuplicates',
         NEW b \in Buckets(hashpower), NEW s \in Slots, NEW e, Put(b, s, e),
         hashpower' = hashpower
  PROVE  Cardinality(Items') = Cardinality(Items)
                                 + (IF e = Free THEN IF occupied(b, s) THEN -1 ELSE 0
                                    ELSE IF occupied(b, s) THEN 0 ELSE 1)
<1> DEFINE p == <<b, s>>
<1>1. p \in Positions <=> occupied(b, s)
  BY DEF Positions
<1>2. Positions' = IF e = Free THEN Positions \ {p} ELSE Positions \cup {p}
  BY PutPositions
<1>3. IsFiniteSet(Positions)
  BY FinitePositions
<1>4. Cardinality(Items) = Cardinality(Positions) /\ Cardinality(Items') = Cardinality(Positions')
  BY ItemCountNow, ItemCountNext
<1>5. Cardinality(Positions) \in Nat
  BY <1>3, FS_CardinalityType
<1> HIDE DEF p
<1>6. CASE e = Free
  <2>1. Cardinality(Positions \ {p}) = IF p \in Positions THEN Cardinality(Positions) - 1
                                       ELSE Cardinality(Positions)
    BY <1>3, FS_RemoveElement
  <2> QED
    BY <1>1, <1>2, <1>4, <1>5, <1>6, <2>1
<1>7. CASE e # Free
  <2>1. Cardinality(Positions \cup {p}) = IF p \in Positions THEN Cardinality(Positions)
                                          ELSE Cardinality(Positions) + 1
    BY <1>3, FS_AddElement
  <2> QED
    BY <1>1, <1>2, <1>4, <1>5, <1>7, <2>1
<1> QED
  BY <1>6, <1>7

----------------------------------------------------------------------------
(* Every step keeps the count.                                             *)

LEMMA SameCount ==
  ASSUME CountOK, Items' = Items, counter' = counter
  PROVE  CountOK'
BY DEF CountOK

LEMMA UntouchedCount ==
  ASSUME CountOK, UNCHANGED <<buckets, hashpower, counter>>
  PROVE  CountOK'
BY ItemsSame, SameCount

LEMMA NoChange ==
  ASSUME TypeOK, counter' = counter
  PROVE  Congruent(SumOf(counter', Locks), SumOf(counter, Locks) + 0, CounterMod)
<1> DEFINE a == SumOf(counter, Locks)
<1>1. a \in Int /\ SumOf(counter', Locks) = a
  BY CounterSum
<1> HIDE DEF a
<1>2. a = (a + 0) + 0 * CounterMod
  BY <1>1, MapAssumption
<1> QED
  BY <1>1, <1>2 DEF Congruent, a

\* One slot changes, and the counter of its bucket's lock with it.
LEMMA PutCountOK ==
  ASSUME TypeOK, NoDuplicates, TypeOK', NoDuplicates', CountOK, hashpower' = hashpower,
         NEW b \in Buckets(hashpower), NEW s \in Slots, NEW e, Put(b, s, e),
         \/ e = Free /\ occupied(b, s) /\ Count(lock_ind(b), -1)
         \/ e # Free /\ occupied(b, s) /\ counter' = counter
         \/ e # Free /\ ~occupied(b, s) /\ Count(lock_ind(b), 1)
  PROVE  CountOK'
<1>1. lock_ind(b) \in Locks /\ -1 \in Int
  BY IndexTypes
<1>2. CASE e = Free /\ occupied(b, s) /\ Count(lock_ind(b), -1)
  <2>1. Cardinality(Items') = Cardinality(Items) + (-1)
    BY <1>2, PutCounts
  <2>2. Congruent(SumOf(counter', Locks), SumOf(counter, Locks) + (-1), CounterMod)
    BY <1>1, <1>2, CountChanges
  <2> QED
    BY <1>1, <2>1, <2>2, CountFollows
<1>3. CASE e # Free /\ occupied(b, s) /\ counter' = counter
  <2>1. Cardinality(Items') = Cardinality(Items) + 0
    BY <1>3, PutCounts
  <2> QED
    BY <1>3, <2>1, NoChange, CountFollows
<1>4. CASE e # Free /\ ~occupied(b, s) /\ Count(lock_ind(b), 1)
  <2>1. Cardinality(Items') = Cardinality(Items) + 1
    BY <1>4, PutCounts
  <2>2. Congruent(SumOf(counter', Locks), SumOf(counter, Locks) + 1, CounterMod)
    BY <1>1, <1>4, CountChanges
  <2> QED
    BY <2>1, <2>2, CountFollows
<1> QED
  BY <1>2, <1>3, <1>4

LEMMA NewEntryIsOne ==
  ASSUME NEW t \in Threads, req[t] \in ValRequests
  PROVE  NewEntry(t) # Free
BY NewEntryType, FreeAssumption

\* What an operation finds is in the table.
LEMMA FoundIsThere ==
  ASSUME IndInv, NEW t \in Threads, pc[t] \in {"critical", "place"}, NEW p \in cuckoo_find(t)
  PROVE  p[1] \in Buckets(hashpower) /\ p[2] \in Slots /\ occupied(p[1], p[2])
BY Found DEF Positions

LEMMA InsertCountOK ==
  ASSUME IndInv, DataInv, TypeOK', NoDuplicates', CountOK, hashpower' = hashpower,
         NEW t \in Threads, pc[t] \in {"critical", "place"}, req[t] \in ValRequests,
         \/ OnDuplicate(t)
         \/ \E b \in {first(t), second(t)}, s \in Slots :
              add_to_bucket(t, b, s) /\ ~occupied(b, s)
  PROVE  CountOK'
<1>1. TypeOK /\ NoDuplicates /\ NewEntry(t) # Free
  BY NewEntryIsOne DEF IndInv, DataInv
<1>2. CASE OnDuplicate(t)
  BY <1>1, <1>2, FoundIsThere, PutCountOK, UntouchedCount DEF OnDuplicate
<1>3. ASSUME NEW b \in {first(t), second(t)}, NEW s \in Slots,
             add_to_bucket(t, b, s), ~occupied(b, s)
      PROVE  CountOK'
  <2>1. b \in Buckets(hashpower)
    BY SnapIsCurrent
  <2> QED
    BY <1>1, <1>3, <2>1, PutCountOK DEF add_to_bucket
<1> QED
  BY <1>2, <1>3

LEMMA OperateCountOK ==
  ASSUME IndInv, DataInv, TypeOK', NoDuplicates', CountOK, NEW t \in Threads, Operate(t)
  PROVE  CountOK'
<1>0. TypeOK /\ NoDuplicates
  BY DEF IndInv, DataInv
<1>1. CASE Find(t) \/ CopyThrows(t)
  BY <1>1, UntouchedCount DEF Find, CopyThrows
<1>2. CASE Erase(t)
  <2>1. pc[t] = "critical" /\ hashpower' = hashpower
    BY <1>2 DEF Erase, InCritical
  <2>2. ASSUME NEW p \in cuckoo_find(t), Put(p[1], p[2], Free), Count(lock_ind(p[1]), -1)
        PROVE  CountOK'
    <3>1. p[1] \in Buckets(hashpower) /\ p[2] \in Slots /\ occupied(p[1], p[2])
      BY <2>1, FoundIsThere
    <3> DEFINE e == Free
    <3>2. Put(p[1], p[2], e) /\ e = Free
      BY <2>2
    <3> HIDE DEF e
    <3> QED
      BY <1>0, <2>1, <2>2, <3>1, <3>2, PutCountOK
  <2> QED
    BY <1>2, <2>1, <2>2, UntouchedCount DEF Erase
<1>3. CASE Update(t)
  <2>1. pc[t] = "critical" /\ hashpower' = hashpower /\ counter' = counter
        /\ req[t] \in ValRequests
    BY <1>3 DEF Update, InCritical, IndInv, RequestOK, KeyRequests
  <2>2. NewEntry(t) # Free
    BY <2>1, NewEntryIsOne
  <2> QED
    BY <1>0, <1>3, <2>1, <2>2, FoundIsThere, PutCountOK, UntouchedCount DEF Update
<1>4. CASE Insert(t)
  <2>1. pc[t] = "critical" /\ req[t] \in ValRequests /\ hashpower' = hashpower
    BY <1>4 DEF Insert, Inserting, IndInv, RequestOK, KeyRequests
  <2>2. \A p \in FreePosition(t) :
          p[1] \in {first(t), second(t)} /\ p[2] \in Slots /\ ~occupied(p[1], p[2])
    BY DEF FreePosition, FreeSlots
  <2> QED
    BY <1>4, <2>1, <2>2, InsertCountOK DEF Insert
<1> QED
  BY <1>1, <1>2, <1>3, <1>4 DEF Operate

LEMMA PlaceCountOK ==
  ASSUME IndInv, DataInv, TypeOK', NoDuplicates', CountOK, NEW t \in Threads, Place(t)
  PROVE  CountOK'
<1>1. /\ pc[t] = "place" /\ req[t] \in ValRequests /\ hashpower' = hashpower
      /\ Len(path[t]) = 1 /\ path[t][1].bucket \in {first(t), second(t)}
  BY Len(<<>>) = 0 DEF Place, IndInv, RequestOK
<1>2. ~occupied(path[t][1].bucket, path[t][1].slot)
  BY <1>1 DEF DataInv, PathOK
<1>3. path[t][1].slot \in Slots
  <2>1. path[t][1] \in CuckooRecord(snap[t])
    BY <1>1, RecordType
  <2> QED
    BY <2>1 DEF CuckooRecord
<1> QED
  BY <1>1, <1>2, <1>3, InsertCountOK DEF Place

LEMMA SplitCountOK ==
  ASSUME IndInv, DataInv, TypeOK', NoDuplicates', CountOK, NEW t \in Threads, MoveBuckets(t)
  PROVE  CountOK'
<1> DEFINE hp == snap[t]
<1>1. PICK l \in want[t] : SplitLock(hp, l)
  BY DEF MoveBuckets
<1>2. hp \in Nat /\ l \in Locks /\ TypeOK /\ NoDuplicates
  BY DEF MoveBuckets, IndInv, TypeOK, DataInv
<1> HIDE DEF hp
<1> DEFINE n == Cardinality(RisingItems(hp, l))
           new == lock_ind(l \cup {hp})
<1>3. n \in Nat
  <2>1. RisingItems(hp, l) \in SUBSET (Buckets(hp) \X Slots)
    BY DEF RisingItems, OldBuckets
  <2> QED
    BY <1>2, <2>1, FiniteItems
<1>4. new \in Locks
  BY IndexTypes
<1>5. Recount(l, new, n)
  BY <1>1 DEF SplitLock
<1> HIDE DEF n, new
<1>6. Congruent(SumOf(counter', Locks), SumOf(counter, Locks) + 0, CounterMod)
  BY <1>2, <1>3, <1>4, <1>5, RecountKeepsSum
<1>7. Cardinality(Items') = Cardinality(Items) + 0
  BY <1>2, ItemsAfterSplit, ItemsAreCounted
<1> QED
  BY <1>2, <1>6, <1>7, CountFollows

LEMMA StepCountOK ==
  ASSUME IndInv, DataInv, TypeOK', NoDuplicates', CountOK, NEW t \in Threads,
         (\E r \in Requests : Call(t, r)) \/ Step(t)
  PROVE  CountOK'
<1>1. CASE \/ \E r \in Requests : Call(t, r)
           \/ Snapshot(t) \/ LockBucket(t) \/ HashpowerChanged(t) \/ ScanCounter(t) \/ Return(t)
  <2>1. UNCHANGED <<buckets, hashpower, counter>>
    BY <1>1 DEF Call, Snapshot, LockBucket, HashpowerChanged, ScanCounter, Return, table
  <2> QED
    BY <2>1, UntouchedCount
<1>2. CASE Operate(t)
  BY <1>2, OperateCountOK
<1>3. CASE RunCuckoo(t) \/ SlotSearch(t) \/ Fill(t) \/ MoveFails(t) \/ NothingToMove(t)
  BY <1>3, UntouchedCount DEF RunCuckoo, SlotSearch, Fill, MoveFails, NothingToMove, table
<1>4. CASE Move(t)
  BY <1>4, ItemsAfterMove, SameCount DEF Move
<1>5. CASE Place(t)
  BY <1>5, PlaceCountOK
<1>6. CASE \/ LockExpansion(t) \/ CheckResize(t) \/ LockAll(t) \/ DoubleThrows(t)
           \/ UnlockNew(t) \/ Expanded(t)
  BY <1>6, UntouchedCount DEF LockExpansion, CheckResize, LockAll, DoubleThrows, UnlockNew, Expanded
<1>7. CASE Double(t)
  BY <1>7, ItemsAfterDouble, SameCount DEF Double
<1>8. CASE MoveBuckets(t)
  BY <1>8, SplitCountOK
<1> QED
  BY <1>1, <1>2, <1>3, <1>4, <1>5, <1>6, <1>7, <1>8 DEF Step, Cuckoo, Expand

LEMMA InitCountOK == Init => CountOK
<1> SUFFICES ASSUME Init PROVE CountOK
  OBVIOUS
<1>1. SumOf(counter, Locks) = 0
  BY FiniteLocks, SumOfZeros DEF Init
<1>2. \A p \in Buckets(hashpower) \X Slots : ~occupied(p[1], p[2])
  BY DEF Init, occupied
<1>3. Items = {}
  BY <1>2 DEF Items, Positions
<1>4. Cardinality(Items) = 0
  BY <1>3, FS_EmptySet
<1>5. 0 = 0 + 0 * CounterMod
  BY MapAssumption
<1> QED
  BY <1>1, <1>4, <1>5 DEF CountOK, Congruent

LEMMA NextCountOK == IndInv /\ DataInv /\ CountOK /\ [Next]_vars => CountOK'
<1> SUFFICES ASSUME IndInv, DataInv, CountOK, [Next]_vars PROVE CountOK'
  OBVIOUS
<1>1. TypeOK' /\ NoDuplicates'
  BY NextIndInv, NextDataInv DEF IndInv, DataInv
<1>2. CASE Next
  BY <1>1, <1>2, StepCountOK DEF Next
<1>3. CASE UNCHANGED vars
  BY <1>3, UntouchedCount DEF vars, table
<1> QED
  BY <1>2, <1>3

----------------------------------------------------------------------------
(* The theorem about the counters.                                         *)

\* The elem_counters always add up to the number of items, modulo the number
\* at which they wrap: through inserts, erases, moves along cuckoo paths,
\* which leave the counters behind, and splits, which take them along.
THEOREM SizeIsExact == Spec => []SizeExact
<1>1. IndInv /\ DataInv /\ CountOK => SizeExact
  BY ExactWhenCongruent DEF IndInv, DataInv
<1> QED
  BY <1>1, InitIndInv, InitDataInv, InitCountOK, NextIndInv, NextDataInv, NextCountOK, PTL DEF Spec

----------------------------------------------------------------------------
(* The fixed-size arrays of a search.                                      *)

\* PathsFit, for one thread.
SearchFits(s) ==
  /\ Len(s.q) < MAX_CUCKOO_COUNT - 1
  /\ FitsRecords(s.x)
  /\ \A i \in 1 .. Len(s.q) : FitsRecords(s.q[i])

PathFits(t) ==
  /\ pc[t] = "search" => SearchFits(bfs[t])
  /\ pc[t] = "fill" => Len(bfs[t].slots) <= MAX_BFS_PATH_LEN
  /\ Len(path[t]) <= MAX_BFS_PATH_LEN

LEMMA FitsEach == PathsFit <=> \A t \in Threads : PathFits(t)
BY DEF PathsFit, PathFits, SearchFits

LEMMA FitsEachNext == PathsFit' <=> \A t \in Threads : PathFits(t)'
BY DEF PathsFit, PathFits, SearchFits

\* The search goes on only while the queue has room for one more.
LEMMA SearchOnFits ==
  ASSUME NEW S, NEW x, NEW q \in Seq(S), NEW i \in Nat,
         Len(q) <= MAX_CUCKOO_COUNT - 1, FitsRecords(x),
         \A j \in 1 .. Len(q) : FitsRecords(q[j]),
         SearchOn(x, q, i) # None
  PROVE  SearchFits(SearchOn(x, q, i))
<1>1. Len(q) < MAX_CUCKOO_COUNT - 1
  BY MapAssumption DEF SearchOn, full
<1>2. CASE i < SlotPerBucket
  BY <1>1, <1>2 DEF SearchOn, full, SearchFits
<1>3. CASE ~(i < SlotPerBucket) /\ q # <<>>
  <2>1. SearchOn(x, q, i) = [x |-> Head(q), q |-> Tail(q), i |-> 0]
    BY <1>1, <1>3 DEF SearchOn, full
  <2>2. Head(q) = q[1] /\ Len(q) > 0 /\ Len(Tail(q)) = Len(q) - 1
    BY <1>3, HeadTailProperties, EmptySeq
  <2>3. \A j \in 1 .. Len(Tail(q)) : Tail(q)[j] = q[j + 1]
    BY <1>3, HeadTailProperties
  <2> QED
    BY <1>1, <2>1, <2>2, <2>3, MapAssumption DEF SearchFits
<1>4. CASE ~(i < SlotPerBucket) /\ q = <<>>
  BY <1>4 DEF SearchOn
<1> QED
  BY <1>2, <1>3, <1>4

\* The two paths of a new search have no record yet.
LEMMA SearchStartFits ==
  ASSUME NEW t \in Threads, IndInv, StartSearch(t)
  PROVE  PathFits(t)'
<1>1. path'[t] = <<>> /\ pc'[t] = "search"
  BY DEF StartSearch, Goto, IndInv, TypeOK, PathTypes
<1>2. bfs'[t] = [x |-> [bucket |-> first(t), from |-> 0, slots |-> <<>>],
                 q |-> <<[bucket |-> second(t), from |-> 1, slots |-> <<>>]>>,
                 i |-> 0]
  BY DEF StartSearch, IndInv, TypeOK, PathTypes
<1>3. Len(<<>>) = 0 /\ 0 < MAX_BFS_PATH_LEN /\ 1 < MAX_CUCKOO_COUNT - 1
  BY MapAssumption
<1>4. SearchFits(bfs'[t])
  BY <1>2, <1>3 DEF SearchFits, FitsRecords
<1> QED
  BY <1>1, <1>3, <1>4, MapAssumption DEF PathFits

LEMMA SlotSearchFits ==
  ASSUME NEW t \in Threads, IndInv, PathFits(t), SlotSearch(t)
  PROVE  PathFits(t)'
<1> DEFINE x == bfs[t].x
           slot == (starting_slot(x) + bfs[t].i) % SlotPerBucket
           slots == Append(x.slots, slot)
           y == [bucket |-> alt_index(snap[t], partial_key(Hash[buckets[x.bucket][slot].key]),
                                      x.bucket),
                 from |-> x.from, slots |-> slots]
           q == IF MayExtend(x) THEN Append(bfs[t].q, y) ELSE bfs[t].q
           on == SearchOn(x, q, bfs[t].i + 1)
           found == [from |-> x.from, slots |-> slots]
<1>1. /\ pc[t] = "search" /\ path'[t] = path[t]
      /\ bfs[t] \in Search(snap[t]) /\ path[t] = <<>>
  BY DEF SlotSearch, IndInv, RequestOK
<1>2. \/ bfs' = [bfs EXCEPT ![t] = found] /\ Goto(t, "fill")
      \/ /\ bfs' = [bfs EXCEPT ![t] = on]
         /\ IF bfs'[t] = None THEN Goto(t, "expand") ELSE UNCHANGED pc
  BY DEF SlotSearch
<1>3. /\ x \in b_slot(snap[t]) /\ bfs[t].q \in Seq(b_slot(snap[t])) /\ bfs[t].i \in Slots
      /\ x.slots \in Seq(Slots)
  BY <1>1 DEF Search, b_slot
<1>4. SearchFits(bfs[t])
  BY <1>1 DEF PathFits
<1>5. Len(slots) = Len(x.slots) + 1 /\ Len(x.slots) \in Nat
  <2>1. slot \in Slots
    <3>1. starting_slot(x) \in Nat
      BY <1>3, MapAssumption DEF starting_slot, b_slot, Slots
    <3> QED
      BY <1>3, <3>1, MapAssumption DEF Slots
  <2> HIDE DEF slot, x
  <2> QED
    BY <1>3, <2>1, AppendProperties, LenProperties
<1>6. Len(slots) <= MAX_BFS_PATH_LEN
  BY <1>4, <1>5, MapAssumption DEF SearchFits, FitsRecords
<1>7. ASSUME MayExtend(x) PROVE FitsRecords(y)
  BY <1>5, <1>7, MapAssumption DEF MayExtend, FitsRecords
<1>8. Len(<<>>) <= MAX_BFS_PATH_LEN
  BY MapAssumption
<1> HIDE DEF x, slot, slots, y
<1>9. /\ q \in Seq(b_slot(snap[t]) \cup {y}) /\ Len(q) <= MAX_CUCKOO_COUNT - 1
      /\ \A j \in 1 .. Len(q) : FitsRecords(q[j])
  <2>1. /\ bfs[t].q \in Seq(b_slot(snap[t]) \cup {y}) /\ Len(bfs[t].q) \in Nat
        /\ Len(bfs[t].q) < MAX_CUCKOO_COUNT - 1
        /\ \A j \in 1 .. Len(bfs[t].q) : FitsRecords(bfs[t].q[j])
    BY <1>3, <1>4, LenProperties DEF SearchFits
  <2>2. CASE MayExtend(x)
    <3>1. /\ q = Append(bfs[t].q, y) /\ q \in Seq(b_slot(snap[t]) \cup {y})
          /\ Len(q) = Len(bfs[t].q) + 1
          /\ \A j \in 1 .. Len(bfs[t].q) : q[j] = bfs[t].q[j]
          /\ q[Len(bfs[t].q) + 1] = y
      BY <2>1, <2>2, AppendProperties
    <3> QED
      BY <1>7, <2>1, <2>2, <3>1, MapAssumption
  <2>3. CASE ~ MayExtend(x)
    BY <2>1, <2>3, MapAssumption
  <2> QED
    BY <2>2, <2>3
<1> HIDE DEF q
<1>10. CASE bfs' = [bfs EXCEPT ![t] = found] /\ Goto(t, "fill")
  <2>1. bfs'[t].slots = slots /\ pc'[t] = "fill"
    BY <1>10 DEF IndInv, TypeOK, PathTypes, Goto
  <2> QED
    BY <1>1, <1>6, <1>8, <2>1 DEF PathFits
<1>11. CASE /\ bfs' = [bfs EXCEPT ![t] = on]
            /\ IF bfs'[t] = None THEN Goto(t, "expand") ELSE UNCHANGED pc
  <2>1. bfs'[t] = on /\ (on = None => pc'[t] = "expand") /\ (on # None => pc'[t] = "search")
    BY <1>1, <1>11 DEF IndInv, TypeOK, PathTypes, Goto
  <2>2. FitsRecords(x) /\ bfs[t].i + 1 \in Nat
    BY <1>3, <1>4 DEF SearchFits, Slots, x
  <2>3. on # None => SearchFits(on)
    BY <1>9, <2>2, SearchOnFits
  <2> QED
    BY <1>1, <1>8, <2>1, <2>3 DEF PathFits
<1> QED
  BY <1>2, <1>10, <1>11

LEMMA FillFits ==
  ASSUME NEW t \in Threads, IndInv, PathFits(t), Fill(t)
  PROVE  PathFits(t)'
<1>1. /\ pc[t] = "fill" /\ Len(path[t]) < Len(bfs[t].slots)
      /\ Len(bfs[t].slots) <= MAX_BFS_PATH_LEN
      /\ path[t] \in Seq(CuckooRecord(snap[t])) /\ bfs[t] \in Pathcode
  BY DEF Fill, IndInv, RequestOK, PathFits, TypeOK, PathTypes
<1>2. PICK rec : /\ path' = [path EXCEPT ![t] = Append(path[t], rec)]
                 /\ \/ UNCHANGED <<pc, bfs>>
                    \/ pc' = [pc EXCEPT ![t] = "lock"]
  BY DEF Fill, StartMove, Goto
<1>3. path'[t] = Append(path[t], rec)
  BY <1>2 DEF IndInv, TypeOK, PathTypes
<1>4. Len(path'[t]) = Len(path[t]) + 1
  <2>1. path[t] \in Seq(CuckooRecord(snap[t]) \cup {rec})
    BY <1>1
  <2> QED
    BY <1>3, <2>1, AppendProperties
<1>5. Len(path[t]) \in Nat /\ Len(bfs[t].slots) \in Nat
  BY <1>1, LenProperties DEF Pathcode
<1>6. \/ pc'[t] = "fill" /\ bfs'[t] = bfs[t]
      \/ pc'[t] = "lock"
  BY <1>1, <1>2 DEF IndInv, TypeOK
<1> QED
  BY <1>1, <1>4, <1>5, <1>6, MapAssumption DEF PathFits

LEMMA MoveFits ==
  ASSUME NEW t \in Threads, IndInv, PathFits(t), Move(t)
  PROVE  PathFits(t)'
<1>1. path[t] \in Seq(CuckooRecord(snap[t])) /\ Len(path[t]) > 1 /\ Len(path[t]) \in Nat
  BY LenProperties DEF Move, IndInv, TypeOK, PathTypes
<1>2. PICK n \in 1 .. Len(path[t]) : path' = [path EXCEPT ![t] = SubSeq(path[t], 1, n)]
  <2>1. CASE Len(path[t]) = 2
    BY <1>1, <2>1 DEF Move
  <2>2. CASE Len(path[t]) # 2
    <3>1. path' = [path EXCEPT ![t] = SubSeq(path[t], 1, Len(path[t]) - 1)]
      BY <2>2 DEF Move, StartMove
    <3>2. Len(path[t]) - 1 \in 1 .. Len(path[t])
      BY <1>1
    <3> QED
      BY <3>1, <3>2
  <2> QED
    BY <2>1, <2>2
<1>3. Len(path'[t]) = n
  <2>1. path'[t] = SubSeq(path[t], 1, n)
    BY <1>2 DEF IndInv, TypeOK, PathTypes
  <2> QED
    BY <1>1, <2>1, SubSeqProperties
<1>4. pc'[t] \in {"place", "lock"}
  BY DEF Move, StartMove, Goto, IndInv, TypeOK
<1> QED
  BY <1>1, <1>3, <1>4, MapAssumption DEF PathFits

\* A step that leaves the path or resets it, and neither searches nor records.
LEMMA QuietFits ==
  ASSUME NEW t \in Threads, PathFits(t), path'[t] \in {path[t], <<>>},
         pc'[t] \notin {"search", "fill"}
  PROVE  PathFits(t)'
BY MapAssumption, Len(<<>>) = 0 DEF PathFits

LEMMA StepFits ==
  ASSUME NEW t \in Threads, IndInv, PathFits(t), (\E r \in Requests : Call(t, r)) \/ Step(t)
  PROVE  PathFits(t)'
<1> USE DEF IndInv, TypeOK, PathTypes, Goto, Finish
<1>1. CASE \E r \in Requests : Call(t, r)
  BY <1>1, QuietFits DEF Call
<1>2. CASE Snapshot(t) \/ HashpowerChanged(t) \/ Return(t)
  BY <1>2, QuietFits DEF Snapshot, HashpowerChanged, Return
<1>3. CASE LockBucket(t)
  BY <1>3, QuietFits DEF LockBucket
<1>4. CASE Operate(t)
  BY <1>4, QuietFits DEF Operate, Find, Erase, Update, Insert, CopyThrows, OnDuplicate, add_to_bucket
<1>5. CASE RunCuckoo(t) \/ MoveFails(t)
  BY <1>5, SearchStartFits DEF RunCuckoo, MoveFails
<1>6. CASE NothingToMove(t) \/ Place(t)
  BY <1>6, QuietFits DEF NothingToMove, Place, OnDuplicate, add_to_bucket
<1>7. CASE SlotSearch(t) \/ Fill(t) \/ Move(t)
  BY <1>7, SlotSearchFits, FillFits, MoveFits
<1>8. CASE ScanCounter(t)
  BY <1>8, QuietFits DEF ScanCounter
<1>9. CASE LockExpansion(t) \/ CheckResize(t) \/ LockAll(t) \/ Double(t) \/ DoubleThrows(t) \/ Expanded(t)
  BY <1>9, QuietFits DEF LockExpansion, CheckResize, LockAll, Double, DoubleThrows, Expanded
<1>10. CASE MoveBuckets(t) \/ UnlockNew(t)
  BY <1>10, QuietFits DEF MoveBuckets, UnlockNew, threads
<1> QED
  BY <1>1, <1>2, <1>3, <1>4, <1>5, <1>6, <1>7, <1>8, <1>9, <1>10 DEF Step, Cuckoo, Expand

LEMMA NextFits == IndInv /\ PathsFit /\ [Next]_vars => PathsFit'
<1> SUFFICES ASSUME IndInv, PathsFit, [Next]_vars, NEW u \in Threads
             PROVE  PathFits(u)'
  BY FitsEachNext
<1>1. PathFits(u)
  BY FitsEach
<1>2. CASE UNCHANGED vars
  BY <1>1, <1>2 DEF vars, threads, PathFits
<1>3. ASSUME NEW t \in Threads, (\E r \in Requests : Call(t, r)) \/ Step(t)
      PROVE  PathFits(u)'
  <2>1. CASE u = t
    BY <1>1, <1>3, <2>1, StepFits
  <2>2. CASE u # t
    BY <1>1, <1>3, <2>2, StepLeavesOthers DEF LeavesAlone, PathFits
  <2> QED
    BY <2>1, <2>2
<1> QED
  BY <1>2, <1>3 DEF Next

\* A search stays within its fixed-size arrays, whatever their sizes: no path has
\* more records than CuckooRecords holds, and the queue has room for what the next
\* slot adds to it, however often others change the buckets in between.
THEOREM SearchesFit == Spec => []PathsFit
<1>1. Init => IndInv /\ PathsFit
  <2>1. Init => PathsFit
    BY MapAssumption, Len(<<>>) = 0 DEF Init, PathsFit
  <2> QED
    BY <2>1, InitIndInv
<1>2. IndInv /\ PathsFit /\ [Next]_vars => (IndInv /\ PathsFit)'
  BY NextIndInv, NextFits
<1> QED
  BY <1>1, <1>2, PTL DEF Spec
=============================================================================
