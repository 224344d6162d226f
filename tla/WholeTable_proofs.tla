------------------------- MODULE WholeTable_proofs -------------------------
(***************************************************************************)
(* The locking protocol of WholeTable under CarefulSpec: the operations on *)
(* the table as a whole keep the lock array, the bucket array and the      *)
(* hashpower of one mind, and no circle of threads waits.                  *)
(*                                                                         *)
(* A thread that owns the table, or operates on it as a whole, is away.    *)
(* To the others it looks as if it were idle and its locks free, and what  *)
(* they see satisfies the invariant of CuckooMap (SeenInv): their steps    *)
(* are steps of CuckooMap, and those of a thread that is away are nothing, *)
(* or a new bucket array that appears while nobody holds a lock.  CarefulOK *)
(* says what holds of the threads that are away: the locks each has taken, *)
(* in order from the first, and all of them when it changes the buckets.   *)
(***************************************************************************)
EXTENDS WholeTable, FiniteSums, SequenceTheorems

----------------------------------------------------------------------------
(* The table as those see it who operate on one key.                       *)

\* Thread t owns the table or operates on it as a whole.
Away(t) == owner = t \/ req[t] \notin Requests \cup {None}

\* f, with the threads that are away at rest, where it is nothing.
Seen(f, nothing) == [t \in Threads |-> IF Away(t) THEN nothing ELSE f[t]]

pcSeen == Seen(pc, "idle")
reqSeen == Seen(req, None)
snapSeen == Seen(snap, 0)
wantSeen == Seen(want, {})
pathSeen == Seen(path, <<>>)
bfsSeen == Seen(bfs, None)
sumSeen == Seen(sum, 0)
resSeen == Seen(res, None)
locksSeen == [l \in Locks |-> IF locks[l] # None /\ Away(locks[l]) THEN None ELSE locks[l]]

Map == INSTANCE CuckooDict_proofs
         WITH pc <- pcSeen, req <- reqSeen, snap <- snapSeen, want <- wantSeen,
              path <- pathSeen, bfs <- bfsSeen, sum <- sumSeen, res <- resSeen,
              locks <- locksSeen

\* What does not depend on the threads is the same for both.
LEMMA SameCardinality == \A S : Map!Cardinality(S) = Cardinality(S)
BY DEF Map!Cardinality, Cardinality

LEMMA SameIndex ==
  /\ \A n : Map!Bits(n) = Bits(n)
  /\ Map!Word = Word /\ Map!Locks = Locks
  /\ \A hp : Map!hashmask(hp) = hashmask(hp) /\ Map!Buckets(hp) = Buckets(hp)
  /\ \A h : Map!partial_key(h) = partial_key(h)
  /\ \A hp, h : Map!index_hash(hp, h) = index_hash(hp, h)
  /\ \A hp, p, b : Map!alt_index(hp, p, b) = alt_index(hp, p, b)
  /\ \A b : Map!lock_ind(b) = lock_ind(b)
  /\ \A a, b : Map!Below(a, b) = Below(a, b)
  /\ \A S : Map!Lowest(S) = Lowest(S)
  /\ \A hp, h : Map!BucketsOf(hp, h) = BucketsOf(hp, h)
<1>1. \A n : Map!Bits(n) = Bits(n)
  BY DEF Map!Bits, Bits
<1>2. Map!Word = Word /\ Map!Locks = Locks
  BY <1>1 DEF Map!Word, Word, Map!Locks, Locks
<1>3. \A hp : Map!hashmask(hp) = hashmask(hp)
  BY <1>1 DEF Map!hashmask, hashmask
<1>4. \A hp : Map!Buckets(hp) = Buckets(hp)
  BY <1>3 DEF Map!Buckets, Buckets
<1>5. \A h : Map!partial_key(h) = partial_key(h)
  <2> TAKE h
  <2>1. Map!Bits(TagBits) = Bits(TagBits)
    BY <1>1
  <2> DEFINE B == Bits(TagBits)
             P(j) == Cardinality({ i \in h : i % TagBits = j }) % 2 = 1
  <2>2. partial_key(h) = { j \in B : P(j) }
    BY DEF partial_key
  <2>3. Map!partial_key(h) = { j \in B : P(j) }
    BY <2>1, SameCardinality DEF Map!partial_key
  <2> QED
    BY <2>2, <2>3
<1>6. \A hp, h : Map!index_hash(hp, h) = index_hash(hp, h)
  BY <1>3 DEF Map!index_hash, index_hash
<1>7. \A hp, p, b : Map!alt_index(hp, p, b) = alt_index(hp, p, b)
  BY <1>3 DEF Map!alt_index, alt_index, Map!Xor, Xor
<1>8. \A b : Map!lock_ind(b) = lock_ind(b)
  BY <1>1 DEF Map!lock_ind, lock_ind
<1>9. \A a, b : Map!Below(a, b) = Below(a, b)
  BY DEF Map!Below, Below
<1>10. \A S : Map!Lowest(S) = Lowest(S)
  BY <1>9 DEF Map!Lowest, Lowest
<1>11. \A hp, h : Map!BucketsOf(hp, h) = BucketsOf(hp, h)
  BY <1>5, <1>6, <1>7 DEF Map!BucketsOf, BucketsOf
<1> QED
  BY <1>1, <1>2, <1>3, <1>4, <1>5, <1>6, <1>7, <1>8, <1>9, <1>10, <1>11

LEMMA SameTypes ==
  /\ Map!Slots = Slots /\ Map!Entry = Entry /\ Map!Counts = Counts
  /\ Map!KeyRequests = KeyRequests /\ Map!ValRequests = ValRequests
  /\ Map!CountRequests = CountRequests /\ Map!Requests = Requests
  /\ Map!Results = Results /\ Map!PCs = PCs
  /\ Map!Expanding = Expanding /\ Map!Lockless = Lockless
<1>1. Map!Slots = Slots /\ Map!Entry = Entry /\ Map!Counts = Counts
  BY DEF Map!Slots, Map!Entry, Map!Counts, Slots, Entry, Counts
<1>2. Map!KeyRequests = KeyRequests
  BY DEF Map!KeyRequests, KeyRequests
<1>3. Map!ValRequests = ValRequests
  BY DEF Map!ValRequests, ValRequests
<1>4. Map!CountRequests = CountRequests
  BY DEF Map!CountRequests, CountRequests
<1>5. Map!Requests = Requests
  BY <1>2, <1>3, <1>4 DEF Map!Requests, Requests
<1>6. Map!Results = Results
  BY <1>1 DEF Map!Results, Map!CountResults, Results, CountResults
<1>7. Map!PCs = PCs /\ Map!Expanding = Expanding /\ Map!Lockless = Lockless
  BY DEF Map!PCs, PCs, Map!Expanding, Expanding, Map!Lockless, Lockless
<1> QED
  BY <1>1, <1>2, <1>3, <1>4, <1>5, <1>6, <1>7

\* The assumptions are those of WholeTable.
LEMMA Protocol ==
  /\ Map!IndInv /\ [Map!Next]_Map!vars => Map!IndInv'
  /\ Map!IndInv /\ Map!CallsOK /\ [Map!Next]_Map!vars => Map!CallsOK'
BY Map!NextIndInv, Map!NextCallsOK, SameIndex, SameTypes,
   IndexAssumption, MapAssumption, FreeAssumption, NoneAssumption

----------------------------------------------------------------------------
(* Steps of one thread.                                                    *)

IsFcn(f) == f = [t \in Threads |-> f[t]]

ThreadFcns ==
  /\ IsFcn(pc) /\ IsFcn(req) /\ IsFcn(snap) /\ IsFcn(want)
  /\ IsFcn(path) /\ IsFcn(bfs) /\ IsFcn(sum) /\ IsFcn(res)

\* A step changes what thread t does, and no other thread's state.
ThreadMoves(t) ==
  /\ pc' = [pc EXCEPT ![t] = pc'[t]]
  /\ req' = [req EXCEPT ![t] = req'[t]]
  /\ snap' = [snap EXCEPT ![t] = snap'[t]]
  /\ want' = [want EXCEPT ![t] = want'[t]]
  /\ path' = [path EXCEPT ![t] = path'[t]]
  /\ bfs' = [bfs EXCEPT ![t] = bfs'[t]]
  /\ sum' = [sum EXCEPT ![t] = sum'[t]]
  /\ res' = [res EXCEPT ![t] = res'[t]]

LEMMA StepMoves ==
  ASSUME ThreadFcns, NEW t \in Threads, Step(t)
  PROVE  ThreadMoves(t)
<1> USE DEF ThreadMoves, ThreadFcns, IsFcn, Goto, Finish
<1>1. CASE Snapshot(t) \/ HashpowerChanged(t) \/ Return(t)
  BY <1>1 DEF Snapshot, HashpowerChanged, Return
<1>2. CASE LockBucket(t) \/ LockAll(t)
  BY <1>2 DEF LockBucket, LockAll, TakeLowest
<1>3. CASE Find(t)
  BY <1>3 DEF Find
<1>12. CASE Erase(t)
  BY <1>12 DEF Erase
<1>13. CASE Update(t)
  BY <1>13 DEF Update
<1>4. CASE Insert(t) \/ CopyThrows(t) \/ Place(t)
  BY <1>4 DEF Insert, CopyThrows, Place, OnDuplicate, add_to_bucket
<1>5. CASE RunCuckoo(t) \/ MoveFails(t) \/ NothingToMove(t)
  BY <1>5 DEF RunCuckoo, MoveFails, NothingToMove, StartSearch
<1>6. CASE SlotSearch(t)
  BY <1>6 DEF SlotSearch
<1>7. CASE Fill(t)
  BY <1>7 DEF Fill, StartMove
<1>8. CASE Move(t)
  BY <1>8 DEF Move, StartMove
<1>9. CASE ScanCounter(t)
  <2>1. PICK l \in Lowest(want[t]) :
          /\ want' = [want EXCEPT ![t] = @ \ {l}]
          /\ sum' = [sum EXCEPT ![t] = (sum[t] + counter[l]) % CounterMod]
          /\ UNCHANGED <<table, req, snap, path, bfs>>
          /\ \/ UNCHANGED <<pc, res>>
             \/ Goto(t, "check") /\ UNCHANGED res
             \/ \E r : Finish(t, r)
    BY ONLY <1>9 DEF ScanCounter
  <2>2. PICK a : want' = [want EXCEPT ![t] = a]
    BY <2>1
  <2>3. PICK b : sum' = [sum EXCEPT ![t] = b]
    BY <2>1
  <2>4. want' = [want EXCEPT ![t] = want'[t]] /\ sum' = [sum EXCEPT ![t] = sum'[t]]
    BY <2>2, <2>3
  <2>5. CASE UNCHANGED <<pc, res>>
    BY <2>1, <2>4, <2>5
  <2>6. CASE Goto(t, "check") /\ UNCHANGED res
    BY <2>1, <2>4, <2>6
  <2>7. ASSUME NEW r, Finish(t, r) PROVE ThreadMoves(t)
    BY <2>1, <2>4, <2>7
  <2> QED
    BY <2>1, <2>5, <2>6, <2>7
<1>10. CASE LockExpansion(t) \/ CheckResize(t) \/ Double(t) \/ DoubleThrows(t) \/ Expanded(t)
  BY <1>10 DEF LockExpansion, CheckResize, Double, DoubleThrows, Expanded
<1>11. CASE MoveBuckets(t) \/ UnlockNew(t)
  BY <1>11 DEF MoveBuckets, UnlockNew, threads
<1> QED
  BY <1>1, <1>2, <1>3, <1>4, <1>5, <1>6, <1>7, <1>8, <1>9, <1>10, <1>11,
     <1>12, <1>13
  DEF Step, Operate, Cuckoo, Expand

----------------------------------------------------------------------------
(* What a step of a thread that is there looks like.                       *)

SameAway == \A u \in Threads : Away(u)' <=> Away(u)

LEMMA StaysAway ==
  ASSUME IsFcn(req), NEW t \in Threads, ~Away(t), NEW r \in Requests \cup {None},
         req' = [req EXCEPT ![t] = r], owner' = owner
  PROVE  SameAway /\ ~Away(t)'
BY DEF SameAway, Away, IsFcn

LEMMA SeenAt ==
  ASSUME NEW t \in Threads, ~Away(t)
  PROVE  /\ pcSeen[t] = pc[t] /\ reqSeen[t] = req[t] /\ snapSeen[t] = snap[t]
         /\ wantSeen[t] = want[t] /\ pathSeen[t] = path[t] /\ bfsSeen[t] = bfs[t]
         /\ sumSeen[t] = sum[t] /\ resSeen[t] = res[t]
BY DEF pcSeen, reqSeen, snapSeen, wantSeen, pathSeen, bfsSeen, sumSeen, resSeen, Seen

\* The changes others see are those of ThreadMoves.
MovesSeen(t) ==
  /\ pcSeen' = [pcSeen EXCEPT ![t] = pc'[t]]
  /\ reqSeen' = [reqSeen EXCEPT ![t] = req'[t]]
  /\ snapSeen' = [snapSeen EXCEPT ![t] = snap'[t]]
  /\ wantSeen' = [wantSeen EXCEPT ![t] = want'[t]]
  /\ pathSeen' = [pathSeen EXCEPT ![t] = path'[t]]
  /\ bfsSeen' = [bfsSeen EXCEPT ![t] = bfs'[t]]
  /\ sumSeen' = [sumSeen EXCEPT ![t] = sum'[t]]
  /\ resSeen' = [resSeen EXCEPT ![t] = res'[t]]

LEMMA SeenMoves ==
  ASSUME ThreadFcns, NEW t \in Threads, ~Away(t), SameAway, ThreadMoves(t)
  PROVE  MovesSeen(t)
<1> USE DEF Seen, SameAway, ThreadFcns, IsFcn, ThreadMoves
<1>1. pcSeen' = [pcSeen EXCEPT ![t] = pc'[t]]
  BY DEF pcSeen
<1>2. reqSeen' = [reqSeen EXCEPT ![t] = req'[t]]
  BY DEF reqSeen
<1>3. snapSeen' = [snapSeen EXCEPT ![t] = snap'[t]]
  BY DEF snapSeen
<1>4. wantSeen' = [wantSeen EXCEPT ![t] = want'[t]]
  BY DEF wantSeen
<1>5. pathSeen' = [pathSeen EXCEPT ![t] = path'[t]]
  BY DEF pathSeen
<1>6. bfsSeen' = [bfsSeen EXCEPT ![t] = bfs'[t]]
  BY DEF bfsSeen
<1>7. sumSeen' = [sumSeen EXCEPT ![t] = sum'[t]]
  BY DEF sumSeen
<1>8. resSeen' = [resSeen EXCEPT ![t] = res'[t]]
  BY DEF resSeen
<1> QED
  BY <1>1, <1>2, <1>3, <1>4, <1>5, <1>6, <1>7, <1>8 DEF MovesSeen

LEMMA SeenStays ==
  ASSUME SameAway
  PROVE  /\ pc' = pc => pcSeen' = pcSeen
         /\ req' = req => reqSeen' = reqSeen
         /\ snap' = snap => snapSeen' = snapSeen
         /\ want' = want => wantSeen' = wantSeen
         /\ path' = path => pathSeen' = pathSeen
         /\ bfs' = bfs => bfsSeen' = bfsSeen
         /\ sum' = sum => sumSeen' = sumSeen
         /\ res' = res => resSeen' = resSeen
BY DEF SameAway, pcSeen, reqSeen, snapSeen, wantSeen, pathSeen, bfsSeen, sumSeen, resSeen, Seen

LocksTyped == locks \in [Locks -> Threads \cup {None}]

LEMMA SeenHeld ==
  ASSUME LocksTyped, NEW t \in Threads, ~Away(t)
  PROVE  /\ \A l \in Locks : locksSeen[l] = t <=> locks[l] = t
         /\ \A l \in Locks : locks[l] = None => locksSeen[l] = None
         /\ Map!LocksHeld(t) = LocksHeld(t)
BY MapAssumption, SameIndex DEF LocksTyped, locksSeen, Map!LocksHeld, LocksHeld

LEMMA SeenUnlocked ==
  ASSUME LocksTyped, NEW t \in Threads, ~Away(t), SameAway, locks' = Unlocked(t)
  PROVE  locksSeen' = Map!Unlocked(t)
BY MapAssumption, SameIndex DEF LocksTyped, locksSeen, Map!Unlocked, Unlocked, SameAway

LEMMA SeenKept ==
  ASSUME LocksTyped, NEW t \in Threads, ~Away(t), SameAway, NEW keep,
         locks' = [l \in Locks |-> IF locks[l] = t /\ l \notin keep THEN None ELSE locks[l]]
  PROVE  locksSeen' = [l \in Locks |-> IF locksSeen[l] = t /\ l \notin keep
                                       THEN None ELSE locksSeen[l]]
BY MapAssumption DEF LocksTyped, locksSeen, SameAway

LEMMA SeenLocks ==
  ASSUME LocksTyped, NEW t \in Threads, ~Away(t), SameAway
  PROVE  /\ locks' = locks => locksSeen' = locksSeen
         /\ \A l \in Locks : locks' = [locks EXCEPT ![l] = t]
                               => locksSeen' = [locksSeen EXCEPT ![l] = t]
         /\ \A l \in Locks : locks' = [locks EXCEPT ![l] = None]
                               => locksSeen' = [locksSeen EXCEPT ![l] = None]
<1>1. locks' = locks => locksSeen' = locksSeen
  BY DEF LocksTyped, locksSeen, SameAway
<1>2. ASSUME NEW l \in Locks, locks' = [locks EXCEPT ![l] = t]
      PROVE  locksSeen' = [locksSeen EXCEPT ![l] = t]
  BY <1>2, MapAssumption DEF LocksTyped, locksSeen, SameAway
<1>3. ASSUME NEW l \in Locks, locks' = [locks EXCEPT ![l] = None]
      PROVE  locksSeen' = [locksSeen EXCEPT ![l] = None]
  BY <1>3, MapAssumption DEF LocksTyped, locksSeen, SameAway
<1> QED
  BY <1>1, <1>2, <1>3

----------------------------------------------------------------------------
(* Operators of CuckooMap that say the same of what is seen.               *)

LEMMA SameTable ==
  /\ \A b, s : Map!occupied(b, s) <=> occupied(b, s)
  /\ \A k, b : Map!SlotsOf(k, b) = SlotsOf(k, b)
  /\ \A b : Map!FreeSlots(b) = FreeSlots(b)
  /\ \A B : Map!LocksOf(B) = LocksOf(B)
  /\ \A b, s, e : Map!Put(b, s, e) <=> Put(b, s, e)
  /\ \A l, d : Map!Count(l, d) <=> Count(l, d)
  /\ \A n : Map!TooFew(n) <=> TooFew(n)
  /\ \A hp : Map!locks_to_move(hp) = locks_to_move(hp)
  /\ Map!bucket_bits = bucket_bits
  /\ Map!Doubled = Doubled
<1>1. \A b, s : Map!occupied(b, s) <=> occupied(b, s)
  BY DEF Map!occupied, occupied
<1>2. \A k, b : Map!SlotsOf(k, b) = SlotsOf(k, b)
  BY <1>1, SameTypes DEF Map!SlotsOf, SlotsOf
<1>3. \A b : Map!FreeSlots(b) = FreeSlots(b)
  BY <1>1, SameTypes DEF Map!FreeSlots, FreeSlots
<1>4. \A B : Map!LocksOf(B) = LocksOf(B)
  BY SameIndex DEF Map!LocksOf, LocksOf
<1>5. /\ \A b, s, e : Map!Put(b, s, e) <=> Put(b, s, e)
      /\ \A l, d : Map!Count(l, d) <=> Count(l, d)
      /\ \A n : Map!TooFew(n) <=> TooFew(n)
  BY DEF Map!Put, Put, Map!Count, Count, Map!TooFew, TooFew
<1>6. \A hp : Map!locks_to_move(hp) = locks_to_move(hp)
  BY SameIndex DEF Map!locks_to_move, locks_to_move
<1>7. Map!bucket_bits = bucket_bits
  BY SameCardinality DEF Map!bucket_bits, bucket_bits
<1>8. Map!Doubled = Doubled
  BY <1>7, SameIndex, SameTypes DEF Map!Doubled, Doubled
<1> QED
  BY <1>1, <1>2, <1>3, <1>4, <1>5, <1>6, <1>7, <1>8

LEMMA SameSplit ==
  /\ \A hp, b : Map!Rising(hp, b) = Rising(hp, b)
  /\ \A hp, l : Map!RisingItems(hp, l) = RisingItems(hp, l)
  /\ \A hp, b : Map!LowerHalf(hp, b) = LowerHalf(hp, b)
  /\ \A hp, b : Map!Risen(hp, b) = Risen(hp, b)
  /\ \A hp, b : Map!UpperHalf(hp, b) = UpperHalf(hp, b)
  /\ \A hp, l : Map!OldBuckets(hp, l) = OldBuckets(hp, l)
<1>1. \A hp, b : Map!Rising(hp, b) = Rising(hp, b)
  BY SameTable, SameIndex, SameTypes DEF Map!Rising, Rising
<1>2. \A hp, l : Map!OldBuckets(hp, l) = OldBuckets(hp, l)
  BY SameIndex DEF Map!OldBuckets, OldBuckets
<1>3. \A hp, l : Map!RisingItems(hp, l) = RisingItems(hp, l)
  BY <1>1, <1>2, SameTypes DEF Map!RisingItems, RisingItems
<1>4. \A hp, b : Map!LowerHalf(hp, b) = LowerHalf(hp, b)
  BY <1>1, SameTypes DEF Map!LowerHalf, LowerHalf
<1>5. \A hp, b : Map!Risen(hp, b) = Risen(hp, b)
  <2> TAKE hp, b
  <2> DEFINE R == Rising(hp, b)
             N(i) == { s \in R : Cardinality({ r \in R : r < s }) = i }
             C(i) == IF N(i) # {} THEN buckets[b][CHOOSE s \in N(i) : TRUE] ELSE Free
  <2>1. Map!Rising(hp, b) = R
    BY <1>1
  <2>2. Risen(hp, b) = [i \in Slots |-> C(i)]
    BY DEF Risen
  <2>3. Map!Risen(hp, b) = [i \in Slots |-> C(i)]
    <3> DEFINE M(i) == { s \in R : Map!Cardinality({ r \in R : r < s }) = i }
    <3>1. \A i : M(i) = N(i)
      BY SameCardinality
    <3>2. Map!Risen(hp, b) =
            [i \in Slots |-> IF M(i) # {} THEN buckets[b][CHOOSE s \in M(i) : TRUE] ELSE Free]
      BY ONLY <2>1, SameTypes DEF Map!Risen
    <3> HIDE DEF M, N
    <3> QED
      BY <3>1, <3>2
  <2> QED
    BY <2>2, <2>3
<1>6. \A hp, b : Map!UpperHalf(hp, b) = UpperHalf(hp, b)
  BY <1>5, SameTypes DEF Map!UpperHalf, UpperHalf
<1> QED
  BY <1>1, <1>2, <1>3, <1>4, <1>5, <1>6

LEMMA SameKey ==
  ASSUME NEW t \in Threads, ~Away(t)
  PROVE  /\ Map!first(t) = first(t) /\ Map!second(t) = second(t)
         /\ Map!cuckoo_find(t) = cuckoo_find(t)
         /\ Map!FreePosition(t) = FreePosition(t)
         /\ Map!NewEntry(t) = NewEntry(t)
         /\ \A p : Map!MoveLocks(t, p) = MoveLocks(t, p)
         /\ Map!LocksWanted(t) = LocksWanted(t)
         /\ Map!SearchBucket(t) = SearchBucket(t)
         /\ Map!FillBucket(t) = FillBucket(t)
<1> USE SeenAt
<1>1. Map!first(t) = first(t)
  BY SameIndex DEF Map!first, first
<1>2. Map!second(t) = second(t)
  BY <1>1, SameIndex DEF Map!second, second
<1>3. Map!cuckoo_find(t) = cuckoo_find(t)
  BY <1>1, <1>2, SameTable DEF Map!cuckoo_find, cuckoo_find
<1>4. Map!FreePosition(t) = FreePosition(t)
  BY <1>1, <1>2, SameTable DEF Map!FreePosition, FreePosition
<1>5. Map!NewEntry(t) = NewEntry(t)
  BY DEF Map!NewEntry, NewEntry
<1>6. \A p : Map!MoveLocks(t, p) = MoveLocks(t, p)
  BY <1>1, <1>2, SameTable DEF Map!MoveLocks, MoveLocks
<1>7. Map!LocksWanted(t) = LocksWanted(t)
  BY <1>1, <1>2, <1>6, SameTable DEF Map!LocksWanted, LocksWanted
<1>8. Map!SearchBucket(t) = SearchBucket(t)
  BY DEF Map!SearchBucket, SearchBucket
<1>9. Map!FillBucket(t) = FillBucket(t)
  BY <1>1, <1>2, SameIndex DEF Map!FillBucket, FillBucket
<1> QED
  BY <1>1, <1>2, <1>3, <1>4, <1>5, <1>6, <1>7, <1>8, <1>9

----------------------------------------------------------------------------
(* A step of a thread that is there is one of the table seen.              *)

Ready(t) ==
  /\ ThreadFcns /\ LocksTyped
  /\ ~Away(t) /\ SameAway
  /\ ThreadMoves(t) /\ MovesSeen(t)

LEMMA SeenChanges ==
  ASSUME NEW t \in Threads, Ready(t)
  PROVE  /\ \A x : pc' = [pc EXCEPT ![t] = x] => pcSeen' = [pcSeen EXCEPT ![t] = x]
         /\ \A x : req' = [req EXCEPT ![t] = x] => reqSeen' = [reqSeen EXCEPT ![t] = x]
         /\ \A x : snap' = [snap EXCEPT ![t] = x] => snapSeen' = [snapSeen EXCEPT ![t] = x]
         /\ \A x : want' = [want EXCEPT ![t] = x] => wantSeen' = [wantSeen EXCEPT ![t] = x]
         /\ \A x : path' = [path EXCEPT ![t] = x] => pathSeen' = [pathSeen EXCEPT ![t] = x]
         /\ \A x : bfs' = [bfs EXCEPT ![t] = x] => bfsSeen' = [bfsSeen EXCEPT ![t] = x]
         /\ \A x : sum' = [sum EXCEPT ![t] = x] => sumSeen' = [sumSeen EXCEPT ![t] = x]
         /\ \A x : res' = [res EXCEPT ![t] = x] => resSeen' = [resSeen EXCEPT ![t] = x]
BY DEF Ready, ThreadFcns, IsFcn, MovesSeen

LEMMA SeenEnds ==
  ASSUME NEW t \in Threads, Ready(t)
  PROVE  /\ \A label : Goto(t, label) => Map!Goto(t, label)
         /\ \A r : Finish(t, r) => Map!Finish(t, r)
BY SeenChanges DEF Goto, Finish, Map!Goto, Map!Finish

LEMMA SeenSame ==
  ASSUME NEW t \in Threads, Ready(t)
  PROVE  /\ locks' = locks => locksSeen' = locksSeen
         /\ pc' = pc => pcSeen' = pcSeen
         /\ req' = req => reqSeen' = reqSeen
         /\ snap' = snap => snapSeen' = snapSeen
         /\ want' = want => wantSeen' = wantSeen
         /\ path' = path => pathSeen' = pathSeen
         /\ bfs' = bfs => bfsSeen' = bfsSeen
         /\ sum' = sum => sumSeen' = sumSeen
         /\ res' = res => resSeen' = resSeen
BY SeenStays, SeenLocks DEF Ready

LEMMA SeenFind ==
  ASSUME NEW t \in Threads, Ready(t), Find(t)
  PROVE  Map!Find(t)
<1>1. locksSeen' = Map!Unlocked(t)
  BY SeenUnlocked DEF Ready, Find
<1>2. Map!InCritical(t, "find")
  BY SeenAt DEF Ready, Find, InCritical, Map!InCritical
<1> QED
  BY <1>1, <1>2, SeenEnds, SeenSame, SameKey DEF Ready, Find, Map!Find

LEMMA SeenErase ==
  ASSUME NEW t \in Threads, Ready(t), Erase(t)
  PROVE  Map!Erase(t)
<1>1. locksSeen' = Map!Unlocked(t)
  BY SeenUnlocked DEF Ready, Erase
<1>2. Map!InCritical(t, "erase")
  BY SeenAt DEF Ready, Erase, InCritical, Map!InCritical
<1> QED
  BY <1>1, <1>2, SeenEnds, SeenSame, SameKey, SameTable, SameIndex DEF Ready, Erase, Map!Erase

LEMMA SeenUpdate ==
  ASSUME NEW t \in Threads, Ready(t), Update(t)
  PROVE  Map!Update(t)
<1>1. locksSeen' = Map!Unlocked(t)
  BY SeenUnlocked DEF Ready, Update
<1>2. Map!InCritical(t, "update")
  BY SeenAt DEF Ready, Update, InCritical, Map!InCritical
<1> QED
  BY <1>1, <1>2, SeenEnds, SeenSame, SameKey, SameTable, SameIndex DEF Ready, Update, Map!Update

LEMMA SeenDuplicate ==
  ASSUME NEW t \in Threads, Ready(t), OnDuplicate(t)
  PROVE  Map!OnDuplicate(t)
<1>1. locksSeen' = Map!Unlocked(t)
  BY SeenUnlocked DEF Ready, OnDuplicate
<1> QED
  BY <1>1, SeenAt, SeenEnds, SameKey, SameTable DEF Ready, OnDuplicate, Map!OnDuplicate

LEMMA SeenAdd ==
  ASSUME NEW t \in Threads, Ready(t), NEW b, NEW s, add_to_bucket(t, b, s)
  PROVE  Map!add_to_bucket(t, b, s)
<1>1. locksSeen' = Map!Unlocked(t)
  BY SeenUnlocked DEF Ready, add_to_bucket
<1> QED
  BY <1>1, SeenEnds, SameKey, SameTable, SameIndex DEF Ready, add_to_bucket, Map!add_to_bucket

LEMMA SeenInserting ==
  ASSUME NEW t \in Threads, Ready(t), Inserting(t)
  PROVE  Map!Inserting(t)
BY SeenAt DEF Ready, Inserting, Map!Inserting

LEMMA SeenInsert ==
  ASSUME NEW t \in Threads, Ready(t), Insert(t)
  PROVE  Map!Insert(t)
BY SeenInserting, SeenDuplicate, SeenAdd, SeenSame, SameKey DEF Ready, Insert, Map!Insert

LEMMA SeenCopyThrows ==
  ASSUME NEW t \in Threads, Ready(t), CopyThrows(t)
  PROVE  Map!CopyThrows(t)
<1>1. locksSeen' = Map!Unlocked(t)
  BY SeenUnlocked DEF Ready, CopyThrows
<1> QED
  BY <1>1, SeenAt, SeenEnds, SeenSame, SameKey DEF Ready, CopyThrows, Map!CopyThrows

LEMMA SeenPlace ==
  ASSUME NEW t \in Threads, Ready(t), Place(t)
  PROVE  Map!Place(t)
BY SeenAt, SeenDuplicate, SeenAdd, SeenSame DEF Ready, Place, Map!Place

LEMMA SeenOperate ==
  ASSUME NEW t \in Threads, Ready(t), Operate(t)
  PROVE  Map!Operate(t)
BY SeenFind, SeenErase, SeenUpdate, SeenInsert, SeenCopyThrows DEF Operate, Map!Operate

LEMMA SeenReturn ==
  ASSUME NEW t \in Threads, Ready(t), Return(t)
  PROVE  Map!Return(t)
BY SeenAt, SeenEnds, SeenChanges, SeenSame, SameTable
DEF Ready, Return, Map!Return, table, Map!table

LEMMA SeenSnapshot ==
  ASSUME NEW t \in Threads, Ready(t), Snapshot(t)
  PROVE  Map!Snapshot(t)
BY SeenAt, SeenEnds, SeenChanges, SeenSame, SameTable, SameIndex
DEF Ready, Snapshot, Map!Snapshot, table, Map!table

LEMMA SeenTake ==
  ASSUME NEW t \in Threads, Ready(t), want[t] \subseteq Locks, TakeLowest(t)
  PROVE  Map!TakeLowest(t)
<1>1. PICK l \in Lowest(want[t]) :
        /\ locks[l] = None
        /\ locks' = [locks EXCEPT ![l] = t]
        /\ want' = [want EXCEPT ![t] = @ \ {l}]
  BY DEF TakeLowest
<1>2. l \in Locks /\ l \in Map!Lowest(wantSeen[t])
  BY <1>1, SeenAt, SameIndex DEF Ready, Lowest
<1>3. locksSeen[l] = None /\ locksSeen' = [locksSeen EXCEPT ![l] = t]
  BY <1>1, <1>2, SeenHeld, SeenLocks DEF Ready
<1>4. wantSeen' = [wantSeen EXCEPT ![t] = @ \ {l}]
  BY <1>1, SeenAt, SeenChanges DEF Ready
<1> QED
  BY <1>2, <1>3, <1>4 DEF Map!TakeLowest

LEMMA SeenLockBucket ==
  ASSUME NEW t \in Threads, Ready(t), want[t] \subseteq Locks, LockBucket(t)
  PROVE  Map!LockBucket(t)
<1>1. Map!TakeLowest(t)
  BY SeenTake DEF LockBucket
<1>2. wantSeen'[t] = want'[t]
  BY DEF Ready, MovesSeen, wantSeen, Seen
<1> QED
  BY <1>1, <1>2, SeenAt, SeenHeld, SeenEnds, SeenSame DEF Ready, LockBucket, Map!LockBucket

LEMMA SeenHashpowerChanged ==
  ASSUME NEW t \in Threads, Ready(t), want[t] \subseteq Locks, HashpowerChanged(t)
  PROVE  Map!HashpowerChanged(t)
<1>1. \A b : lock_ind(b) \in Locks
  BY DEF lock_ind, Locks
<1>2. Lowest(want[t]) \subseteq Locks
  BY DEF Lowest
<1>3. \/ pcSeen[t] = "lock" /\ Map!LocksHeld(t) = {}
           /\ \E l \in Map!Lowest(wantSeen[t]) : locksSeen[l] = None
      \/ pcSeen[t] = "search" /\ locksSeen[Map!lock_ind(Map!SearchBucket(t))] = None
      \/ pcSeen[t] = "fill" /\ locksSeen[Map!lock_ind(Map!FillBucket(t))] = None
  BY <1>1, <1>2, SeenAt, SeenHeld, SameIndex, SameKey DEF Ready, HashpowerChanged
<1> QED
  BY <1>3, SeenAt, SeenEnds, SeenChanges, SeenSame
  DEF Ready, HashpowerChanged, Map!HashpowerChanged, table, Map!table

LEMMA SeenStartSearch ==
  ASSUME NEW t \in Threads, Ready(t), StartSearch(t)
  PROVE  Map!StartSearch(t)
BY SeenEnds, SeenChanges, SameKey DEF Ready, StartSearch, Map!StartSearch

LEMMA SeenRunCuckoo ==
  ASSUME NEW t \in Threads, Ready(t), RunCuckoo(t)
  PROVE  Map!RunCuckoo(t)
<1>1. locksSeen' = Map!Unlocked(t)
  BY SeenUnlocked DEF Ready, RunCuckoo
<1> QED
  BY <1>1, SeenInserting, SeenStartSearch, SeenSame, SameKey DEF Ready, RunCuckoo, Map!RunCuckoo

LEMMA SameStale == \A p : Map!Stale(p) <=> Stale(p)
BY SameTable DEF Map!Stale, Stale

LEMMA SeenMoveFails ==
  ASSUME NEW t \in Threads, Ready(t), MoveFails(t)
  PROVE  Map!MoveFails(t)
<1>1. locksSeen' = Map!Unlocked(t)
  BY SeenUnlocked DEF Ready, MoveFails
<1> QED
  BY <1>1, SeenAt, SeenStartSearch, SeenSame, SameStale DEF Ready, MoveFails, Map!MoveFails

LEMMA SeenNothingToMove ==
  ASSUME NEW t \in Threads, Ready(t), NothingToMove(t)
  PROVE  Map!NothingToMove(t)
BY SeenAt, SeenEnds, SeenSame, SameStale
DEF Ready, NothingToMove, Map!NothingToMove, table, Map!table

LEMMA SeenStartMove ==
  ASSUME NEW t \in Threads, Ready(t), NEW p, StartMove(t, p)
  PROVE  Map!StartMove(t, p)
<1>1. pathSeen' = [pathSeen EXCEPT ![t] = p]
  BY SeenChanges DEF StartMove
<1>2. wantSeen' = [wantSeen EXCEPT ![t] = MoveLocks(t, p)]
  BY SeenChanges DEF StartMove
<1>3. Map!Goto(t, "lock")
  BY SeenEnds DEF StartMove
<1>4. Map!MoveLocks(t, p) = MoveLocks(t, p)
  BY SameKey DEF Ready
<1> QED
  BY ONLY <1>1, <1>2, <1>3, <1>4 DEF Map!StartMove

LEMMA SameSearch ==
  /\ \A q : Map!full(q) <=> full(q)
  /\ \A x, q, i : Map!SearchOn(x, q, i) = SearchOn(x, q, i)
  /\ \A x : Map!starting_slot(x) = starting_slot(x)
  /\ \A x : Map!MayExtend(x) <=> MayExtend(x)
BY DEF Map!full, full, Map!SearchOn, SearchOn, Map!starting_slot, starting_slot,
       Map!MayExtend, MayExtend

LEMMA SeenSlotSearch ==
  ASSUME NEW t \in Threads, Ready(t), SlotSearch(t)
  PROVE  Map!SlotSearch(t)
<1> DEFINE x == bfs[t].x
           slot == (starting_slot(x) + bfs[t].i) % SlotPerBucket
           slots == Append(x.slots, slot)
           y == [bucket |-> alt_index(snap[t], partial_key(Hash[buckets[x.bucket][slot].key]),
                                      x.bucket),
                 from |-> x.from, slots |-> slots]
           q == IF MayExtend(x) THEN Append(bfs[t].q, y) ELSE bfs[t].q
           found == [from |-> x.from, slots |-> slots]
           next == SearchOn(x, q, bfs[t].i + 1)
<1>1. /\ pc[t] = "search"
      /\ locks[lock_ind(x.bucket)] = None
      /\ hashpower = snap[t]
      /\ \/ /\ ~occupied(x.bucket, slot)
            /\ bfs' = [bfs EXCEPT ![t] = found]
            /\ Goto(t, "fill")
         \/ /\ occupied(x.bucket, slot)
            /\ bfs' = [bfs EXCEPT ![t] = next]
            /\ IF bfs'[t] = None THEN Goto(t, "expand") ELSE UNCHANGED pc
      /\ UNCHANGED <<table, req, snap, want, path, sum, res>>
  BY DEF SlotSearch
<1>2. bfsSeen[t].x = x /\ bfsSeen[t].i = bfs[t].i /\ bfsSeen[t].q = bfs[t].q /\ snapSeen[t] = snap[t]
  BY SeenAt DEF Ready
<1>3. Map!starting_slot(x) = starting_slot(x)
  BY SameSearch
<1>4. (Map!starting_slot(bfsSeen[t].x) + bfsSeen[t].i) % SlotPerBucket = slot
  BY <1>2, <1>3
<1>5. Map!alt_index(snapSeen[t], Map!partial_key(Hash[buckets[x.bucket][slot].key]), x.bucket)
        = alt_index(snap[t], partial_key(Hash[buckets[x.bucket][slot].key]), x.bucket)
  BY <1>2, SameIndex
<1>6. locksSeen[Map!lock_ind(x.bucket)] = None
  <2>1. lock_ind(x.bucket) \in Locks
    BY DEF lock_ind, Locks
  <2> QED
    BY <2>1, <1>1, SameIndex, SeenHeld DEF Ready
<1>7. /\ pcSeen[t] = "search" /\ hashpower = snapSeen[t]
      /\ Map!occupied(x.bucket, slot) <=> occupied(x.bucket, slot)
      /\ bfsSeen'[t] = bfs'[t]
      /\ Map!SearchOn(x, q, bfs[t].i + 1) = next
  <2>1. pcSeen[t] = "search" /\ hashpower = snapSeen[t]
    BY <1>1, SeenAt DEF Ready
  <2>2. bfsSeen'[t] = bfs'[t]
    BY DEF Ready, MovesSeen, bfsSeen, Seen
  <2> QED
    BY <2>1, <2>2, SameTable, SameSearch
<1>8. \/ /\ ~occupied(x.bucket, slot)
         /\ bfsSeen' = [bfsSeen EXCEPT ![t] = found]
         /\ Map!Goto(t, "fill")
      \/ /\ occupied(x.bucket, slot)
         /\ bfsSeen' = [bfsSeen EXCEPT ![t] = next]
         /\ IF bfsSeen'[t] = None THEN Map!Goto(t, "expand") ELSE UNCHANGED pcSeen
  <2> HIDE DEF found, next, x, slot
  <2> QED
    BY <1>1, <1>7, SeenEnds, SeenChanges, SeenSame
<1>9. UNCHANGED <<Map!table, reqSeen, snapSeen, wantSeen, pathSeen, sumSeen, resSeen>>
  BY <1>1, SeenSame DEF table, Map!table
<1>10. (IF Map!MayExtend(bfsSeen[t].x) THEN Append(bfs[t].q, y) ELSE bfs[t].q) = q
  BY <1>2, SameSearch
<1> QED
  BY ONLY <1>2, <1>3, <1>4, <1>5, <1>6, <1>7, <1>8, <1>9, <1>10 DEF Map!SlotSearch

LEMMA SeenFill ==
  ASSUME NEW t \in Threads, Ready(t), Fill(t)
  PROVE  Map!Fill(t)
<1> DEFINE b == FillBucket(t)
           slot == bfs[t].slots[Len(path[t]) + 1]
           last == Len(path[t]) + 1 = Len(bfs[t].slots)
           hash == IF occupied(b, slot) THEN Hash[buckets[b][slot].key] ELSE {}
           p == Append(path[t], [bucket |-> b, slot |-> slot, hash |-> hash])
<1>1. /\ pc[t] = "fill"
      /\ locks[lock_ind(b)] = None
      /\ hashpower = snap[t]
      /\ IF occupied(b, slot) /\ ~last
         THEN /\ path' = [path EXCEPT ![t] = p]
              /\ UNCHANGED <<pc, want, bfs>>
         ELSE /\ StartMove(t, p)
              /\ bfs' = [bfs EXCEPT ![t] = None]
      /\ UNCHANGED <<table, req, snap, sum, res>>
  BY DEF Fill
<1>2. /\ Map!FillBucket(t) = b /\ bfsSeen[t].slots = bfs[t].slots /\ pathSeen[t] = path[t]
      /\ Map!occupied(b, slot) <=> occupied(b, slot)
  BY SeenAt, SameKey, SameTable DEF Ready
<1>3. lock_ind(b) \in Locks
  BY DEF lock_ind, Locks
<1>4. locksSeen[Map!lock_ind(b)] = None
  BY <1>1, <1>3, SeenHeld, SameIndex DEF Ready
<1>5. pcSeen[t] = "fill" /\ hashpower = snapSeen[t]
  BY <1>1, SeenAt DEF Ready
<1>6. IF occupied(b, slot) /\ ~last
      THEN /\ pathSeen' = [pathSeen EXCEPT ![t] = p]
           /\ UNCHANGED <<pcSeen, wantSeen, bfsSeen>>
      ELSE /\ Map!StartMove(t, p)
           /\ bfsSeen' = [bfsSeen EXCEPT ![t] = None]
  <2> HIDE DEF b, slot, last, p
  <2> QED
    BY <1>1, SeenStartMove, SeenChanges, SeenSame
<1>7. UNCHANGED <<Map!table, reqSeen, snapSeen, sumSeen, resSeen>>
  BY <1>1, SeenSame DEF table, Map!table
<1> QED
  BY ONLY <1>2, <1>4, <1>5, <1>6, <1>7 DEF Map!Fill

LEMMA SeenMove ==
  ASSUME NEW t \in Threads, Ready(t), Move(t)
  PROVE  Map!Move(t)
<1> DEFINE p == path[t]
           d == Len(p)
           keep == IF d = 2 THEN LocksOf({first(t), second(t)}) ELSE {}
<1>1. /\ pc[t] = "move"
      /\ d > 1
      /\ ~Stale(p)
      /\ buckets' = [buckets EXCEPT
                       ![p[d].bucket][p[d].slot] = buckets[p[d - 1].bucket][p[d - 1].slot],
                       ![p[d - 1].bucket][p[d - 1].slot] = Free]
      /\ locks' = [l \in Locks |-> IF locks[l] = t /\ l \notin keep THEN None ELSE locks[l]]
      /\ IF d = 2
         THEN /\ path' = [path EXCEPT ![t] = SubSeq(p, 1, 1)]
              /\ Goto(t, "place")
              /\ UNCHANGED want
         ELSE StartMove(t, SubSeq(p, 1, d - 1))
      /\ UNCHANGED <<hashpower, counter, expansion, req, snap, bfs, sum, res>>
  BY DEF Move
<1>2. pathSeen[t] = p /\ pcSeen[t] = "move"
  BY <1>1, SeenAt DEF Ready
<1>3. (IF d = 2 THEN Map!LocksOf({Map!first(t), Map!second(t)}) ELSE {}) = keep
  BY SameKey, SameTable DEF Ready
<1>4. locksSeen' = [l \in Map!Locks |-> IF locksSeen[l] = t /\ l \notin keep
                                        THEN None ELSE locksSeen[l]]
  <2> HIDE DEF keep
  <2>1. Map!Locks = Locks
    BY SameIndex
  <2> QED
    BY <1>1, <2>1, SeenKept DEF Ready
<1>5. IF d = 2
      THEN /\ pathSeen' = [pathSeen EXCEPT ![t] = SubSeq(p, 1, 1)]
           /\ Map!Goto(t, "place")
           /\ UNCHANGED wantSeen
      ELSE Map!StartMove(t, SubSeq(p, 1, d - 1))
  <2> DEFINE one == SubSeq(p, 1, 1)
             less == SubSeq(p, 1, d - 1)
  <2>1. CASE d = 2
    <3>1. path' = [path EXCEPT ![t] = one] /\ Goto(t, "place") /\ UNCHANGED want
      BY <1>1, <2>1
    <3> HIDE DEF one, d
    <3>2. pathSeen' = [pathSeen EXCEPT ![t] = one]
      BY <3>1, SeenChanges
    <3>3. Map!Goto(t, "place") /\ UNCHANGED wantSeen
      BY <3>1, SeenEnds, SeenSame
    <3> QED
      BY <2>1, <3>2, <3>3 DEF one
  <2>2. CASE d # 2
    <3>1. StartMove(t, less)
      BY <1>1, <2>2
    <3> HIDE DEF less, d
    <3>2. Map!StartMove(t, less)
      BY <3>1, SeenStartMove
    <3> QED
      BY <2>2, <3>2 DEF less
  <2> QED
    BY <2>1, <2>2
<1>6. UNCHANGED <<reqSeen, snapSeen, bfsSeen, sumSeen, resSeen>>
  BY <1>1, SeenSame
<1>7. ~Map!Stale(p)
  BY <1>1, SameStale
<1> HIDE DEF keep
<1> QED
  BY ONLY <1>1, <1>2, <1>3, <1>4, <1>5, <1>6, <1>7 DEF Map!Move

LEMMA SeenCuckoo ==
  ASSUME NEW t \in Threads, Ready(t), Cuckoo(t)
  PROVE  Map!Cuckoo(t)
BY SeenRunCuckoo, SeenSlotSearch, SeenFill, SeenMoveFails, SeenNothingToMove, SeenMove,
   SeenPlace DEF Cuckoo, Map!Cuckoo

LEMMA SeenScanCounter ==
  ASSUME NEW t \in Threads, Ready(t), ScanCounter(t)
  PROVE  Map!ScanCounter(t)
<1>1. PICK l \in Lowest(want[t]) :
        LET total == (sum[t] + counter[l]) % CounterMod
            done == want[t] = {l} \/ (pc[t] = "scan" /\ req[t].op = "empty" /\ counter[l] # 0)
        IN  /\ pc[t] \in {"scan", "load"}
            /\ want' = [want EXCEPT ![t] = @ \ {l}]
            /\ sum' = [sum EXCEPT ![t] = total]
            /\ IF ~done THEN UNCHANGED <<pc, res>>
               ELSE IF pc[t] = "load" THEN Goto(t, "check") /\ UNCHANGED res
               ELSE Finish(t, IF req[t].op = "size" THEN <<"size", total>>
                              ELSE <<IF counter[l] = 0 THEN "true" ELSE "false">>)
            /\ UNCHANGED <<table, req, snap, path, bfs>>
  BY DEF ScanCounter
<1> DEFINE total == (sum[t] + counter[l]) % CounterMod
           done == want[t] = {l} \/ (pc[t] = "scan" /\ req[t].op = "empty" /\ counter[l] # 0)
           answer == IF req[t].op = "size" THEN <<"size", total>>
                     ELSE <<IF counter[l] = 0 THEN "true" ELSE "false">>
           fewer == want[t] \ {l}
<1>2. /\ pcSeen[t] = pc[t] /\ reqSeen[t] = req[t] /\ wantSeen[t] = want[t] /\ sumSeen[t] = sum[t]
      /\ l \in Map!Lowest(wantSeen[t])
  BY <1>1, SeenAt, SameIndex DEF Ready
<1>3. /\ want' = [want EXCEPT ![t] = fewer] /\ sum' = [sum EXCEPT ![t] = total]
      /\ IF ~done THEN UNCHANGED <<pc, res>>
         ELSE IF pc[t] = "load" THEN Goto(t, "check") /\ UNCHANGED res
         ELSE Finish(t, answer)
      /\ UNCHANGED <<table, req, snap, path, bfs>>
      /\ pc[t] \in {"scan", "load"}
  BY <1>1
<1>4. wantSeen' = [wantSeen EXCEPT ![t] = fewer] /\ sumSeen' = [sumSeen EXCEPT ![t] = total]
  <2> HIDE DEF fewer, total
  <2> QED
    BY <1>3, SeenChanges
<1>5. IF ~done THEN UNCHANGED <<pcSeen, resSeen>>
      ELSE IF pc[t] = "load" THEN Map!Goto(t, "check") /\ UNCHANGED resSeen
      ELSE Map!Finish(t, answer)
  <2> HIDE DEF done, answer
  <2> QED
    BY <1>3, SeenEnds, SeenSame
<1>6. UNCHANGED <<Map!table, reqSeen, snapSeen, pathSeen, bfsSeen>>
  BY <1>3, SeenSame DEF table, Map!table
<1> QED
  BY ONLY <1>2, <1>3, <1>4, <1>5, <1>6 DEF Map!ScanCounter

LEMMA SeenLockExpansion ==
  ASSUME NEW t \in Threads, Ready(t), LockExpansion(t)
  PROVE  Map!LockExpansion(t)
BY SeenAt, SeenEnds, SeenChanges, SeenSame, SameIndex DEF Ready, LockExpansion, Map!LockExpansion

LEMMA SeenCheckResize ==
  ASSUME NEW t \in Threads, Ready(t), CheckResize(t)
  PROVE  Map!CheckResize(t)
<1>1. Map!LoadTooLow(t) <=> LoadTooLow(t)
  BY SeenAt, SameTable DEF Ready, LoadTooLow, Map!LoadTooLow
<1>2. pcSeen[t] = pc[t] /\ snapSeen[t] = snap[t] /\ Map!Locks = Locks
  BY SeenAt, SameIndex DEF Ready
<1> QED
  BY <1>1, <1>2, SeenEnds, SeenChanges, SeenSame DEF CheckResize, Map!CheckResize

LEMMA SeenLockAll ==
  ASSUME NEW t \in Threads, Ready(t), want[t] \subseteq Locks, LockAll(t)
  PROVE  Map!LockAll(t)
<1>1. Map!TakeLowest(t)
  BY SeenTake DEF LockAll
<1>2. wantSeen'[t] = want'[t]
  BY DEF Ready, MovesSeen, wantSeen, Seen
<1> QED
  BY <1>1, <1>2, SeenAt, SeenEnds, SeenSame DEF Ready, LockAll, Map!LockAll

LEMMA SeenDouble ==
  ASSUME NEW t \in Threads, Ready(t), Double(t)
  PROVE  Map!Double(t)
BY SeenAt, SeenEnds, SeenChanges, SeenSame, SameTable DEF Ready, Double, Map!Double

LEMMA SeenDoubleThrows ==
  ASSUME NEW t \in Threads, Ready(t), DoubleThrows(t)
  PROVE  Map!DoubleThrows(t)
<1>1. locksSeen' = Map!Unlocked(t)
  BY SeenUnlocked DEF Ready, DoubleThrows
<1> QED
  BY <1>1, SeenAt, SeenEnds, SeenSame, SameTable DEF Ready, DoubleThrows, Map!DoubleThrows

LEMMA SeenMoveBuckets ==
  ASSUME NEW t \in Threads, Ready(t), want[t] \subseteq Locks, MoveBuckets(t)
  PROVE  Map!MoveBuckets(t)
<1>1. PICK l \in want[t] : SplitLock(snap[t], l) /\ want' = [want EXCEPT ![t] = @ \ {l}]
  BY DEF MoveBuckets
<1>2. /\ wantSeen[t] = want[t] /\ snapSeen[t] = snap[t] /\ pcSeen[t] = pc[t]
      /\ wantSeen'[t] = want'[t]
  BY SeenAt DEF Ready, MovesSeen, wantSeen, Seen
<1>3. wantSeen' = [wantSeen EXCEPT ![t] = @ \ {l}]
  BY <1>1, <1>2, SeenChanges
<1>4. locksSeen' = [locksSeen EXCEPT ![l] = None]
  BY <1>1, SeenLocks DEF Ready, SplitLock
<1>5. Map!SplitLock(snapSeen[t], l)
  BY <1>1, <1>2, <1>4, SameSplit, SameIndex, SameCardinality
  DEF SplitLock, Map!SplitLock, Recount, Map!Recount
<1>6. IF wantSeen'[t] = {} THEN Map!Goto(t, "unlock_new") ELSE UNCHANGED pcSeen
  BY <1>2, SeenEnds, SeenSame DEF MoveBuckets
<1>7. UNCHANGED <<hashpower, expansion, reqSeen, snapSeen, pathSeen, bfsSeen, sumSeen, resSeen>>
  BY SeenSame DEF MoveBuckets
<1> QED
  BY <1>1, <1>2, <1>3, <1>5, <1>6, <1>7 DEF MoveBuckets, Map!MoveBuckets

LEMMA SeenUnlockNew ==
  ASSUME NEW t \in Threads, Ready(t), UnlockNew(t)
  PROVE  Map!UnlockNew(t)
<1>1. PICK l \in Locks \ locks_to_move(snap[t]) :
        locks[l] = t /\ locks' = [locks EXCEPT ![l] = None]
  BY DEF UnlockNew
<1>2. locksSeen[l] = t /\ locksSeen' = [locksSeen EXCEPT ![l] = None]
  BY <1>1, SeenHeld, SeenLocks DEF Ready
<1>3. l \in Map!Locks \ Map!locks_to_move(snapSeen[t]) /\ pcSeen[t] = pc[t]
  BY <1>1, SeenAt, SameIndex, SameTable DEF Ready
<1>4. UNCHANGED Map!threads
  BY SeenSame DEF UnlockNew, threads, Map!threads
<1> QED
  BY <1>2, <1>3, <1>4 DEF UnlockNew, Map!UnlockNew

LEMMA SeenExpanded ==
  ASSUME NEW t \in Threads, Ready(t), Expanded(t)
  PROVE  Map!Expanded(t)
BY SeenAt, SeenHeld, SeenEnds, SeenSame DEF Ready, Expanded, Map!Expanded

LEMMA SeenExpand ==
  ASSUME NEW t \in Threads, Ready(t), want[t] \subseteq Locks, Expand(t)
  PROVE  Map!Expand(t)
BY SeenLockExpansion, SeenCheckResize, SeenLockAll, SeenDouble, SeenDoubleThrows,
   SeenMoveBuckets, SeenUnlockNew, SeenExpanded DEF Expand, Map!Expand

\* A step of a thread that is there is a step of the table seen.
LEMMA SeenStep ==
  ASSUME ThreadFcns, LocksTyped, NEW t \in Threads, want[t] \subseteq Locks,
         ~Away(t), SameAway, Step(t)
  PROVE  Map!Step(t)
<1>1. Ready(t)
  BY StepMoves, SeenMoves DEF Ready
<1> QED
  BY <1>1, SeenSnapshot, SeenLockBucket, SeenHashpowerChanged, SeenOperate, SeenCuckoo,
     SeenScanCounter, SeenExpand, SeenReturn DEF Step, Map!Step

----------------------------------------------------------------------------
(* What a step of one thread leaves to the others.                         *)

LEMMA StepRequest ==
  ASSUME NEW t \in Threads, Step(t)
  PROVE  req' = req \/ (Return(t) /\ req' = [req EXCEPT ![t] = None])
<1>1. CASE Snapshot(t) \/ LockBucket(t) \/ HashpowerChanged(t) \/ ScanCounter(t)
  BY <1>1 DEF Snapshot, LockBucket, HashpowerChanged, ScanCounter
<1>2. CASE Operate(t)
  BY <1>2 DEF Operate, Find, Erase, Update, Insert, CopyThrows
<1>3. CASE Cuckoo(t)
  BY <1>3 DEF Cuckoo, RunCuckoo, SlotSearch, Fill, MoveFails, NothingToMove, Move, Place
<1>4. CASE Expand(t)
  BY <1>4 DEF Expand, LockExpansion, CheckResize, LockAll, Double, DoubleThrows, MoveBuckets,
     UnlockNew, Expanded, threads
<1>5. CASE Return(t)
  BY <1>5 DEF Return
<1> QED
  BY <1>1, <1>2, <1>3, <1>4, <1>5 DEF Step

LEMMA StepSameAway ==
  ASSUME ThreadFcns, NEW t \in Threads, ~Away(t), Step(t), owner' = owner
  PROVE  SameAway
BY StepRequest DEF SameAway, Away, ThreadFcns, IsFcn

\* The locks of others, and whether they hold the expansion lock.
OthersLocks(t) ==
  /\ locks' \in [Locks -> Threads \cup {None}]
  /\ \A u \in Threads \ {t} : LocksHeld(u)' = LocksHeld(u)

LEMMA UnlockedOthers ==
  ASSUME LocksTyped, NEW t \in Threads, locks' = Unlocked(t)
  PROVE  OthersLocks(t)
BY MapAssumption DEF LocksTyped, Unlocked, OthersLocks, LocksHeld

LEMMA TakenOthers ==
  ASSUME LocksTyped, NEW t \in Threads, want[t] \subseteq Locks, TakeLowest(t)
  PROVE  OthersLocks(t)
<1>1. PICK l \in Lowest(want[t]) : locks[l] = None /\ locks' = [locks EXCEPT ![l] = t]
  BY DEF TakeLowest
<1>2. l \in Locks
  BY DEF Lowest
<1> QED
  BY <1>1, <1>2, MapAssumption DEF LocksTyped, OthersLocks, LocksHeld

LEMMA ReleasedOthers ==
  ASSUME LocksTyped, NEW t \in Threads, NEW l \in LocksHeld(t),
         locks' = [locks EXCEPT ![l] = None]
  PROVE  OthersLocks(t)
BY MapAssumption DEF LocksTyped, OthersLocks, LocksHeld

LEMMA KeptOthers ==
  ASSUME LocksTyped, locks' = locks, NEW t
  PROVE  OthersLocks(t)
BY DEF LocksTyped, OthersLocks, LocksHeld

LEMMA StepOthersLocks ==
  ASSUME LocksTyped, NEW t \in Threads, want[t] \subseteq Locks, Step(t),
         pc[t] = "split" => want[t] \subseteq LocksHeld(t)
  PROVE  OthersLocks(t)
<1>1. CASE Snapshot(t) \/ HashpowerChanged(t) \/ ScanCounter(t) \/ Return(t)
  BY <1>1, KeptOthers DEF Snapshot, HashpowerChanged, ScanCounter, Return, table
<1>2. CASE LockBucket(t) \/ LockAll(t)
  BY <1>2, TakenOthers DEF LockBucket, LockAll
<1>3. CASE Operate(t) \/ Place(t)
  BY <1>3, UnlockedOthers
  DEF Operate, Find, Erase, Update, Insert, CopyThrows, Place, OnDuplicate, add_to_bucket
<1>4. CASE RunCuckoo(t) \/ MoveFails(t) \/ DoubleThrows(t)
  BY <1>4, UnlockedOthers DEF RunCuckoo, MoveFails, DoubleThrows
<1>5. CASE SlotSearch(t) \/ Fill(t) \/ NothingToMove(t)
  BY <1>5, KeptOthers DEF SlotSearch, Fill, NothingToMove, table
<1>6. CASE Move(t)
  <2>1. PICK keep : locks' = [l \in Locks |-> IF locks[l] = t /\ l \notin keep
                                              THEN None ELSE locks[l]]
    BY <1>6 DEF Move
  <2> QED
    BY <2>1, MapAssumption DEF LocksTyped, OthersLocks, LocksHeld
<1>7. CASE LockExpansion(t) \/ CheckResize(t) \/ Double(t) \/ Expanded(t)
  BY <1>7, KeptOthers DEF LockExpansion, CheckResize, Double, Expanded
<1>8. CASE MoveBuckets(t)
  <2>1. PICK l \in want[t] : locks' = [locks EXCEPT ![l] = None]
    BY <1>8 DEF MoveBuckets, SplitLock
  <2>2. l \in LocksHeld(t)
    BY <1>8 DEF MoveBuckets
  <2> QED
    BY <2>1, <2>2, ReleasedOthers
<1>9. CASE UnlockNew(t)
  <2>1. PICK l \in Locks : locks[l] = t /\ locks' = [locks EXCEPT ![l] = None]
    BY <1>9 DEF UnlockNew
  <2> QED
    BY <2>1, ReleasedOthers DEF LocksHeld
<1> QED
  BY <1>1, <1>2, <1>3, <1>4, <1>5, <1>6, <1>7, <1>8, <1>9 DEF Step, Cuckoo, Expand

LEMMA StepExpansion ==
  ASSUME NEW t \in Threads, Step(t)
  PROVE  expansion' \in {expansion, t, None}
<1>1. CASE Snapshot(t) \/ LockBucket(t) \/ HashpowerChanged(t) \/ ScanCounter(t) \/ Return(t)
  BY <1>1 DEF Snapshot, LockBucket, HashpowerChanged, ScanCounter, Return, table
<1>2. CASE Operate(t)
  BY <1>2 DEF Operate, Find, Erase, Update, Insert, CopyThrows
<1>3. CASE Cuckoo(t)
  BY <1>3 DEF Cuckoo, RunCuckoo, SlotSearch, Fill, MoveFails, NothingToMove, Move, Place, table
<1>4. CASE Expand(t)
  BY <1>4 DEF Expand, LockExpansion, CheckResize, LockAll, Double, DoubleThrows, MoveBuckets,
     UnlockNew, Expanded
<1> QED
  BY <1>1, <1>2, <1>3, <1>4 DEF Step

----------------------------------------------------------------------------
(* The invariant.                                                          *)

\* A thread outside the table has nothing left of its last operation.
RestOK(t) ==
  pc[t] = "idle" =>
    /\ req[t] = None /\ snap[t] = 0 /\ want[t] = {} /\ path[t] = <<>>
    /\ bfs[t] = None /\ sum[t] = 0 /\ res[t] = None

\* Where a thread that is away can be, and the locks it has there.
AwayAt(t) ==
  \/ /\ owner # t /\ pc[t] = "resize" /\ req[t] \in ResizeRequests(WholeOps)
     /\ LocksHeld(t) = {}
  \/ /\ owner # t /\ pc[t] = "grab" /\ req[t] \in WholeRequests
     /\ want[t] # {} /\ LocksHeld(t) \cup want[t] = Locks /\ InOrder(t)
  \/ /\ owner # t /\ pc[t] = "whole" /\ req[t] \in WholeRequests
     /\ LocksHeld(t) = Locks
  \/ /\ owner # t /\ pc[t] = "return" /\ req[t] # None
     /\ req[t].op \notin {"insert", "upsert"}
     /\ LocksHeld(t) = {}
  \/ /\ owner = t /\ pc[t] = "owned" /\ req[t] \in LockedRequests
     /\ LocksHeld(t) = Locks /\ snap[t] = hashpower /\ MayIterate(req[t].op)
  \/ /\ owner = t /\ pc[t] = "return" /\ req[t] # None
     /\ LocksHeld(t) = Locks
  \/ /\ owner = t /\ pc[t] = "idle"
     /\ LocksHeld(t) = Locks

AwayOK(t) ==
  /\ path[t] = <<>> /\ bfs[t] = None /\ sum[t] = 0
  /\ snap[t] \in Nat /\ want[t] \subseteq Locks
  /\ req[t] \in AllRequests \cup {None} /\ res[t] \in WholeResults \cup {None}
  /\ expansion # t
  /\ AwayAt(t)

OwnerOK ==
  /\ owner \in Threads \cup {None}
  /\ it \in Positions \cup {End, None}
  /\ owner = None => it = None

\* Inductive together with CarefulOK: the table seen satisfies the invariant
\* of CuckooMap, and the threads that are away stand apart with their locks.
SeenInv ==
  /\ Map!IndInv /\ Map!CallsOK
  /\ ThreadFcns /\ LocksTyped /\ OwnerOK
  /\ \A t \in Threads : RestOK(t) /\ (Away(t) => AwayOK(t))

\* Resizes by hand and inserts that may expand the table are kept apart.
Apart(t, u) ==
  RunsInsert(u) =>
    /\ ~RunsResize(t)
    /\ owner = t /\ pc[t] = "owned" /\ req[t].op \in {"insert", "rehash", "reserve"}
         => pc[u] \in {"snapshot", "lock"}
CarefulOK == \A t \in Threads : \A u \in Threads \ {t} : Apart(t, u)

WholeInv == SeenInv /\ CarefulOK

----------------------------------------------------------------------------
(* Steps of threads that are there.                                        *)

LEMMA OthersAway ==
  ASSUME ThreadFcns, NEW t \in Threads, NEW u \in Threads \ {t}, ThreadMoves(t),
         LocksHeld(u)' = LocksHeld(u), expansion' \in {expansion, t, None},
         owner' = u <=> owner = u,
         owner = u => UNCHANGED <<hashpower, buckets, it>>
  PROVE  /\ RestOK(u) => RestOK(u)'
         /\ AwayOK(u) => AwayOK(u)'
         /\ Away(u)' <=> Away(u)
<1>1. /\ pc'[u] = pc[u] /\ req'[u] = req[u] /\ snap'[u] = snap[u] /\ want'[u] = want[u]
      /\ path'[u] = path[u] /\ bfs'[u] = bfs[u] /\ sum'[u] = sum[u] /\ res'[u] = res[u]
  BY DEF ThreadMoves, ThreadFcns, IsFcn
<1>2. RestOK(u) => RestOK(u)'
  BY <1>1 DEF RestOK
<1>3. Away(u)' <=> Away(u)
  BY <1>1 DEF Away
<1>4. owner = u => \A op : MayIterate(op) => MayIterate(op)'
  <2> SUFFICES ASSUME owner = u PROVE \A op : MayIterate(op) => MayIterate(op)'
    OBVIOUS
  <2>1. Positions' = Positions
    BY DEF Positions, occupied
  <2>2. Till(it)' = Till(it)
    BY <2>1 DEF Till
  <2> QED
    BY <2>1, <2>2 DEF MayIterate
<1>5. AwayAt(u) => AwayAt(u)'
  <2>1. InOrder(u) => InOrder(u)'
    BY <1>1 DEF InOrder
  <2> QED
    BY <1>1, <1>4, <2>1 DEF AwayAt
<1>6. AwayOK(u) => AwayOK(u)'
  BY <1>1, <1>5, MapAssumption DEF AwayOK
<1> QED
  BY <1>2, <1>3, <1>6

LEMMA StepToIdle ==
  ASSUME NEW t \in Threads, IsFcn(pc), Step(t), pc'[t] = "idle"
  PROVE  Return(t)
<1> USE DEF IsFcn, Goto, Finish
<1>1. CASE Snapshot(t) \/ LockBucket(t) \/ HashpowerChanged(t) \/ ScanCounter(t)
  BY <1>1 DEF Snapshot, LockBucket, HashpowerChanged, ScanCounter
<1>2. CASE Operate(t) \/ Place(t)
  BY <1>2 DEF Operate, Find, Erase, Update, Insert, CopyThrows, Place, OnDuplicate, add_to_bucket
<1>3. CASE RunCuckoo(t) \/ SlotSearch(t) \/ MoveFails(t) \/ NothingToMove(t)
  BY <1>3 DEF RunCuckoo, SlotSearch, MoveFails, NothingToMove, StartSearch
<1>4. CASE Fill(t)
  BY <1>4 DEF Fill, StartMove
<1>5. CASE Move(t)
  BY <1>5 DEF Move, StartMove
<1>6. CASE LockExpansion(t) \/ CheckResize(t) \/ LockAll(t) \/ Double(t) \/ DoubleThrows(t)
  BY <1>6 DEF LockExpansion, CheckResize, LockAll, Double, DoubleThrows
<1>7. CASE MoveBuckets(t) \/ UnlockNew(t) \/ Expanded(t)
  BY <1>7 DEF MoveBuckets, UnlockNew, Expanded, threads
<1> QED
  BY <1>1, <1>2, <1>3, <1>4, <1>5, <1>6, <1>7 DEF Step, Cuckoo, Expand

LEMMA OwnerHoldsAll ==
  ASSUME SeenInv, NEW t \in Threads, owner = t
  PROVE  LocksHeld(t) = Locks /\ Away(t)
BY DEF SeenInv, AwayOK, AwayAt, Away

LEMMA NoOtherLocks ==
  ASSUME NEW t \in Threads, NEW u \in Threads \ {t}, LocksHeld(t) = Locks
  PROVE  LocksHeld(u) = {}
BY DEF LocksHeld

LEMMA StepOfMap ==
  ASSUME Map!IndInv, Map!CallsOK, NEW t \in Threads,
         Map!Step(t) \/ \E r \in Requests : Map!Call(t, r)
  PROVE  Map!IndInv' /\ Map!CallsOK'
<1>1. Map!Next
  BY SameTypes DEF Map!Next
<1> QED
  BY <1>1, Protocol

LEMMA MapIsUnchanged ==
  ASSUME Map!IndInv, NEW t \in Threads, Map!LocksHeld(t) = {}, Map!Step(t)
  PROVE  UNCHANGED <<hashpower, buckets, counter>>
BY Map!ChangesNothing, SameIndex, SameTypes,
   IndexAssumption, MapAssumption, FreeAssumption, NoneAssumption

LEMMA SeenWants ==
  ASSUME SeenInv, NEW t \in Threads, ~Away(t)
  PROVE  /\ want[t] \subseteq Locks
         /\ pc[t] = "split" => want[t] \subseteq LocksHeld(t)
<1>1. wantSeen[t] = want[t] /\ pcSeen[t] = pc[t] /\ Map!LocksHeld(t) = LocksHeld(t)
  BY SeenAt, SeenHeld DEF SeenInv
<1>2. wantSeen[t] \subseteq Locks
  BY SameIndex DEF SeenInv, Map!IndInv, Map!TypeOK
<1>3. pcSeen[t] = "split" => wantSeen[t] \subseteq Map!LocksHeld(t)
  BY DEF SeenInv, Map!IndInv, Map!ExpansionOK
<1> QED
  BY <1>1, <1>2, <1>3

LEMMA StepSeenInv ==
  ASSUME SeenInv, NEW t \in Threads, ~Away(t), Step(t), UNCHANGED own
  PROVE  SeenInv'
<1>1. SameAway
  BY StepSameAway DEF SeenInv, own
<1>2. Map!Step(t)
  BY <1>1, SeenStep, SeenWants DEF SeenInv
<1>3. Map!IndInv' /\ Map!CallsOK'
  BY <1>2, StepOfMap DEF SeenInv
<1>4. OthersLocks(t) /\ expansion' \in {expansion, t, None} /\ ThreadMoves(t)
  BY StepOthersLocks, StepExpansion, StepMoves, SeenWants DEF SeenInv
<1>5. owner # None => UNCHANGED <<hashpower, buckets>>
  <2> SUFFICES ASSUME owner # None PROVE UNCHANGED <<hashpower, buckets>>
    OBVIOUS
  <2>1. owner \in Threads \ {t}
    BY DEF SeenInv, OwnerOK, Away
  <2>2. Map!LocksHeld(t) = {}
    BY <2>1, OwnerHoldsAll, NoOtherLocks, SeenHeld DEF SeenInv
  <2> QED
    BY <1>2, <2>2, MapIsUnchanged DEF SeenInv
<1>6. ASSUME NEW u \in Threads \ {t} PROVE RestOK(u)' /\ (Away(u)' => AwayOK(u)')
  <2>1. owner = u => UNCHANGED <<hashpower, buckets, it>>
    BY <1>5, MapAssumption DEF own
  <2>2. /\ RestOK(u) => RestOK(u)'
        /\ AwayOK(u) => AwayOK(u)'
        /\ Away(u)' <=> Away(u)
    BY <1>4, <2>1, OthersAway DEF SeenInv, OthersLocks, own
  <2> QED
    BY <2>2 DEF SeenInv
<1>7. RestOK(t)' /\ ~Away(t)'
  <2>1. ~Away(t)'
    BY <1>1 DEF SameAway
  <2>2. pc'[t] = "idle" => Return(t)
    BY StepToIdle DEF SeenInv, ThreadFcns
  <2>3. Return(t) => RestOK(t)'
    BY DEF Return, RestOK, SeenInv, ThreadFcns, IsFcn
  <2> QED
    BY <2>1, <2>2, <2>3 DEF RestOK
<1>8. ThreadFcns' /\ LocksTyped'
  BY <1>4 DEF SeenInv, ThreadFcns, IsFcn, ThreadMoves, LocksTyped, OthersLocks
<1>9. OwnerOK'
  <2>1. CASE owner = None
    BY <2>1 DEF SeenInv, OwnerOK, own
  <2>2. CASE owner # None
    <3>1. Positions' = Positions
      BY <1>5, <2>2 DEF Positions, occupied
    <3> QED
      BY <3>1 DEF SeenInv, OwnerOK, own
  <2> QED
    BY <2>1, <2>2
<1> QED
  BY <1>3, <1>6, <1>7, <1>8, <1>9 DEF SeenInv

LEMMA IdleIsThere ==
  ASSUME SeenInv, NEW t \in Threads, pc[t] = "idle", owner # t
  PROVE  ~Away(t)
BY DEF SeenInv, AwayOK, AwayAt

LEMMA CallMoves ==
  ASSUME ThreadFcns, NEW t \in Threads, NEW r, Call(t, r)
  PROVE  /\ ThreadMoves(t) /\ UNCHANGED table
         /\ req' = [req EXCEPT ![t] = r] /\ pc'[t] # "idle"
BY DEF Call, ThreadMoves, ThreadFcns, IsFcn, Goto

LEMMA SeenCall ==
  ASSUME NEW t \in Threads, Ready(t), NEW r \in Requests, Call(t, r)
  PROVE  Map!Call(t, r)
<1>1. pcSeen[t] = "idle" /\ reqSeen' = [reqSeen EXCEPT ![t] = r]
  BY SeenAt, SeenChanges DEF Ready, Call
<1>2. IF r \in Map!CountRequests
      THEN Map!Goto(t, "scan") /\ wantSeen' = [wantSeen EXCEPT ![t] = Map!Locks]
      ELSE Map!Goto(t, "snapshot") /\ UNCHANGED wantSeen
  BY SeenEnds, SeenChanges, SeenSame, SameTypes, SameIndex DEF Call
<1>3. UNCHANGED <<Map!table, snapSeen, pathSeen, bfsSeen, sumSeen, resSeen>>
  BY SeenSame DEF Call, table, Map!table
<1> QED
  BY <1>1, <1>2, <1>3 DEF Map!Call

LEMMA CallMapSeenInv ==
  ASSUME SeenInv, NEW t \in Threads, NEW r \in Requests, CallMap(t, r)
  PROVE  SeenInv'
<1>1. ~Away(t) /\ Call(t, r) /\ UNCHANGED own /\ UNCHANGED table
  BY IdleIsThere, CallMoves DEF CallMap, Call, SeenInv
<1>2. SameAway
  BY <1>1, StaysAway, CallMoves DEF SeenInv, ThreadFcns, own
<1>3. ThreadMoves(t) /\ OthersLocks(t)
  BY <1>1, CallMoves, KeptOthers DEF SeenInv, table
<1>4. Ready(t)
  BY <1>1, <1>2, <1>3, SeenMoves DEF Ready, SeenInv
<1>5. Map!IndInv' /\ Map!CallsOK'
  BY <1>1, <1>4, SeenCall, StepOfMap DEF SeenInv
<1>6. ASSUME NEW u \in Threads \ {t} PROVE RestOK(u)' /\ (Away(u)' => AwayOK(u)')
  <2>1. UNCHANGED <<hashpower, buckets, it, owner, expansion>>
    BY <1>1 DEF own, table
  <2>2. /\ RestOK(u) => RestOK(u)'
        /\ AwayOK(u) => AwayOK(u)'
        /\ Away(u)' <=> Away(u)
    BY <1>3, <2>1, OthersAway DEF SeenInv, OthersLocks
  <2> QED
    BY <2>2 DEF SeenInv
<1>7. RestOK(t)' /\ ~Away(t)'
  BY <1>1, <1>2, CallMoves DEF RestOK, SameAway, SeenInv
<1>8. ThreadFcns' /\ LocksTyped'
  BY <1>3 DEF SeenInv, ThreadFcns, IsFcn, ThreadMoves, LocksTyped, OthersLocks
<1>9. OwnerOK'
  <2>1. Positions' = Positions
    BY <1>1 DEF Positions, occupied, table
  <2> QED
    BY <1>1, <2>1 DEF SeenInv, OwnerOK, own
<1> QED
  BY <1>5, <1>6, <1>7, <1>8, <1>9 DEF SeenInv

----------------------------------------------------------------------------
(* Steps of threads that are away, which others do not see.                *)

\* What is seen of thread t is nothing.
AtRest(t) == Away(t) \/ (pc[t] = "idle" /\ RestOK(t))

LEMMA RestIsSeen ==
  ASSUME NEW t \in Threads, AtRest(t)
  PROVE  /\ pcSeen[t] = "idle" /\ reqSeen[t] = None /\ snapSeen[t] = 0 /\ wantSeen[t] = {}
         /\ pathSeen[t] = <<>> /\ bfsSeen[t] = None /\ sumSeen[t] = 0 /\ resSeen[t] = None
BY DEF AtRest, RestOK, pcSeen, reqSeen, snapSeen, wantSeen, pathSeen, bfsSeen, sumSeen,
   resSeen, Seen

LEMMA RestIsSeenNext ==
  ASSUME NEW t \in Threads, AtRest(t)'
  PROVE  /\ pcSeen'[t] = "idle" /\ reqSeen'[t] = None /\ snapSeen'[t] = 0 /\ wantSeen'[t] = {}
         /\ pathSeen'[t] = <<>> /\ bfsSeen'[t] = None /\ sumSeen'[t] = 0 /\ resSeen'[t] = None
BY DEF AtRest, RestOK, pcSeen, reqSeen, snapSeen, wantSeen, pathSeen, bfsSeen, sumSeen,
   resSeen, Seen

LEMMA UnseenThreads ==
  ASSUME ThreadFcns, NEW t \in Threads, ThreadMoves(t), AtRest(t), AtRest(t)',
         \A u \in Threads \ {t} : Away(u)' <=> Away(u)
  PROVE  UNCHANGED <<pcSeen, reqSeen, snapSeen, wantSeen, pathSeen, bfsSeen, sumSeen, resSeen>>
<1>1. ASSUME NEW u \in Threads \ {t}
      PROVE  /\ pc'[u] = pc[u] /\ req'[u] = req[u] /\ snap'[u] = snap[u] /\ want'[u] = want[u]
             /\ path'[u] = path[u] /\ bfs'[u] = bfs[u] /\ sum'[u] = sum[u] /\ res'[u] = res[u]
  BY <1>1 DEF ThreadMoves, ThreadFcns, IsFcn
<1> USE DEF Seen
<1>2. pcSeen' = pcSeen
  BY <1>1, RestIsSeen, RestIsSeenNext DEF pcSeen
<1>3. reqSeen' = reqSeen
  BY <1>1, RestIsSeen, RestIsSeenNext DEF reqSeen
<1>4. snapSeen' = snapSeen
  BY <1>1, RestIsSeen, RestIsSeenNext DEF snapSeen
<1>5. wantSeen' = wantSeen
  BY <1>1, RestIsSeen, RestIsSeenNext DEF wantSeen
<1>6. pathSeen' = pathSeen
  BY <1>1, RestIsSeen, RestIsSeenNext DEF pathSeen
<1>7. bfsSeen' = bfsSeen
  BY <1>1, RestIsSeen, RestIsSeenNext DEF bfsSeen
<1>8. sumSeen' = sumSeen
  BY <1>1, RestIsSeen, RestIsSeenNext DEF sumSeen
<1>9. resSeen' = resSeen
  BY <1>1, RestIsSeen, RestIsSeenNext DEF resSeen
<1> QED
  BY <1>2, <1>3, <1>4, <1>5, <1>6, <1>7, <1>8, <1>9

\* Locks that only threads that are away take or release are not seen.
LEMMA UnseenLocks ==
  ASSUME LocksTyped, LocksTyped', NEW t \in Threads, OthersLocks(t),
         Away(t) \/ LocksHeld(t) = {}, Away(t)' \/ LocksHeld(t)' = {},
         \A u \in Threads \ {t} : Away(u)' <=> Away(u)
  PROVE  locksSeen' = locksSeen
<1>1. \A l \in Locks : \A u \in Threads \ {t} : locks'[l] = u <=> locks[l] = u
  BY DEF OthersLocks, LocksHeld
<1>2. ASSUME NEW l \in Locks PROVE locksSeen'[l] = locksSeen[l]
  <2>1. CASE locks[l] \in Threads \ {t}
    BY <1>1, <2>1, MapAssumption DEF locksSeen
  <2>2. CASE locks[l] \in {t, None}
    <3>1. locksSeen[l] = None
      BY <2>2 DEF locksSeen, LocksHeld
    <3>2. locks'[l] \in {t, None}
      BY <1>1, <2>2, MapAssumption DEF LocksTyped
    <3>3. locksSeen'[l] = None
      BY <3>2 DEF locksSeen, LocksHeld
    <3> QED
      BY <3>1, <3>3
  <2> QED
    BY <2>1, <2>2 DEF LocksTyped
<1> QED
  BY <1>2 DEF locksSeen

\* What a step of a thread that is away, before or after, has to satisfy.
Outcome(t) ==
  /\ ThreadMoves(t) /\ OthersLocks(t) /\ expansion' = expansion
  /\ AtRest(t) /\ AtRest(t)'
  /\ Away(t) \/ LocksHeld(t) = {}
  /\ Away(t)' \/ LocksHeld(t)' = {}
  /\ RestOK(t)' /\ (Away(t)' => AwayOK(t)')
  /\ owner' = owner \/ {owner, owner'} = {t, None}
  /\ OwnerOK'

LEMMA OwnerIsAlone ==
  ASSUME SeenInv, NEW t \in Threads, NEW u \in Threads \ {t}, owner = u
  PROVE  LocksHeld(t) # Locks
<1>1. LocksHeld(u) = Locks /\ {} \in Locks
  BY OwnerHoldsAll DEF Locks
<1> QED
  BY <1>1 DEF LocksHeld

LEMMA OutcomeUnseen ==
  ASSUME SeenInv, NEW t \in Threads, Outcome(t),
         UNCHANGED <<hashpower, buckets, it>> \/ owner \in {t, None}
  PROVE  /\ UNCHANGED <<locksSeen, pcSeen, reqSeen, snapSeen, wantSeen, pathSeen, bfsSeen,
                        sumSeen, resSeen>>
         /\ Map!IndInv' /\ Map!CallsOK' => SeenInv'
<1>1. ASSUME NEW u \in Threads \ {t}
      PROVE  /\ Away(u)' <=> Away(u)
             /\ RestOK(u)' /\ (Away(u)' => AwayOK(u)')
  <2>1. owner' = u <=> owner = u
    BY MapAssumption DEF Outcome
  <2>2. owner = u => UNCHANGED <<hashpower, buckets, it>>
    BY MapAssumption
  <2>3. LocksHeld(u)' = LocksHeld(u)
    BY DEF Outcome, OthersLocks
  <2>4. /\ RestOK(u) => RestOK(u)'
        /\ AwayOK(u) => AwayOK(u)'
        /\ Away(u)' <=> Away(u)
    BY <2>1, <2>2, <2>3, OthersAway DEF Outcome, SeenInv
  <2> QED
    BY <2>4 DEF SeenInv
<1>2. UNCHANGED <<pcSeen, reqSeen, snapSeen, wantSeen, pathSeen, bfsSeen, sumSeen, resSeen>>
  BY <1>1, UnseenThreads DEF Outcome, SeenInv
<1>3. LocksTyped'
  BY DEF Outcome, OthersLocks, LocksTyped
<1>4. locksSeen' = locksSeen
  BY <1>1, <1>3, UnseenLocks DEF Outcome, SeenInv
<1>5. ThreadFcns'
  BY DEF Outcome, SeenInv, ThreadFcns, IsFcn, ThreadMoves
<1> QED
  BY <1>1, <1>2, <1>3, <1>4, <1>5 DEF SeenInv, Outcome

LEMMA QuietOutcome ==
  ASSUME SeenInv, NEW t \in Threads, Outcome(t),
         UNCHANGED <<hashpower, buckets, counter>>, it' = it \/ owner \in {t, None}
  PROVE  SeenInv'
<1>1. UNCHANGED <<locksSeen, pcSeen, reqSeen, snapSeen, wantSeen, pathSeen, bfsSeen,
                  sumSeen, resSeen>>
  BY OutcomeUnseen
<1>2. UNCHANGED Map!vars
  BY <1>1 DEF Map!vars, Map!table, Map!threads, Outcome
<1>3. Map!IndInv' /\ Map!CallsOK'
  BY <1>2, Protocol DEF SeenInv
<1> QED
  BY <1>3, OutcomeUnseen

\* A thread with all locks replaces the table by another one.
Replaces(t) ==
  /\ Away(t) /\ LocksHeld(t) = Locks
  /\ hashpower' = hashpower \/ \A u \in Threads \ {t} : pc[u] \notin Expanding
  /\ hashpower' \in Nat
  /\ buckets' \in [Buckets(hashpower') -> [Slots -> Entry \cup {Free}]]
  /\ counter' \in [Locks -> Counts]

LEMMA ReplacedOutcome ==
  ASSUME SeenInv, NEW t \in Threads, Outcome(t), Replaces(t)
  PROVE  SeenInv'
<1>1. owner \in {t, None}
  BY OwnerIsAlone DEF Replaces, SeenInv, OwnerOK
<1>2. UNCHANGED <<locksSeen, pcSeen, reqSeen, snapSeen, wantSeen, pathSeen, bfsSeen,
                  sumSeen, resSeen>>
  BY <1>1, OutcomeUnseen
<1>3. \A u \in Threads : Map!LocksHeld(u) = {}
  <2>1. \A l \in Locks : locks[l] = t
    BY DEF Replaces, LocksHeld
  <2>2. \A l \in Locks : locksSeen[l] = None
    BY <2>1 DEF locksSeen, Replaces
  <2> QED
    BY <2>2, MapAssumption, SameIndex DEF Map!LocksHeld
<1>4. hashpower' = hashpower \/ \A u \in Threads : pcSeen[u] \notin Map!Expanding
  <2>1. \A u \in Threads : pcSeen[u] \in {"idle", pc[u]}
    BY DEF pcSeen, Seen
  <2>2. pcSeen[t] = "idle"
    BY DEF pcSeen, Seen, Replaces
  <2> QED
    BY <2>1, <2>2, SameTypes DEF Replaces, Expanding
<1>5. UNCHANGED <<locksSeen, expansion, Map!threads>>
  BY <1>2 DEF Map!threads, Outcome
<1>6. Map!IndInv'
  <2>1. /\ buckets' \in [Map!Buckets(hashpower') -> [Map!Slots -> Map!Entry \cup {Free}]]
        /\ counter' \in [Map!Locks -> Map!Counts]
        /\ hashpower' \in Nat
    BY SameIndex, SameTypes DEF Replaces
  <2> QED
    BY <1>3, <1>4, <1>5, <2>1, Map!ReplacedKeeps, SameIndex, SameTypes,
       IndexAssumption, MapAssumption, FreeAssumption, NoneAssumption DEF SeenInv
<1>7. Map!CallsOK'
  BY <1>2 DEF SeenInv, Map!CallsOK, Map!CallOK
<1> QED
  BY <1>1, <1>6, <1>7, OutcomeUnseen

----------------------------------------------------------------------------
(* clear, rehash, reserve and lock_table.                                  *)

LEMMA WholeIsNoRequest ==
  /\ \A r \in WholeRequests :
       /\ r \notin Requests /\ r # None /\ r.op \notin {"insert", "upsert"}
       /\ r.op \in {"rehash", "reserve"} => r \in ResizeRequests(WholeOps)
  /\ \A r \in LockedRequests : r # None
  /\ ResizeRequests(WholeOps) \subseteq WholeRequests
<1>1. ASSUME NEW r \in WholeRequests
      PROVE  /\ r.op \in {"clear", "lock_table", "rehash", "reserve"}
             /\ r.op \in {"rehash", "reserve"} => r \in ResizeRequests(WholeOps)
  BY DEF WholeRequests, ResizeRequests
<1>2. \A r \in Requests : r.op \in {"find", "erase", "update", "upsert", "insert", "size", "empty"}
  BY DEF Requests, KeyRequests, ValRequests, CountRequests
<1>3. ResizeRequests(WholeOps) \subseteq WholeRequests
  BY DEF WholeRequests
<1> QED
  BY <1>1, <1>2, <1>3, WholeNoneAssumption

LEMMA IdleHasNothing ==
  ASSUME SeenInv, NEW t \in Threads, pc[t] = "idle", owner # t
  PROVE  LocksHeld(t) = {} /\ expansion # t
<1>1. ~Away(t)
  BY IdleIsThere
<1>2. pcSeen[t] = "idle" /\ Map!LocksHeld(t) = LocksHeld(t)
  BY <1>1, SeenAt, SeenHeld DEF SeenInv
<1>3. Map!HoldingOK(t) /\ Map!ExpansionOK(t)
  BY DEF SeenInv, Map!IndInv
<1> QED
  BY <1>2, <1>3, SameTypes DEF Map!HoldingOK, Map!ExpansionOK, Lockless, Expanding

LEMMA CallWholeSeenInv ==
  ASSUME SeenInv, NEW t \in Threads, NEW r \in WholeRequests, CallWhole(t, r)
  PROVE  SeenInv'
<1>1. /\ pc[t] = "idle" /\ owner # t /\ RestOK(t) /\ ~Away(t)
      /\ LocksHeld(t) = {} /\ expansion # t
  BY IdleHasNothing, IdleIsThere DEF CallWhole, SeenInv
<1>2. ThreadMoves(t) /\ req'[t] = r
  BY DEF CallWhole, SeenInv, ThreadFcns, IsFcn, ThreadMoves, Goto
<1>3. OthersLocks(t) /\ LocksHeld(t)' = {} /\ locks' = locks
  BY <1>1, KeptOthers DEF CallWhole, table, SeenInv, LocksHeld
<1>4. Away(t)' /\ owner' # t /\ UNCHANGED own
  BY <1>1, <1>2, WholeIsNoRequest DEF CallWhole, own, Away
<1>5. /\ path'[t] = <<>> /\ bfs'[t] = None /\ sum'[t] = 0 /\ snap'[t] = 0 /\ res'[t] = None
      /\ want'[t] \subseteq Locks /\ pc'[t] # "idle" /\ expansion' = expansion
  BY <1>1 DEF CallWhole, RestOK, table, Goto, SeenInv, ThreadFcns, IsFcn
<1>6. AwayAt(t)'
  <2>1. CASE r.op \in {"rehash", "reserve"}
    <3>1. pc'[t] = "resize"
      BY <2>1 DEF CallWhole, Goto, SeenInv, ThreadFcns, IsFcn
    <3> QED
      BY <1>2, <1>3, <1>4, <2>1, <3>1, WholeIsNoRequest DEF AwayAt
  <2>2. CASE r.op \notin {"rehash", "reserve"}
    <3>1. pc'[t] = "grab" /\ want'[t] = Locks
      BY <2>2 DEF CallWhole, Goto, SeenInv, ThreadFcns, IsFcn
    <3>2. Locks # {}
      BY DEF Locks
    <3> QED
      BY <1>2, <1>3, <1>4, <3>1, <3>2 DEF AwayAt, InOrder
  <2> QED
    BY <2>1, <2>2
<1>7. AwayOK(t)'
  BY <1>1, <1>2, <1>5, <1>6 DEF AwayOK, AllRequests
<1>8. OwnerOK'
  <2>1. Positions' = Positions
    BY DEF Positions, occupied, CallWhole, table
  <2> QED
    BY <1>4, <2>1 DEF SeenInv, OwnerOK, own
<1>9. Outcome(t)
  BY <1>1, <1>2, <1>3, <1>4, <1>5, <1>7, <1>8 DEF Outcome, AtRest, RestOK, own
<1> QED
  BY <1>4, <1>9, QuietOutcome DEF CallWhole, table, own

\* A thread at a place of WholeTable is away, and where it is determines the rest.
LEMMA WholePlace ==
  ASSUME SeenInv, NEW t \in Threads, pc[t] \in {"resize", "grab", "whole", "owned"}
  PROVE  /\ Away(t) /\ AwayOK(t) /\ RestOK(t) /\ AtRest(t)
         /\ owner = t <=> pc[t] = "owned"
<1>1. Away(t)
  <2> SUFFICES ASSUME ~Away(t) PROVE FALSE
    OBVIOUS
  <2>1. pcSeen[t] = pc[t] /\ pcSeen[t] \in PCs
    BY SeenAt, SameTypes DEF SeenInv, Map!IndInv, Map!TypeOK
  <2> QED
    BY <2>1 DEF PCs
<1> QED
  BY <1>1 DEF SeenInv, AwayOK, AwayAt, AtRest

LEMMA SamePositions ==
  ASSUME UNCHANGED <<hashpower, buckets>>
  PROVE  Positions' = Positions
BY DEF Positions, occupied

LEMMA OwnerStays ==
  ASSUME SeenInv, UNCHANGED <<hashpower, buckets, own>>
  PROVE  OwnerOK'
BY SamePositions DEF SeenInv, OwnerOK, own

LEMMA ReadHashpowerSeenInv ==
  ASSUME SeenInv, NEW t \in Threads, ReadHashpower(t)
  PROVE  SeenInv'
<1>1. /\ Away(t) /\ AwayOK(t) /\ RestOK(t) /\ AtRest(t) /\ owner # t
      /\ pc[t] = "resize" /\ req[t] \in ResizeRequests(WholeOps) /\ LocksHeld(t) = {}
  <2>1. pc[t] = "resize"
    BY DEF ReadHashpower
  <2> QED
    BY <2>1, WholePlace DEF AwayOK, AwayAt
<1>2. ThreadMoves(t) /\ req' = req
  BY DEF ReadHashpower, SeenInv, ThreadFcns, IsFcn, ThreadMoves, Goto, Finish
<1>3. OthersLocks(t) /\ LocksHeld(t)' = {} /\ locks' = locks
  BY <1>1, KeptOthers DEF ReadHashpower, table, SeenInv, LocksHeld
<1>4. Away(t)' /\ UNCHANGED own
  BY <1>1, <1>2 DEF ReadHashpower, own, Away
<1>5. /\ req[t] \in WholeRequests /\ req[t].op \notin {"insert", "upsert"} /\ req[t] # None
  BY <1>1, WholeIsNoRequest
<1>6. AwayAt(t)' /\ want'[t] \subseteq Locks /\ res'[t] \in WholeResults \cup {None}
  <2>1. CASE target(t) = hashpower
    <3>1. pc'[t] = "return" /\ want' = want /\ res'[t] = <<"false">>
      BY <2>1 DEF ReadHashpower, Finish, Goto, SeenInv, ThreadFcns, IsFcn
    <3> QED
      BY <1>1, <1>2, <1>3, <1>4, <1>5, <3>1 DEF AwayAt, own, AwayOK, WholeResults, Results
  <2>2. CASE target(t) # hashpower
    <3>1. pc'[t] = "grab" /\ want'[t] = Locks /\ res' = res
      BY <2>2 DEF ReadHashpower, Goto, SeenInv, ThreadFcns, IsFcn
    <3>2. Locks # {}
      BY DEF Locks
    <3> QED
      BY <1>1, <1>2, <1>3, <1>4, <1>5, <3>1, <3>2 DEF AwayAt, InOrder, own, AwayOK
  <2> QED
    BY <2>1, <2>2
<1>7. AwayOK(t)'
  BY <1>1, <1>2, <1>6 DEF AwayOK, ReadHashpower, table
<1>8. RestOK(t)'
  BY <1>6, <1>4, <1>1 DEF RestOK, AwayAt, own
<1>9. Outcome(t)
  BY <1>1, <1>2, <1>3, <1>4, <1>7, <1>8, OwnerStays DEF Outcome, AtRest, own, ReadHashpower, table
<1> QED
  BY <1>4, <1>9, QuietOutcome DEF ReadHashpower, table, own

LEMMA GrabSeenInv ==
  ASSUME SeenInv, NEW t \in Threads, Grab(t)
  PROVE  SeenInv'
<1>1. /\ Away(t) /\ AwayOK(t) /\ RestOK(t) /\ AtRest(t) /\ owner # t
      /\ pc[t] = "grab" /\ req[t] \in WholeRequests
      /\ want[t] # {} /\ LocksHeld(t) \cup want[t] = Locks /\ InOrder(t)
  <2>1. pc[t] = "grab"
    BY DEF Grab
  <2> QED
    BY <2>1, WholePlace DEF AwayOK, AwayAt
<1>2. PICK l \in Lowest(want[t]) :
        locks[l] = None /\ locks' = [locks EXCEPT ![l] = t] /\ want' = [want EXCEPT ![t] = @ \ {l}]
  BY DEF Grab, TakeLowest
<1>3. l \in want[t] /\ l \in Locks /\ \A m \in want[t] \ {l} : Below(l, m)
  BY <1>1, <1>2 DEF Lowest, AwayOK
<1>4. LocksHeld(t)' = LocksHeld(t) \cup {l} /\ want'[t] = want[t] \ {l}
  BY <1>2, <1>3 DEF LocksHeld, SeenInv, LocksTyped, ThreadFcns, IsFcn
<1>5. InOrder(t)'
  BY <1>1, <1>3, <1>4 DEF InOrder
<1>6. ThreadMoves(t) /\ req' = req /\ UNCHANGED own
  <2>1. /\ UNCHANGED <<req, snap, path, bfs, sum, res, own>>
        /\ pc' = pc \/ Goto(t, "whole")
    BY DEF Grab
  <2>2. PICK w : want' = [want EXCEPT ![t] = w]
    BY <1>2
  <2>3. want' = [want EXCEPT ![t] = want'[t]]
    BY <2>2 DEF SeenInv, ThreadFcns, IsFcn
  <2> QED
    BY <2>1, <2>3 DEF SeenInv, ThreadFcns, IsFcn, ThreadMoves, Goto
<1>7. OthersLocks(t)
  BY <1>1, TakenOthers DEF Grab, AwayOK, SeenInv
<1>8. Away(t)'
  BY <1>1, <1>6 DEF Away, own
<1>9. AwayAt(t)'
  <2>1. CASE want'[t] = {}
    <3>1. pc'[t] = "whole" /\ LocksHeld(t)' = Locks
      BY <1>1, <1>3, <1>4, <2>1 DEF Grab, Goto, SeenInv, ThreadFcns, IsFcn
    <3> QED
      BY <1>1, <1>6, <3>1 DEF AwayAt, own
  <2>2. CASE want'[t] # {}
    <3>1. pc'[t] = "grab" /\ LocksHeld(t)' \cup want'[t] = Locks
      BY <1>1, <1>3, <1>4, <2>2 DEF Grab
    <3> QED
      BY <1>1, <1>5, <1>6, <2>2, <3>1 DEF AwayAt, own
  <2> QED
    BY <2>1, <2>2
<1>10. AwayOK(t)'
  BY <1>1, <1>4, <1>6, <1>9 DEF AwayOK, Grab
<1>11. RestOK(t)'
  BY <1>9, <1>6, <1>1 DEF RestOK, AwayAt, own
<1>12. Outcome(t)
  BY <1>1, <1>6, <1>7, <1>8, <1>10, <1>11, OwnerStays DEF Outcome, AtRest, own, Grab
<1> QED
  BY <1>6, <1>12, QuietOutcome DEF Grab, own

LEMMA LockTableSeenInv ==
  ASSUME SeenInv, NEW t \in Threads, LockTable(t)
  PROVE  SeenInv'
<1>1. /\ Away(t) /\ AwayOK(t) /\ RestOK(t) /\ AtRest(t) /\ owner # t
      /\ pc[t] = "whole" /\ req[t] \in WholeRequests /\ LocksHeld(t) = Locks
  <2>1. pc[t] = "whole"
    BY DEF LockTable
  <2> QED
    BY <2>1, WholePlace DEF AwayOK, AwayAt
<1>2. owner = None
  BY <1>1, OwnerIsAlone DEF SeenInv, OwnerOK
<1>3. ThreadMoves(t) /\ UNCHANGED <<req, want, path, bfs, sum, snap>> /\ UNCHANGED table
  BY DEF LockTable, Private, SeenInv, ThreadFcns, IsFcn, ThreadMoves, Goto, Finish
<1>4. OthersLocks(t) /\ LocksHeld(t)' = Locks
  BY <1>1, <1>3, KeptOthers DEF table, SeenInv, LocksHeld
<1>5. pc'[t] = "return" /\ res'[t] = <<"done">> /\ owner' = t /\ it' = None
  BY DEF LockTable, Goto, Finish, SeenInv, ThreadFcns, IsFcn
<1>6. Away(t)' /\ AwayAt(t)' /\ RestOK(t)'
  BY <1>1, <1>3, <1>4, <1>5, WholeIsNoRequest DEF Away, AwayAt, RestOK
<1>7. AwayOK(t)'
  BY <1>1, <1>3, <1>5, <1>6 DEF AwayOK, table, WholeResults
<1>8. OwnerOK'
  BY <1>5 DEF OwnerOK
<1>9. Outcome(t)
  BY <1>1, <1>2, <1>3, <1>4, <1>5, <1>6, <1>7, <1>8 DEF Outcome, AtRest, table
<1> QED
  BY <1>2, <1>3, <1>9, QuietOutcome DEF table

LEMMA ReturnSeenInv ==
  ASSUME SeenInv, NEW t \in Threads, Away(t), Return(t), UNCHANGED own
  PROVE  SeenInv'
<1>1. /\ AwayOK(t) /\ AtRest(t) /\ pc[t] = "return"
      /\ owner = t => LocksHeld(t) = Locks
      /\ owner # t => LocksHeld(t) = {}
  BY DEF SeenInv, AwayOK, AwayAt, Return, AtRest
<1>2. /\ ThreadMoves(t) /\ UNCHANGED table /\ RestOK(t)' /\ pc'[t] = "idle" /\ req'[t] = None
      /\ snap'[t] = 0 /\ want'[t] = {} /\ path'[t] = <<>> /\ bfs'[t] = None /\ sum'[t] = 0
      /\ res'[t] = None
  BY DEF Return, SeenInv, ThreadFcns, IsFcn, ThreadMoves, Goto, RestOK
<1>3. OthersLocks(t) /\ LocksHeld(t)' = LocksHeld(t)
  BY <1>2, KeptOthers DEF table, SeenInv, LocksHeld
<1>4. Away(t)' => owner = t
  BY <1>2 DEF Away, own
<1>5. Away(t)' => AwayOK(t)'
  BY <1>1, <1>2, <1>3, <1>4 DEF AwayOK, AwayAt, own, table
<1>6. Away(t)' \/ LocksHeld(t)' = {}
  BY <1>1, <1>3 DEF Away, own
<1>7. Outcome(t)
  BY <1>1, <1>2, <1>3, <1>5, <1>6, OwnerStays DEF Outcome, AtRest, own, table
<1> QED
  BY <1>2, <1>7, QuietOutcome DEF table, own

LEMMA CallLockedSeenInv ==
  ASSUME SeenInv, NEW t \in Threads, NEW r \in LockedRequests, MayIterate(r.op), CallLocked(t, r)
  PROVE  SeenInv'
<1>1. /\ owner = t /\ pc[t] = "idle" /\ Away(t) /\ AwayOK(t) /\ RestOK(t) /\ AtRest(t)
      /\ LocksHeld(t) = Locks
  BY OwnerHoldsAll DEF CallLocked, SeenInv, AtRest
<1>2. /\ ThreadMoves(t) /\ UNCHANGED table /\ UNCHANGED own
      /\ req'[t] = r /\ snap'[t] = hashpower /\ pc'[t] = "owned"
      /\ UNCHANGED <<want, path, bfs, sum, res>>
  BY DEF CallLocked, SeenInv, ThreadFcns, IsFcn, ThreadMoves, Goto
<1>3. OthersLocks(t) /\ LocksHeld(t)' = Locks
  BY <1>1, <1>2, KeptOthers DEF table, SeenInv, LocksHeld
<1>4. MayIterate(r.op)'
  <2>1. Positions' = Positions
    BY <1>2, SamePositions DEF table
  <2>2. it' = it
    BY <1>2 DEF own
  <2>3. Till(it)' = Till(it)
    BY <2>1, <2>2 DEF Till
  <2> QED
    BY <2>1, <2>2, <2>3 DEF MayIterate
<1>5. AwayAt(t)' /\ Away(t)' /\ RestOK(t)'
  BY <1>1, <1>2, <1>3, <1>4 DEF AwayAt, Away, RestOK, own, table
<1>6. hashpower \in Nat
  BY DEF SeenInv, Map!IndInv, Map!TypeOK
<1>7. AwayOK(t)'
  BY <1>1, <1>2, <1>5, <1>6 DEF AwayOK, AllRequests, table
<1>8. Outcome(t)
  BY <1>1, <1>2, <1>3, <1>5, <1>7, OwnerStays DEF Outcome, AtRest, own, table
<1> QED
  BY <1>2, <1>8, QuietOutcome DEF table, own

----------------------------------------------------------------------------
(* The tables that clear, rehash and reserve leave.                        *)

LEMMA TableTypes ==
  ASSUME SeenInv
  PROVE  /\ hashpower \in Nat
         /\ buckets \in [Buckets(hashpower) -> [Slots -> Entry \cup {Free}]]
         /\ counter \in [Locks -> Counts]
         /\ expansion \in Threads \cup {None}
         /\ Items \subseteq Entry
<1>1. /\ hashpower \in Nat
      /\ buckets \in [Buckets(hashpower) -> [Slots -> Entry \cup {Free}]]
      /\ counter \in [Locks -> Counts]
      /\ expansion \in Threads \cup {None}
  BY SameIndex, SameTypes DEF SeenInv, Map!IndInv, Map!TypeOK
<1>2. Items \subseteq Entry
  BY <1>1 DEF Items, Positions, occupied
<1> QED
  BY <1>1, <1>2

LEMMA TablesType ==
  ASSUME NEW hp \in Nat, NEW E \in SUBSET Entry, NEW T \in Tables(hp, E)
  PROVE  T \in [Buckets(hp) -> [Slots -> Entry \cup {Free}]]
<1> DEFINE F == { f \in [E -> Buckets(hp) \X Slots] :
                    /\ \A e \in E : f[e][1] \in BucketsOf(hp, Hash[e.key])
                    /\ \A d, e \in E : f[d] = f[e] => d = e }
           C(f, b, s) == IF \E e \in E : f[e] = <<b, s>>
                         THEN CHOOSE e \in E : f[e] = <<b, s>> ELSE Free
<1>1. PICK f \in F : T = [b \in Buckets(hp) |-> [s \in Slots |-> C(f, b, s)]]
  <2>1. T \in { [b \in Buckets(hp) |-> [s \in Slots |-> C(f, b, s)]] : f \in F }
    BY DEF Tables
  <2> HIDE DEF F, C
  <2> QED
    BY <2>1
<1>2. ASSUME NEW b, NEW s
      PROVE  C(f, b, s) \in Entry \cup {Free}
  <2>1. CASE \E e \in E : f[e] = <<b, s>>
    <3>1. (CHOOSE e \in E : f[e] = <<b, s>>) \in E
      BY <2>1
    <3> QED
      BY <2>1, <3>1
  <2> QED
    BY <2>1
<1> HIDE DEF C
<1> QED
  BY <1>1, <1>2

LEMMA RebuiltType ==
  ASSUME SeenInv, NEW t, Rebuilt(t)
  PROVE  hashpower' \in Nat /\ buckets' \in [Buckets(hashpower') -> [Slots -> Entry \cup {Free}]]
<1>1. PICK hp \in NewHashpowers(target(t)) : hashpower' = hp /\ buckets' \in Tables(hp, Items)
  BY DEF Rebuilt
<1>2. hp \in Nat
  BY MapAssumption DEF NewHashpowers
<1> QED
  BY <1>1, <1>2, TableTypes, TablesType

LEMMA EmptiedType ==
  ASSUME SeenInv, Emptied
  PROVE  /\ buckets' \in [Buckets(hashpower) -> [Slots -> Entry \cup {Free}]]
         /\ counter' \in [Locks -> Counts]
<1>1. DOMAIN buckets = Buckets(hashpower)
  BY TableTypes
<1>2. 0 \in Counts
  BY MapAssumption DEF Counts
<1> QED
  BY <1>1, <1>2 DEF Emptied

\* Nobody doubles the table who does not insert.
LEMMA NotExpanding ==
  ASSUME SeenInv, NEW u \in Threads, RunsInsert(u) => pc[u] \notin Expanding
  PROVE  pc[u] \notin Expanding
<1>1. CASE Away(u)
  BY <1>1 DEF SeenInv, AwayOK, AwayAt, Expanding
<1>2. CASE ~Away(u)
  <2>1. pcSeen[u] = pc[u] /\ reqSeen[u] = req[u] /\ owner # u
    BY <1>2, SeenAt DEF Away
  <2>2. pc[u] \in Expanding => req[u].op \in {"upsert", "insert"} /\ pc[u] # "idle"
    BY <2>1, SameTypes DEF SeenInv, Map!CallsOK, Map!CallOK, Expanding
  <2> QED
    BY <2>1, <2>2 DEF RunsInsert
<1> QED
  BY <1>1, <1>2

\* An operation under all locks ends and releases them.
LEMMA WholeEnds ==
  ASSUME SeenInv, NEW t \in Threads, pc[t] = "whole", locks' = Unlocked(t),
         NEW r \in WholeResults, Finish(t, r), UNCHANGED <<expansion, snap, Private, own>>,
         hashpower' = hashpower \/ \A u \in Threads \ {t} : pc[u] \notin Expanding,
         hashpower' \in Nat,
         buckets' \in [Buckets(hashpower') -> [Slots -> Entry \cup {Free}]],
         counter' \in [Locks -> Counts]
  PROVE  SeenInv'
<1>1. /\ Away(t) /\ AwayOK(t) /\ RestOK(t) /\ AtRest(t) /\ owner # t
      /\ req[t] \in WholeRequests /\ LocksHeld(t) = Locks
  BY WholePlace DEF AwayOK, AwayAt
<1>2. owner = None
  BY <1>1, OwnerIsAlone DEF SeenInv, OwnerOK
<1>3. ThreadMoves(t) /\ UNCHANGED <<req, want, path, bfs, sum, snap, own>>
  BY DEF Private, SeenInv, ThreadFcns, IsFcn, ThreadMoves, Goto, Finish
<1>4. OthersLocks(t) /\ LocksHeld(t)' = {}
  <2>1. OthersLocks(t)
    BY UnlockedOthers DEF SeenInv
  <2>2. LocksHeld(t)' = {}
    BY MapAssumption DEF LocksHeld, Unlocked
  <2> QED
    BY <2>1, <2>2
<1>5. pc'[t] = "return" /\ res'[t] = r
  BY DEF Goto, Finish, SeenInv, ThreadFcns, IsFcn
<1>6. Away(t)' /\ AwayAt(t)' /\ RestOK(t)'
  BY <1>1, <1>3, <1>4, <1>5, WholeIsNoRequest DEF Away, AwayAt, RestOK, own
<1>7. AwayOK(t)'
  BY <1>1, <1>3, <1>5, <1>6 DEF AwayOK
<1>8. OwnerOK'
  BY <1>2, <1>3 DEF SeenInv, OwnerOK, own
<1>9. Outcome(t)
  BY <1>1, <1>2, <1>3, <1>4, <1>5, <1>6, <1>7, <1>8 DEF Outcome, AtRest, own
<1>10. Replaces(t)
  BY <1>1 DEF Replaces
<1> QED
  BY <1>9, <1>10, ReplacedOutcome

LEMMA ClearSeenInv ==
  ASSUME SeenInv, NEW t \in Threads, Clear(t)
  PROVE  SeenInv'
<1>1. <<"done">> \in WholeResults
  BY DEF WholeResults
<1> QED
  BY <1>1, EmptiedType, TableTypes, WholeEnds DEF Clear

LEMMA ResizeSeenInv ==
  ASSUME WholeInv, NEW t \in Threads, Resize(t)
  PROVE  SeenInv'
<1>1. SeenInv /\ pc[t] = "whole" /\ owner # t
  BY WholePlace DEF WholeInv, Resize
<1>2. \A u \in Threads \ {t} : pc[u] \notin Expanding
  <2> TAKE u \in Threads \ {t}
  <2>1. RunsResize(t)
    BY <1>1 DEF RunsResize, Resize
  <2>2. ~RunsInsert(u)
    BY <2>1 DEF WholeInv, CarefulOK, Apart
  <2> QED
    BY <1>1, <2>2, NotExpanding
<1>3. <<"true">> \in WholeResults /\ <<"throw">> \in WholeResults
  BY DEF WholeResults, Results
<1>4. counter' \in [Locks -> Counts]
  BY <1>1, TableTypes DEF Resize
<1>5. CASE Rebuilt(t) /\ Finish(t, <<"true">>)
  BY <1>1, <1>2, <1>3, <1>4, <1>5, RebuiltType, WholeEnds DEF Resize
<1>6. CASE NoRoom(t) /\ Finish(t, <<"throw">>)
  <2>1. hashpower' = hashpower /\ buckets' = buckets
    BY <1>6 DEF NoRoom
  <2> QED
    BY <1>1, <1>3, <1>4, <1>6, <2>1, TableTypes, WholeEnds DEF Resize
<1> QED
  BY <1>5, <1>6 DEF Resize

----------------------------------------------------------------------------
(* The operations of a locked_table.                                       *)

LEMMA OwnedPlace ==
  ASSUME SeenInv, NEW t \in Threads, pc[t] = "owned"
  PROVE  /\ Away(t) /\ AwayOK(t) /\ RestOK(t) /\ AtRest(t) /\ owner = t
         /\ req[t] \in LockedRequests /\ req[t] # None /\ LocksHeld(t) = Locks
         /\ snap[t] = hashpower /\ MayIterate(req[t].op)
BY WholePlace, WholeIsNoRequest DEF AwayOK, AwayAt

LEMMA SameHeld ==
  ASSUME locks' = locks, NEW t
  PROVE  LocksHeld(t)' = LocksHeld(t)
BY DEF LocksHeld

\* It ends, and keeps the locks.
LEMMA OwnedEnds ==
  ASSUME SeenInv, NEW t \in Threads, pc[t] = "owned",
         NEW r \in WholeResults, Finish(t, r),
         UNCHANGED <<locks, expansion, snap, Private, owner>>,
         hashpower' = hashpower \/ \A u \in Threads \ {t} : pc[u] \notin Expanding,
         hashpower' \in Nat,
         buckets' \in [Buckets(hashpower') -> [Slots -> Entry \cup {Free}]],
         counter' \in [Locks -> Counts],
         it' \in Positions' \cup {End, None}
  PROVE  SeenInv'
<1>1. /\ Away(t) /\ AwayOK(t) /\ RestOK(t) /\ AtRest(t) /\ owner = t
      /\ req[t] \in LockedRequests /\ req[t] # None /\ LocksHeld(t) = Locks
  BY OwnedPlace
<1>2. ThreadMoves(t) /\ UNCHANGED <<req, want, path, bfs, sum, snap>>
  BY DEF Private, SeenInv, ThreadFcns, IsFcn, ThreadMoves, Goto, Finish
<1>3. OthersLocks(t) /\ LocksHeld(t)' = Locks
  BY <1>1, KeptOthers, SameHeld DEF SeenInv
<1>4. pc'[t] = "return" /\ res'[t] = r /\ owner' = t
  BY <1>1 DEF Goto, Finish, SeenInv, ThreadFcns, IsFcn
<1>5. Away(t)' /\ AwayAt(t)' /\ RestOK(t)'
  BY <1>1, <1>2, <1>3, <1>4 DEF Away, AwayAt, RestOK
<1>6. AwayOK(t)'
  BY <1>1, <1>2, <1>4, <1>5 DEF AwayOK
<1>7. OwnerOK'
  BY <1>4, MapAssumption DEF OwnerOK
<1>8. Outcome(t)
  BY <1>1, <1>2, <1>3, <1>4, <1>5, <1>6, <1>7 DEF Outcome, AtRest
<1>9. Replaces(t)
  BY <1>1 DEF Replaces
<1> QED
  BY <1>8, <1>9, ReplacedOutcome

\* It ends, and the table is as it was.
LEMMA OwnedLooks ==
  ASSUME SeenInv, NEW t \in Threads, pc[t] = "owned",
         NEW r \in WholeResults, Finish(t, r),
         UNCHANGED <<table, snap, Private, owner>>,
         it' \in Positions \cup {End, None}
  PROVE  SeenInv'
<1>1. /\ hashpower' = hashpower /\ buckets' = buckets /\ counter' = counter
      /\ locks' = locks /\ expansion' = expansion
  BY DEF table
<1>2. Positions' = Positions
  BY <1>1, SamePositions
<1> QED
  BY <1>1, <1>2, TableTypes, OwnedEnds

LEMMA UnlockSeenInv ==
  ASSUME SeenInv, NEW t \in Threads, unlock(t)
  PROVE  SeenInv'
<1>1. /\ Away(t) /\ AwayOK(t) /\ RestOK(t) /\ AtRest(t) /\ owner = t /\ pc[t] = "owned"
      /\ req[t] \in LockedRequests /\ req[t] # None /\ LocksHeld(t) = Locks
  BY OwnedPlace DEF unlock, Owns
<1>2. ThreadMoves(t) /\ UNCHANGED <<req, want, path, bfs, sum, snap>>
  BY DEF unlock, Private, SeenInv, ThreadFcns, IsFcn, ThreadMoves, Goto, Finish
<1>3. OthersLocks(t) /\ LocksHeld(t)' = {}
  <2>1. OthersLocks(t)
    BY UnlockedOthers DEF SeenInv, unlock
  <2>2. LocksHeld(t)' = {}
    BY MapAssumption DEF LocksHeld, Unlocked, unlock
  <2> QED
    BY <2>1, <2>2
<1>4. /\ pc'[t] = "return" /\ res'[t] = <<"done">> /\ owner' = None /\ it' = None
      /\ UNCHANGED <<hashpower, buckets, counter, expansion>>
  BY DEF unlock, Goto, Finish, SeenInv, ThreadFcns, IsFcn
<1>5. req'[t] = req[t] /\ req[t].op = "unlock" /\ req[t] \notin Requests \cup {None}
  <2>1. req[t].op = "unlock" /\ req' = req
    BY <1>2 DEF unlock, Owns
  <2>2. \A r \in Requests : r.op # "unlock"
    BY DEF Requests, KeyRequests, ValRequests, CountRequests
  <2> QED
    BY <1>1, <2>1, <2>2
<1>6. Away(t)' /\ AwayAt(t)' /\ RestOK(t)'
  BY <1>2, <1>3, <1>4, <1>5, MapAssumption DEF Away, AwayAt, RestOK
<1>7. AwayOK(t)'
  <2>1. <<"done">> \in WholeResults
    BY DEF WholeResults
  <2> QED
    BY <1>1, <1>2, <1>4, <1>6, <2>1 DEF AwayOK
<1>8. OwnerOK'
  BY <1>4 DEF OwnerOK
<1>9. Outcome(t)
  BY <1>1, <1>2, <1>3, <1>4, <1>6, <1>7, <1>8 DEF Outcome, AtRest
<1> QED
  BY <1>1, <1>4, <1>9, QuietOutcome

LEMMA OwnedBuckets ==
  ASSUME SeenInv, NEW t \in Threads, pc[t] = "owned"
  PROVE  first(t) \in Buckets(hashpower) /\ second(t) \in Buckets(hashpower)
<1>1. snap[t] = hashpower
  BY OwnedPlace
<1>2. /\ \A hp, hv : index_hash(hp, hv) \in Buckets(hp)
      /\ \A hp, tag, b : alt_index(hp, tag, b) \in Buckets(hp)
  BY DEF index_hash, alt_index, Buckets, hashmask
<1> QED
  BY <1>1, <1>2 DEF first, second

LEMMA OwnedFound ==
  ASSUME SeenInv, NEW t \in Threads, pc[t] = "owned", NEW p \in cuckoo_find(t)
  PROVE  p \in Positions /\ buckets[p[1]][p[2]] \in Entry
<1>1. p[1] \in {first(t), second(t)} /\ p \in Buckets(hashpower) \X Slots
      /\ occupied(p[1], p[2])
  BY OwnedBuckets DEF cuckoo_find, SlotsOf
<1> QED
  BY <1>1, TableTypes DEF Positions, occupied

LEMMA OwnedEntry ==
  ASSUME SeenInv, NEW t \in Threads, pc[t] = "owned", req[t].op = "insert"
  PROVE  NewEntry(t) \in Entry
<1>1. req[t] \in LockedRequests
  BY OwnedPlace
<1>2. req[t] \in [op : LockedOps \cap {"insert"}, key : Keys, val : Values]
  BY <1>1 DEF LockedRequests, ResizeRequests
<1> QED
  BY <1>2 DEF NewEntry, Entry

LEMMA TablePut ==
  ASSUME SeenInv, NEW p \in Buckets(hashpower) \X Slots, NEW e \in Entry \cup {Free},
         Put(p[1], p[2], e), hashpower' = hashpower
  PROVE  /\ buckets' \in [Buckets(hashpower') -> [Slots -> Entry \cup {Free}]]
         /\ Positions' = IF e = Free THEN Positions \ {p} ELSE Positions \cup {p}
<1>1. PICK b \in Buckets(hashpower), s \in Slots : p = <<b, s>>
  OBVIOUS
<1>2. buckets' = [buckets EXCEPT ![b][s] = e]
  BY <1>1 DEF Put
<1>3. buckets' \in [Buckets(hashpower') -> [Slots -> Entry \cup {Free}]]
  BY <1>2, TableTypes
<1>4. \A a \in Buckets(hashpower), i \in Slots :
        buckets'[a][i] = IF a = b /\ i = s THEN e ELSE buckets[a][i]
  BY <1>2, TableTypes
<1>5. \A a \in Buckets(hashpower), i \in Slots :
        <<a, i>> \in Positions' <=> IF a = b /\ i = s THEN e # Free ELSE <<a, i>> \in Positions
  BY <1>4 DEF Positions, occupied
<1>6. \A q : q \in Positions' <=> IF q = p THEN e # Free ELSE q \in Positions
  <2>1. Positions' \subseteq Buckets(hashpower) \X Slots /\ Positions \subseteq Buckets(hashpower) \X Slots
    BY DEF Positions
  <2> QED
    BY <1>1, <1>5, <2>1
<1> QED
  BY <1>3, <1>6

LEMMA TableCount ==
  ASSUME SeenInv, NEW b, NEW d \in Int, Count(lock_ind(b), d)
  PROVE  counter' \in [Locks -> Counts]
<1>1. \A c \in Counts : (c + d) % CounterMod \in Counts
  BY MapAssumption DEF Counts
<1> QED
  BY <1>1, TableTypes DEF Count

LEMMA WholeResultTypes ==
  /\ {<<"true">>, <<"false">>, <<"throw">>, <<"done">>, <<"end">>} \subseteq WholeResults
  /\ \A v \in Values : <<"found", v>> \in WholeResults
  /\ \A n \in Counts : <<"size", n>> \in WholeResults
  /\ \A k \in Keys : <<"at", k>> \in WholeResults
BY DEF WholeResults, Results, CountResults

LEMMA OwnedFindSeenInv ==
  ASSUME SeenInv, NEW t \in Threads, OwnedFind(t)
  PROVE  SeenInv'
<1>1. pc[t] = "owned" /\ UNCHANGED <<table, snap, Private, owner>>
  BY DEF OwnedFind, Owns
<1>2. ASSUME NEW p \in cuckoo_find(t), it' = p, Finish(t, <<"found", buckets[p[1]][p[2]].val>>)
      PROVE  SeenInv'
  <2>1. p \in Positions /\ buckets[p[1]][p[2]].val \in Values
    BY <1>1, OwnedFound DEF Entry
  <2> QED
    BY <1>1, <1>2, <2>1, WholeResultTypes, OwnedLooks
<1>3. CASE it' = End /\ Finish(t, <<"false">>)
  BY <1>1, <1>3, WholeResultTypes, OwnedLooks
<1> QED
  BY <1>2, <1>3 DEF OwnedFind

LEMMA OwnedEraseSeenInv ==
  ASSUME SeenInv, NEW t \in Threads, OwnedErase(t)
  PROVE  SeenInv'
<1>1. pc[t] = "owned" /\ UNCHANGED <<hashpower, locks, expansion, snap, Private, owner>>
  BY DEF OwnedErase, Owns
<1>2. ASSUME NEW p \in cuckoo_find(t), Put(p[1], p[2], Free), Count(lock_ind(p[1]), -1),
             it' = IF it = p THEN None ELSE it, Finish(t, <<"true">>)
      PROVE  SeenInv'
  <2>1. p \in Positions /\ p \in Buckets(hashpower) \X Slots
    BY <1>1, OwnedFound DEF Positions
  <2>2. /\ buckets' \in [Buckets(hashpower') -> [Slots -> Entry \cup {Free}]]
        /\ Positions' = Positions \ {p}
    BY <1>1, <1>2, <2>1, TablePut
  <2>3. counter' \in [Locks -> Counts]
    BY <1>2, TableCount
  <2>4. it' \in Positions' \cup {End, None}
    BY <1>2, <2>2 DEF SeenInv, OwnerOK
  <2> QED
    BY <1>1, <1>2, <2>2, <2>3, <2>4, TableTypes, WholeResultTypes, OwnedEnds
<1>3. CASE Finish(t, <<"false">>) /\ UNCHANGED <<buckets, counter, it>>
  <2>1. UNCHANGED table /\ it' \in Positions \cup {End, None}
    BY <1>1, <1>3 DEF table, SeenInv, OwnerOK
  <2> QED
    BY <1>1, <1>3, <2>1, WholeResultTypes, OwnedLooks
<1> QED
  BY <1>2, <1>3 DEF OwnedErase

LEMMA OwnedFree ==
  ASSUME SeenInv, NEW t \in Threads, pc[t] = "owned", NEW p \in FreePosition(t)
  PROVE  p \in Buckets(hashpower) \X Slots
BY OwnedBuckets DEF FreePosition, FreeSlots

LEMMA TrailType ==
  ASSUME NEW t, NEW q \in Shortest(t)
  PROVE  \E d \in 1 .. MAX_BFS_PATH_LEN : q \in [1 .. d -> Buckets(hashpower) \X Slots]
<1>1. PICK d \in 1 .. MAX_BFS_PATH_LEN : q \in FreeTrails(t, d)
  BY DEF Shortest
<1>2. q \in trails(t)[d]
  BY <1>1 DEF FreeTrails
<1>3. trails(t)[d] \subseteq [1 .. d -> Buckets(hashpower) \X Slots]
  BY DEF trails
<1> QED
  BY <1>2, <1>3

LEMMA MovedTypes ==
  ASSUME SeenInv, NEW t \in Threads, NewEntry(t) \in Entry, NEW d \in Nat \ {0},
         NEW q \in [1 .. d -> Buckets(hashpower) \X Slots],
         MoveAlong(t, q), hashpower' = hashpower
  PROVE  /\ buckets' \in [Buckets(hashpower') -> [Slots -> Entry \cup {Free}]]
         /\ q[1] \in Positions'
<1>1. Len(q) = d
  BY LenProperties
<1> DEFINE C(b, s) ==
             IF <<b, s>> = q[1] THEN NewEntry(t)
             ELSE IF \E i \in 2 .. Len(q) : q[i] = <<b, s>>
                  THEN LET i == CHOOSE i \in 2 .. Len(q) : q[i] = <<b, s>>
                       IN  buckets[q[i - 1][1]][q[i - 1][2]]
             ELSE buckets[b][s]
<1>2. buckets' = [b \in Buckets(hashpower) |-> [s \in Slots |-> C(b, s)]]
  <2>1. DOMAIN buckets = Buckets(hashpower)
    BY TableTypes
  <2> QED
    BY <2>1 DEF MoveAlong
<1>3. ASSUME NEW b \in Buckets(hashpower), NEW s \in Slots PROVE C(b, s) \in Entry \cup {Free}
  <2>1. CASE <<b, s>> = q[1]
    BY <2>1
  <2>2. CASE <<b, s>> # q[1] /\ \E i \in 2 .. Len(q) : q[i] = <<b, s>>
    <3> DEFINE i == CHOOSE i \in 2 .. Len(q) : q[i] = <<b, s>>
    <3>1. i \in 2 .. Len(q)
      BY <2>2
    <3>2. i - 1 \in 1 .. d
      BY <1>1, <3>1
    <3>3. q[i - 1][1] \in Buckets(hashpower) /\ q[i - 1][2] \in Slots
      BY <3>2
    <3>4. C(b, s) = buckets[q[i - 1][1]][q[i - 1][2]]
      BY <2>2
    <3>5. ASSUME NEW a \in Buckets(hashpower), NEW r \in Slots
          PROVE  buckets[a][r] \in Entry \cup {Free}
      BY TableTypes
    <3> HIDE DEF i, C
    <3> QED
      BY ONLY <3>3, <3>4, <3>5
  <2>3. CASE <<b, s>> # q[1] /\ ~\E i \in 2 .. Len(q) : q[i] = <<b, s>>
    BY <2>3, TableTypes
  <2> QED
    BY <2>1, <2>2, <2>3
<1>4. \A b, s : <<b, s>> = q[1] => C(b, s) = NewEntry(t)
  OBVIOUS
<1> HIDE DEF C
<1>5. buckets' \in [Buckets(hashpower') -> [Slots -> Entry \cup {Free}]]
  BY <1>2, <1>3
<1>6. q[1] \in Buckets(hashpower) \X Slots
  OBVIOUS
<1>7. q[1] \in Positions'
  <2>1. PICK b \in Buckets(hashpower), s \in Slots : q[1] = <<b, s>>
    BY <1>6
  <2>2. buckets'[b][s] = NewEntry(t)
    BY <1>2, <1>4, <2>1
  <2> QED
    BY <2>1, <2>2, FreeAssumption DEF Positions, occupied
<1> QED
  BY <1>5, <1>7

LEMMA OwnedInsertSeenInv ==
  ASSUME SeenInv, NEW t \in Threads, OwnedInsert(t)
  PROVE  SeenInv'
<1>1. /\ pc[t] = "owned" /\ UNCHANGED <<hashpower, locks, expansion, snap, Private, owner>>
      /\ req[t].op = "insert"
  BY DEF OwnedInsert, Owns
<1>2. NewEntry(t) \in Entry
  BY <1>1, OwnedEntry
<1>3. CASE /\ it' \in cuckoo_find(t) /\ Finish(t, <<"false">>) /\ UNCHANGED <<buckets, counter>>
  <2>1. UNCHANGED table /\ it' \in Positions
    BY <1>1, <1>3, OwnedFound DEF table
  <2> QED
    BY <1>1, <1>3, <2>1, WholeResultTypes, OwnedLooks
<1>4. CASE /\ IF FreePosition(t) # {}
              THEN it' \in FreePosition(t) /\ Put(it'[1], it'[2], NewEntry(t))
              ELSE \E q \in Shortest(t) : it' = q[1] /\ MoveAlong(t, q)
           /\ Count(lock_ind(it'[1]), 1)
           /\ Finish(t, <<"true">>)
  <2>1. /\ buckets' \in [Buckets(hashpower') -> [Slots -> Entry \cup {Free}]]
        /\ it' \in Positions'
    <3>1. CASE it' \in FreePosition(t) /\ Put(it'[1], it'[2], NewEntry(t))
      <4>1. it' \in Buckets(hashpower) \X Slots
        BY <1>1, <3>1, OwnedFree
      <4>2. NewEntry(t) # Free
        BY <1>2, FreeAssumption
      <4> QED
        BY <1>1, <1>2, <3>1, <4>1, <4>2, TablePut
    <3>2. ASSUME NEW q \in Shortest(t), it' = q[1], MoveAlong(t, q)
          PROVE  /\ buckets' \in [Buckets(hashpower') -> [Slots -> Entry \cup {Free}]]
                 /\ it' \in Positions'
      <4>1. PICK d \in 1 .. MAX_BFS_PATH_LEN : q \in [1 .. d -> Buckets(hashpower) \X Slots]
        BY TrailType
      <4>2. d \in Nat \ {0}
        BY MapAssumption
      <4> QED
        BY <1>1, <1>2, <3>2, <4>1, <4>2, MovedTypes
    <3> QED
      BY <1>4, <3>1, <3>2
  <2>2. counter' \in [Locks -> Counts]
    BY <1>4, TableCount
  <2> QED
    BY <1>1, <1>4, <2>1, <2>2, TableTypes, WholeResultTypes, OwnedEnds
<1> QED
  BY <1>3, <1>4 DEF OwnedInsert

LEMMA OwnedInsertThrowsSeenInv ==
  ASSUME SeenInv, NEW t \in Threads, OwnedInsertThrows(t)
  PROVE  SeenInv'
BY WholeResultTypes, OwnedLooks DEF OwnedInsertThrows, MustExpand, Owns

LEMMA OwnedClearSeenInv ==
  ASSUME SeenInv, NEW t \in Threads, OwnedClear(t)
  PROVE  SeenInv'
BY EmptiedType, TableTypes, WholeResultTypes, OwnedEnds DEF OwnedClear, Owns

LEMMA TotalType ==
  ASSUME SeenInv
  PROVE  Total \in Counts
<1>1. IsFiniteSet(Locks)
  <2>1. IsFiniteSet(Bits(LockBits))
    BY FS_Interval, IndexAssumption DEF Bits
  <2> QED
    BY <2>1, FS_SUBSET DEF Locks
<1>2. counter \in [Locks -> Int]
  BY TableTypes, MapAssumption DEF Counts
<1>3. SumOf(counter, Locks) \in Int
  BY <1>1, <1>2, SumType
<1>4. Total = SumOf(counter, Locks) % CounterMod
  BY DEF Total, SumOf, MapThenSumSet, MapThenFoldSet
<1> QED
  BY <1>3, <1>4, MapAssumption DEF Counts

LEMMA OwnedSizeSeenInv ==
  ASSUME SeenInv, NEW t \in Threads, OwnedSize(t)
  PROVE  SeenInv'
<1>1. it' \in Positions \cup {End, None}
  BY DEF OwnedSize, own, SeenInv, OwnerOK
<1> QED
  BY <1>1, TotalType, WholeResultTypes, OwnedLooks DEF OwnedSize, Owns, own

LEMMA OwnedResizeSeenInv ==
  ASSUME WholeInv, NEW t \in Threads, OwnedResize(t)
  PROVE  SeenInv'
<1>1. /\ SeenInv /\ pc[t] = "owned" /\ owner = t /\ req[t].op \in {"rehash", "reserve"}
      /\ UNCHANGED <<locks, counter, expansion, snap, Private, owner>>
  BY OwnedPlace DEF WholeInv, OwnedResize, Owns
<1>2. \A u \in Threads \ {t} : pc[u] \notin Expanding
  <2> TAKE u \in Threads \ {t}
  <2>1. RunsInsert(u) => pc[u] \in {"snapshot", "lock"}
    BY <1>1 DEF WholeInv, CarefulOK, Apart
  <2>2. RunsInsert(u) => pc[u] \notin Expanding
    BY <2>1 DEF Expanding
  <2> QED
    BY <1>1, <2>2, NotExpanding
<1>3. it \in Positions \cup {End, None} /\ counter' \in [Locks -> Counts]
  BY <1>1, TableTypes DEF SeenInv, OwnerOK
<1>4. CASE UNCHANGED <<hashpower, buckets, it>> /\ Finish(t, <<"done">>)
  BY <1>1, <1>3, <1>4, WholeResultTypes, OwnedLooks DEF table
<1>5. CASE Rebuilt(t) /\ it' = None /\ Finish(t, <<"done">>)
  BY <1>1, <1>2, <1>3, <1>5, RebuiltType, WholeResultTypes, OwnedEnds
<1>6. CASE NoRoom(t) /\ Finish(t, <<"throw">>) /\ UNCHANGED it
  BY <1>1, <1>3, <1>6, WholeResultTypes, OwnedLooks DEF NoRoom, table
<1> QED
  BY <1>4, <1>5, <1>6 DEF OwnedResize

LEMMA FinitePositions ==
  ASSUME SeenInv
  PROVE  IsFiniteSet(Positions)
<1>1. IsFiniteSet(Bits(hashpower)) /\ IsFiniteSet(Slots)
  BY TableTypes, FS_Interval, MapAssumption DEF Bits, Slots
<1>2. IsFiniteSet(Buckets(hashpower))
  BY <1>1, FS_SUBSET DEF Buckets, hashmask
<1>3. IsFiniteSet(Buckets(hashpower) \X Slots)
  BY <1>1, <1>2, FS_Product
<1> QED
  BY <1>3, FS_Subset DEF Positions

LEMMA HalvesTypes ==
  ASSUME SeenInv, NEW b \in Buckets(hashpower)
  PROVE  /\ LowerHalf(hashpower, b) \in [Slots -> Entry \cup {Free}]
         /\ Risen(hashpower, b) \in [Slots -> Entry \cup {Free}]
<1>1. \A s \in Slots : buckets[b][s] \in Entry \cup {Free}
  BY TableTypes
<1>2. Rising(hashpower, b) \subseteq Slots
  BY DEF Rising
<1> QED
  BY <1>1, <1>2 DEF LowerHalf, Risen

LEMMA OwnedDoubleSeenInv ==
  ASSUME SeenInv, NEW t \in Threads, OwnedDouble(t)
  PROVE  SeenInv'
<1> DEFINE hp == hashpower
           rising == { p \in Positions : p[2] \in Rising(hp, p[1]) }
           from(l) == { p \in rising : lock_ind(p[1]) = l }
           into(l) == { p \in rising : lock_ind(p[1] \cup {hp}) = l }
<1>1. /\ pc[t] = "owned" /\ req[t].op = "insert" /\ expansion = None
      /\ hashpower' = hp + 1
      /\ buckets' = [b \in Buckets(hp + 1) |->
                       IF hp \in b THEN Risen(hp, b \ {hp}) ELSE LowerHalf(hp, b)]
      /\ counter' = [l \in Locks |->
                       (counter[l] - Cardinality(from(l)) + Cardinality(into(l))) % CounterMod]
      /\ snap' = [snap EXCEPT ![t] = hp + 1]
      /\ it' = None
      /\ UNCHANGED <<locks, expansion, pc, res, Private, owner>>
  BY DEF OwnedDouble, MustExpand, Owns
<1> HIDE DEF from, into
<1>2. /\ Away(t) /\ AwayOK(t) /\ RestOK(t) /\ AtRest(t) /\ owner = t
      /\ req[t] \in LockedRequests /\ req[t] # None /\ LocksHeld(t) = Locks
  BY <1>1, OwnedPlace
<1>3. hp \in Nat
  BY TableTypes
<1>4. buckets' \in [Buckets(hashpower') -> [Slots -> Entry \cup {Free}]]
  <2>1. ASSUME NEW b \in Buckets(hp + 1)
        PROVE  (IF hp \in b THEN Risen(hp, b \ {hp}) ELSE LowerHalf(hp, b))
                 \in [Slots -> Entry \cup {Free}]
    <3>1. b \ {hp} \in Buckets(hp) /\ (hp \notin b => b \in Buckets(hp))
      BY <1>3 DEF Buckets, hashmask, Bits
    <3> QED
      BY <3>1, HalvesTypes
  <2> QED
    BY <1>1, <2>1
<1>5. counter' \in [Locks -> Counts]
  <2>1. ASSUME NEW l \in Locks
        PROVE  (counter[l] - Cardinality(from(l)) + Cardinality(into(l))) % CounterMod \in Counts
    <3>1. from(l) \subseteq Positions /\ into(l) \subseteq Positions
      BY DEF from, into
    <3>2. Cardinality(from(l)) \in Nat /\ Cardinality(into(l)) \in Nat
      BY <3>1, FinitePositions, FS_Subset, FS_CardinalityType
    <3>3. counter[l] \in Counts
      BY TableTypes
    <3> QED
      BY <3>2, <3>3, MapAssumption DEF Counts
  <2> QED
    BY <1>1, <2>1
<1>6. \A u \in Threads : pc[u] \notin Expanding
  <2> TAKE u \in Threads
  <2>1. CASE Away(u)
    BY <2>1 DEF SeenInv, AwayOK, AwayAt, Expanding
  <2>2. CASE ~Away(u)
    <3>1. pcSeen[u] = pc[u] /\ expansion # u
      BY <1>1, <2>2, SeenAt, MapAssumption
    <3> QED
      BY <3>1, SameTypes DEF SeenInv, Map!IndInv, Map!ExpansionOK
  <2> QED
    BY <2>1, <2>2
<1>7. ThreadMoves(t) /\ UNCHANGED <<req, want, path, bfs, sum, pc, res>>
  BY <1>1 DEF Private, SeenInv, ThreadFcns, IsFcn, ThreadMoves
<1>8. OthersLocks(t) /\ LocksHeld(t)' = Locks
  BY <1>1, <1>2, KeptOthers, SameHeld DEF SeenInv
<1>9. snap'[t] = hashpower' /\ hashpower' \in Nat /\ owner' = t
  BY <1>1, <1>2, <1>3 DEF SeenInv, ThreadFcns, IsFcn
<1>10. MayIterate(req[t].op)'
  BY <1>1, <1>7 DEF MayIterate
<1>11. Away(t)' /\ AwayAt(t)' /\ RestOK(t)'
  BY <1>1, <1>2, <1>7, <1>8, <1>9, <1>10 DEF Away, AwayAt, RestOK
<1>12. AwayOK(t)'
  BY <1>1, <1>2, <1>7, <1>9, <1>11 DEF AwayOK
<1>13. OwnerOK'
  BY <1>1, <1>2, MapAssumption DEF OwnerOK
<1>14. Outcome(t)
  BY <1>1, <1>2, <1>7, <1>8, <1>11, <1>12, <1>13 DEF Outcome, AtRest
<1>15. Replaces(t)
  BY <1>2, <1>4, <1>5, <1>6, <1>9 DEF Replaces
<1> QED
  BY <1>14, <1>15, ReplacedOutcome

----------------------------------------------------------------------------
(* The orders of words and of positions.                                   *)

LEMMA BelowOrders ==
  /\ \A hp \in Nat : \A a, b \in Buckets(hp) : a = b \/ Below(a, b) \/ Below(b, a)
  /\ \A hp \in Nat : \A a, b, c \in Buckets(hp) : Below(a, b) /\ Below(b, c) => Below(a, c)
  /\ \A hp \in Nat : \A a, b \in Buckets(hp) : ~(Below(a, b) /\ Below(b, a))
<1> SUFFICES ASSUME NEW hp \in Nat
             PROVE  /\ \A a, b \in Buckets(hp) : a = b \/ Below(a, b) \/ Below(b, a)
                    /\ \A a, b, c \in Buckets(hp) : Below(a, b) /\ Below(b, c) => Below(a, c)
                    /\ \A a, b \in Buckets(hp) : ~(Below(a, b) /\ Below(b, a))
  OBVIOUS
<1>1. \A b \in Buckets(hp) : b \subseteq 0 .. hp - 1
  BY DEF Buckets, hashmask, Bits
<1>2. ASSUME NEW a \in Buckets(hp), NEW b \in Buckets(hp), a # b
      PROVE  Below(a, b) \/ Below(b, a)
  <2> DEFINE D == (a \ b) \cup (b \ a)
             N == { -i : i \in D }
  <2>1. D \subseteq 0 .. hp - 1 /\ D # {}
    BY <1>1, <1>2
  <2>2. N \subseteq (-hp) .. 0 /\ N # {}
    BY <2>1
  <2>3. IsFiniteSet(N) /\ N \in SUBSET Int
    <3>1. IsFiniteSet((-hp) .. 0)
      BY FS_Interval
    <3>2. (-hp) .. 0 \subseteq Int
      OBVIOUS
    <3> HIDE DEF N
    <3> QED
      BY <2>2, <3>1, <3>2, FS_Subset
  <2>4. PICK n \in N : \A m \in N : n <= m
    <3> HIDE DEF N
    <3> QED
      BY <2>2, <2>3, LeastNumber
  <2>5. PICK i \in D : \A j \in D : j <= i
    <3>1. PICK i \in D : n = -i
      BY <2>4
    <3>2. \A j \in D : -i <= -j
      BY <2>4, <3>1
    <3>3. \A j \in D : j \in Int
      BY <2>1
    <3>4. i \in Int
      BY <2>1
    <3>5. \A j \in D : j <= i
      <4> HIDE DEF D
      <4> QED
        BY <3>2, <3>3, <3>4
    <3> QED
      BY <3>5
  <2>6. CASE i \in b \ a
    <3>1. \A j \in a \ b : j < i
      BY <2>1, <2>5, <2>6
    <3> QED
      BY <2>6, <3>1 DEF Below
  <2>7. CASE i \in a \ b
    <3>1. \A j \in b \ a : j < i
      BY <2>1, <2>5, <2>7
    <3> QED
      BY <2>7, <3>1 DEF Below
  <2> QED
    BY <2>6, <2>7
<1>3. ASSUME NEW a \in Buckets(hp), NEW b \in Buckets(hp), NEW c \in Buckets(hp),
             Below(a, b), Below(b, c)
      PROVE  Below(a, c)
  <2>1. PICK i \in b \ a : \A j \in a \ b : j < i
    BY <1>3 DEF Below
  <2>2. PICK k \in c \ b : \A j \in b \ c : j < k
    BY <1>3 DEF Below
  <2>3. i \in Int /\ k \in Int /\ i # k /\ \A j \in a : j \in Int
    BY <1>1, <2>1, <2>2
  <2>4. CASE i < k
    <3>1. k \in c \ a /\ \A j \in a \ c : j < k
      BY <2>1, <2>2, <2>3, <2>4
    <3> QED
      BY <3>1 DEF Below
  <2>5. CASE k < i
    <3>1. i \in c \ a /\ \A j \in a \ c : j < i
      BY <2>1, <2>2, <2>3, <2>5
    <3> QED
      BY <3>1 DEF Below
  <2> QED
    BY <2>3, <2>4, <2>5
<1>4. ASSUME NEW a \in Buckets(hp), NEW b \in Buckets(hp), Below(a, b), Below(b, a)
      PROVE  FALSE
  <2>1. PICK i \in b \ a : \A j \in a \ b : j < i
    BY <1>4 DEF Below
  <2>2. PICK k \in a \ b : \A j \in b \ a : j < k
    BY <1>4 DEF Below
  <2> QED
    BY <1>1, <2>1, <2>2
<1> QED
  BY <1>2, <1>3, <1>4

BeforePairs == { pq \in Positions \X Positions : Before(pq[1], pq[2]) }
AfterPairs == { pq \in Positions \X Positions : Before(pq[2], pq[1]) }

LEMMA BeforeOrders ==
  ASSUME SeenInv, NEW P \in SUBSET Positions
  PROVE  Orders(BeforePairs, P) /\ Orders(AfterPairs, P)
<1>1. \A p \in Positions : p[1] \in Buckets(hashpower) /\ p[2] \in Int /\ p = <<p[1], p[2]>>
  BY DEF Positions, Slots
<1>2. hashpower \in Nat
  BY TableTypes
<1>3. \A p, q \in P : p = q \/ Before(p, q) \/ Before(q, p)
  BY <1>1, <1>2, BelowOrders DEF Before
<1>4. \A p, q, r \in P : Before(p, q) /\ Before(q, r) => Before(p, r)
  <2> SUFFICES ASSUME NEW p \in P, NEW q \in P, NEW r \in P, Before(p, q), Before(q, r)
               PROVE  Before(p, r)
    OBVIOUS
  <2>1. Below(p[1], q[1]) /\ Below(q[1], r[1]) => Below(p[1], r[1])
    BY <1>1, <1>2, BelowOrders
  <2> QED
    BY <1>1, <2>1 DEF Before
<1>5. \A p, q \in P : /\ <<p, q>> \in BeforePairs <=> Before(p, q)
                      /\ <<p, q>> \in AfterPairs <=> Before(q, p)
  BY DEF BeforePairs, AfterPairs
<1>6. Orders(BeforePairs, P)
  BY <1>3, <1>4, <1>5 DEF Orders
<1>7. Orders(AfterPairs, P)
  BY <1>3, <1>4, <1>5 DEF Orders
<1> QED
  BY <1>6, <1>7

LEMMA FirstAndLast ==
  ASSUME SeenInv, NEW P \in SUBSET Positions
  PROVE  First(P) \in P \cup {End} /\ (P # {} => Last(P) \in P)
<1>1. IsFiniteSet(P)
  BY FinitePositions, FS_Subset
<1>2. CASE P = {}
  BY <1>2 DEF First
<1>3. CASE P # {}
  <2>1. \E n \in P : \A m \in P \ {n} : <<n, m>> \in BeforePairs
    BY <1>1, <1>3, BeforeOrders, LeastOf
  <2>2. \E n \in P : \A m \in P \ {n} : Before(n, m)
    BY <2>1 DEF BeforePairs
  <2>3. \E n \in P : \A m \in P \ {n} : <<n, m>> \in AfterPairs
    BY <1>1, <1>3, BeforeOrders, LeastOf
  <2>4. \E n \in P : \A m \in P \ {n} : Before(m, n)
    BY <2>3 DEF AfterPairs
  <2> QED
    BY <1>3, <2>2, <2>4 DEF First, Last
<1> QED
  BY <1>2, <1>3

----------------------------------------------------------------------------
(* Iterators.                                                              *)

LEMMA ArriveResult ==
  ASSUME SeenInv, NEW i \in Positions \cup {End}
  PROVE  (IF i = End THEN <<"end">> ELSE <<"at", KeyAt(i)>>) \in WholeResults
<1>1. i \in Positions => KeyAt(i) \in Keys
  <2>1. i \in Positions => buckets[i[1]][i[2]] \in Entry
    BY TableTypes DEF Positions, occupied
  <2> QED
    BY <2>1 DEF KeyAt, Entry
<1> QED
  BY <1>1, WholeResultTypes

LEMMA IterateSeenInv ==
  ASSUME SeenInv, NEW t \in Threads, Iterate(t)
  PROVE  SeenInv'
<1>1. pc[t] = "owned" /\ UNCHANGED <<table, snap, Private, owner>>
  BY DEF Iterate, Owns
<1>2. PICK i : Arrive(t, i) /\ i \in Positions \cup {End}
  <2>1. CASE Owns(t, "begin") /\ Arrive(t, First(Positions))
    BY <2>1, FirstAndLast
  <2>2. CASE Owns(t, "next") /\ Arrive(t, First(After(it)))
    <3>1. After(it) \in SUBSET Positions
      BY DEF After
    <3> QED
      BY <2>2, <3>1, FirstAndLast
  <2>3. CASE Owns(t, "prev") /\ Arrive(t, Last(Till(it)))
    <3>1. Till(it) \in SUBSET Positions
      BY DEF Till
    <3>2. Till(it) # {}
      BY <1>1, <2>3, OwnedPlace DEF Owns, MayIterate
    <3> QED
      BY <2>3, <3>1, <3>2, FirstAndLast
  <2> QED
    BY <2>1, <2>2, <2>3 DEF Iterate
<1> QED
  BY <1>1, <1>2, ArriveResult, OwnedLooks DEF Arrive

LEMMA EraseAtSeenInv ==
  ASSUME SeenInv, NEW t \in Threads, EraseAt(t)
  PROVE  SeenInv'
<1>1. /\ pc[t] = "owned" /\ req[t].op = "erase_at"
      /\ Put(it[1], it[2], Free) /\ Count(lock_ind(it[1]), -1)
      /\ Arrive(t, First(After(it)))
      /\ UNCHANGED <<hashpower, locks, expansion, snap, Private, owner>>
  BY DEF EraseAt, Owns
<1>2. it \in Positions /\ it \in Buckets(hashpower) \X Slots
  BY <1>1, OwnedPlace DEF MayIterate, Positions
<1>3. /\ buckets' \in [Buckets(hashpower') -> [Slots -> Entry \cup {Free}]]
      /\ Positions' = Positions \ {it}
  BY <1>1, <1>2, TablePut
<1>4. counter' \in [Locks -> Counts]
  BY <1>1, TableCount
<1>5. First(After(it)) \in (Positions \ {it}) \cup {End}
  <2>1. After(it) \in SUBSET Positions
    BY DEF After
  <2>2. it \notin After(it)
    <3>1. it[1] \in Buckets(hashpower) /\ it[2] \in Int
      BY <1>2 DEF Slots
    <3>2. ~Below(it[1], it[1])
      BY <3>1, TableTypes, BelowOrders
    <3> QED
      BY <3>1, <3>2 DEF After, Before
  <2>3. First(After(it)) \in After(it) \cup {End}
    BY <2>1, FirstAndLast
  <2> QED
    BY <2>1, <2>2, <2>3
<1>6. it' \in Positions' \cup {End, None}
  BY <1>1, <1>3, <1>5 DEF Arrive
<1>7. PICK r \in WholeResults : Finish(t, r)
  BY <1>1, <1>5, ArriveResult DEF Arrive
<1> QED
  BY <1>1, <1>3, <1>4, <1>6, <1>7, TableTypes, OwnedEnds

----------------------------------------------------------------------------
(* All steps.                                                              *)

LEMMA OwnedStepSeenInv ==
  ASSUME WholeInv, NEW t \in Threads, OwnedStep(t)
  PROVE  SeenInv'
<1>1. SeenInv
  BY DEF WholeInv
<1> QED
  BY <1>1, OwnedFindSeenInv, OwnedEraseSeenInv, OwnedInsertSeenInv, OwnedDoubleSeenInv,
     OwnedInsertThrowsSeenInv, OwnedClearSeenInv, OwnedResizeSeenInv, OwnedSizeSeenInv,
     IterateSeenInv, EraseAtSeenInv, UnlockSeenInv DEF OwnedStep

LEMMA WholeStepSeenInv ==
  ASSUME WholeInv, NEW t \in Threads, WholeStep(t)
  PROVE  SeenInv'
<1>1. SeenInv
  BY DEF WholeInv
<1> QED
  BY <1>1, ReadHashpowerSeenInv, GrabSeenInv, ClearSeenInv, ResizeSeenInv, LockTableSeenInv
  DEF WholeStep

LEMMA CallsSeenInv ==
  ASSUME SeenInv, NEW t \in Threads, NEW r, Calls(t, r)
  PROVE  SeenInv'
BY CallMapSeenInv, CallWholeSeenInv, CallLockedSeenInv DEF Calls

\* A thread that is away takes no step of CuckooMap but to return.
LEMMA AwayReturns ==
  ASSUME SeenInv, NEW t \in Threads, Away(t), Step(t)
  PROVE  Return(t)
<1>1. pc[t] \in {"resize", "grab", "whole", "return", "owned", "idle"}
  BY DEF SeenInv, AwayOK, AwayAt
<1>2. ~Operate(t)
  BY <1>1 DEF Operate, Find, Erase, Update, Insert, Inserting, CopyThrows, InCritical
<1>3. ~Cuckoo(t)
  BY <1>1 DEF Cuckoo, RunCuckoo, Inserting, SlotSearch, Fill, MoveFails, NothingToMove, Move, Place
<1>4. ~Expand(t)
  BY <1>1 DEF Expand, LockExpansion, CheckResize, LockAll, Double, DoubleThrows, MoveBuckets,
     UnlockNew, Expanded
<1> QED
  BY <1>1, <1>2, <1>3, <1>4 DEF Step, Snapshot, LockBucket, HashpowerChanged, ScanCounter

LEMMA AnyStepSeenInv ==
  ASSUME SeenInv, NEW t \in Threads, Step(t), UNCHANGED own
  PROVE  SeenInv'
BY StepSeenInv, ReturnSeenInv, AwayReturns

----------------------------------------------------------------------------
(* Resizes and inserts are kept apart.                                     *)

\* What a step of thread t that is not a call leaves of all this.
Goes(t) ==
  /\ \A u \in Threads \ {t} : /\ pc'[u] = pc[u] /\ req'[u] = req[u]
                              /\ owner' = u <=> owner = u
  /\ RunsInsert(t)' => RunsInsert(t)
  /\ RunsResize(t)' => RunsResize(t)
  /\ owner' = t /\ pc'[t] = "owned" => owner = t /\ pc[t] = "owned" /\ req'[t] = req[t]
  /\ RunsInsert(t) /\ owner \in Threads \ {t} /\ pc[t] \in {"snapshot", "lock"}
       => pc'[t] \in {"snapshot", "lock"}

LEMMA GoesCareful ==
  ASSUME CarefulOK, NEW s \in Threads, Goes(s)
  PROVE  CarefulOK'
<1> SUFFICES ASSUME NEW t \in Threads, NEW u \in Threads \ {t}, RunsInsert(u)'
             PROVE  /\ ~RunsResize(t)'
                    /\ (owner = t /\ pc[t] = "owned" /\ req[t].op \in {"insert", "rehash", "reserve"})'
                         => pc'[u] \in {"snapshot", "lock"}
  BY DEF CarefulOK, Apart
<1>1. \A v \in Threads : /\ RunsInsert(v)' => RunsInsert(v)
                         /\ RunsResize(v)' => RunsResize(v)
  BY DEF Goes, RunsInsert, RunsResize
<1>2. RunsInsert(u) /\ Apart(t, u)
  BY <1>1 DEF CarefulOK
<1>3. ASSUME owner' = t, pc'[t] = "owned", req'[t].op \in {"insert", "rehash", "reserve"}
      PROVE  pc'[u] \in {"snapshot", "lock"}
  <2>1. owner = t /\ pc[t] = "owned" /\ req[t].op \in {"insert", "rehash", "reserve"}
    BY <1>3 DEF Goes
  <2>2. pc[u] \in {"snapshot", "lock"}
    BY <1>2, <2>1 DEF Apart
  <2>3. u = s => pc'[u] \in {"snapshot", "lock"}
    BY <1>2, <2>1, <2>2 DEF Goes
  <2>4. u # s => pc'[u] = pc[u]
    BY DEF Goes
  <2> QED
    BY <2>2, <2>3, <2>4
<1> QED
  BY <1>1, <1>2, <1>3 DEF Apart

LEMMA MovesLeave ==
  ASSUME ThreadFcns, NEW t \in Threads, ThreadMoves(t), NEW u \in Threads \ {t}
  PROVE  pc'[u] = pc[u] /\ req'[u] = req[u]
BY DEF ThreadFcns, IsFcn, ThreadMoves

\* Where the steps of WholeTable lead.
LEMMA WholeStepMoves ==
  ASSUME ThreadFcns, NEW t \in Threads, WholeStep(t) \/ OwnedStep(t)
  PROVE  /\ \A u \in Threads \ {t} : pc'[u] = pc[u]
         /\ req' = req
         /\ pc'[t] \in {"return", "grab", "whole", pc[t]}
         /\ pc[t] \in {"resize", "grab", "whole", "owned"}
<1> USE DEF ThreadFcns, IsFcn, Goto, Finish, Private
<1>1. CASE ReadHashpower(t)
  BY <1>1 DEF ReadHashpower
<1>2. CASE Grab(t)
  BY <1>2 DEF Grab
<1>3. CASE Clear(t) \/ LockTable(t)
  BY <1>3 DEF Clear, LockTable
<1>4. CASE Resize(t)
  BY <1>4 DEF Resize
<1>5. CASE OwnedFind(t) \/ OwnedErase(t)
  BY <1>5 DEF OwnedFind, OwnedErase, Owns
<1>6. CASE OwnedInsert(t) \/ OwnedInsertThrows(t)
  BY <1>6 DEF OwnedInsert, OwnedInsertThrows, MustExpand, Owns
<1>7. CASE OwnedDouble(t)
  BY <1>7 DEF OwnedDouble, MustExpand, Owns
<1>8. CASE OwnedClear(t) \/ OwnedResize(t) \/ OwnedSize(t)
  BY <1>8 DEF OwnedClear, OwnedResize, OwnedSize, Owns
<1>9. CASE Iterate(t) \/ EraseAt(t) \/ unlock(t)
  BY <1>9 DEF Iterate, EraseAt, unlock, Arrive, Owns
<1> QED
  BY <1>1, <1>2, <1>3, <1>4, <1>5, <1>6, <1>7, <1>8, <1>9 DEF WholeStep, OwnedStep

\* Only lock_table and unlock change who owns the table.
LEMMA OwnerMoves ==
  ASSUME NEW t \in Threads, WholeStep(t) \/ OwnedStep(t)
  PROVE  \/ owner' = owner
         \/ owner' = t /\ LockTable(t)
         \/ owner' = None /\ unlock(t)
<1>1. CASE WholeStep(t)
  BY <1>1 DEF WholeStep, ReadHashpower, Grab, Clear, Resize, LockTable, own
<1>2. CASE OwnedStep(t)
  BY <1>2 DEF OwnedStep, OwnedFind, OwnedErase, OwnedInsert, OwnedDouble, OwnedInsertThrows,
     OwnedClear, OwnedResize, OwnedSize, Iterate, EraseAt, unlock, own
<1> QED
  BY <1>1, <1>2

LEMMA WholeStepGoes ==
  ASSUME SeenInv, NEW t \in Threads, WholeStep(t) \/ OwnedStep(t)
  PROVE  Goes(t)
<1>1. /\ \A u \in Threads \ {t} : pc'[u] = pc[u]
      /\ req' = req
      /\ pc'[t] \in {"return", "grab", "whole", pc[t]}
      /\ pc[t] \in {"resize", "grab", "whole", "owned"}
  BY WholeStepMoves DEF SeenInv
<1>2. owner = t <=> pc[t] = "owned"
  BY <1>1, WholePlace
<1>3. \/ owner' = owner
      \/ owner' = t /\ req[t].op = "lock_table" /\ pc[t] = "whole" /\ pc'[t] = "return"
      \/ owner' = None /\ req[t].op = "unlock" /\ pc[t] = "owned"
  <2>1. LockTable(t) => req[t].op = "lock_table" /\ pc[t] = "whole" /\ pc'[t] = "return"
    BY DEF LockTable, Finish, Goto, SeenInv, ThreadFcns, IsFcn
  <2>2. unlock(t) => req[t].op = "unlock" /\ pc[t] = "owned"
    BY DEF unlock, Owns
  <2> QED
    BY <2>1, <2>2, OwnerMoves
<1>4. \A u \in Threads \ {t} : owner' = u <=> owner = u
  <2>1. CASE owner' = owner
    BY <2>1
  <2>2. CASE owner' = t /\ pc[t] = "whole"
    <3>1. Away(t) /\ LocksHeld(t) = Locks
      BY <2>2, WholePlace DEF AwayOK, AwayAt
    <3> QED
      BY <2>2, <3>1, OwnerIsAlone
  <2>3. CASE owner' = None /\ pc[t] = "owned"
    BY <1>2, <2>3, MapAssumption
  <2> QED
    BY <1>3, <2>1, <2>2, <2>3
<1>5. RunsInsert(t)' => RunsInsert(t)
  BY <1>1, <1>2, <1>3 DEF RunsInsert
<1>6. RunsResize(t)' => RunsResize(t)
  BY <1>1, <1>2, <1>3 DEF RunsResize
<1>7. owner' = t /\ pc'[t] = "owned" => owner = t /\ pc[t] = "owned" /\ req'[t] = req[t]
  BY <1>1, <1>2, <1>3
<1> QED
  BY <1>1, <1>4, <1>5, <1>6, <1>7 DEF Goes

LEMMA NoLockIsFree ==
  ASSUME SeenInv, NEW u \in Threads, owner = u
  PROVE  \A l \in Locks : locks[l] = u
BY OwnerHoldsAll DEF LocksHeld

LEMMA StepGoes ==
  ASSUME SeenInv, NEW t \in Threads, Step(t), UNCHANGED own
  PROVE  Goes(t)
<1>1. ThreadMoves(t)
  BY StepMoves DEF SeenInv
<1>2. \A u \in Threads \ {t} : pc'[u] = pc[u] /\ req'[u] = req[u]
  BY <1>1, MovesLeave DEF SeenInv
<1>3. owner' = owner
  BY DEF own
<1>4. req' = req \/ (pc'[t] = "idle" /\ pc[t] # "idle")
  BY StepRequest DEF Return, Goto, SeenInv, ThreadFcns, IsFcn
<1>5. pc[t] # "idle"
  BY DEF Step, Snapshot, LockBucket, HashpowerChanged, Operate, Find, Erase, Update, Insert,
     Inserting, CopyThrows, InCritical, Cuckoo, RunCuckoo, SlotSearch, Fill, MoveFails,
     NothingToMove, Move, Place, ScanCounter, Expand, LockExpansion, CheckResize, LockAll,
     Double, DoubleThrows, MoveBuckets, UnlockNew, Expanded, Return
<1>6. (RunsInsert(t)' => RunsInsert(t)) /\ (RunsResize(t)' => RunsResize(t))
  BY <1>3, <1>4, <1>5 DEF RunsInsert, RunsResize
<1>7. ASSUME owner' = t, pc'[t] = "owned" PROVE FALSE
  <2>1. Return(t)
    BY <1>3, <1>7, AwayReturns DEF Away
  <2> QED
    BY <1>7, <2>1 DEF Return, Goto, SeenInv, ThreadFcns, IsFcn
<1>8. ASSUME owner \in Threads \ {t}, pc[t] \in {"snapshot", "lock"}
      PROVE  pc'[t] \in {"snapshot", "lock"}
  <2>1. \A l \in Locks : locks[l] # None
    BY <1>8, NoLockIsFree, MapAssumption
  <2>2. ~Away(t)
    <3>1. pc[t] \notin {"resize", "grab", "whole", "return", "owned", "idle"}
      BY <1>8
    <3> QED
      BY <3>1 DEF SeenInv, AwayOK, AwayAt
  <2>3. \A l \in Lowest(want[t]) : locks[l] # None
    BY <2>1, <2>2, SeenWants DEF Lowest
  <2>4. CASE pc[t] = "snapshot"
    <3>1. Snapshot(t)
      BY <2>4 DEF Step, Snapshot, LockBucket, HashpowerChanged, Operate, Find, Erase, Update, Insert,
         Inserting, CopyThrows, InCritical, Cuckoo, RunCuckoo, SlotSearch, Fill, MoveFails,
         NothingToMove, Move, Place, ScanCounter, Expand, LockExpansion, CheckResize, LockAll,
         Double, DoubleThrows, MoveBuckets, UnlockNew, Expanded, Return
    <3> QED
      BY <3>1 DEF Snapshot, Goto, SeenInv, ThreadFcns, IsFcn
  <2>5. CASE pc[t] = "lock"
    <3>1. LockBucket(t) \/ HashpowerChanged(t)
      BY <2>5 DEF Step, Snapshot, LockBucket, HashpowerChanged, Operate, Find, Erase, Update, Insert,
         Inserting, CopyThrows, InCritical, Cuckoo, RunCuckoo, SlotSearch, Fill, MoveFails,
         NothingToMove, Move, Place, ScanCounter, Expand, LockExpansion, CheckResize, LockAll,
         Double, DoubleThrows, MoveBuckets, UnlockNew, Expanded, Return
    <3> QED
      BY <2>3, <2>5, <3>1 DEF LockBucket, TakeLowest, HashpowerChanged
  <2> QED
    BY <1>8, <2>4, <2>5
<1> QED
  BY <1>2, <1>3, <1>6, <1>7, <1>8 DEF Goes

\* What the step of a call leaves of all this.
LEMMA CallsCareful ==
  ASSUME WholeInv, NEW s \in Threads, NEW r, Careful(s, r), Calls(s, r)
  PROVE  CarefulOK'
<1>1. SeenInv /\ CarefulOK
  BY DEF WholeInv
<1>2. /\ pc[s] = "idle" /\ UNCHANGED own
      /\ pc' = [pc EXCEPT ![s] = pc'[s]] /\ req' = [req EXCEPT ![s] = r]
      /\ \/ r \in Requests /\ owner # s /\ pc'[s] \in {"scan", "snapshot"}
            /\ (r \notin CountRequests => pc'[s] = "snapshot")
         \/ r \in WholeRequests /\ owner # s /\ pc'[s] \in {"resize", "grab"}
         \/ r \in LockedRequests /\ owner = s /\ pc'[s] = "owned"
  BY <1>1 DEF Calls, CallMap, Call, CallWhole, CallLocked, Goto, own, SeenInv, ThreadFcns, IsFcn
<1>3. /\ \A u \in Threads \ {s} : pc'[u] = pc[u] /\ req'[u] = req[u]
      /\ req'[s] = r /\ owner' = owner /\ pc'[s] # "idle"
  BY <1>1, <1>2 DEF own, SeenInv, ThreadFcns, IsFcn
<1>4. \A u \in Threads \ {s} : (RunsInsert(u)' <=> RunsInsert(u)) /\ (RunsResize(u)' <=> RunsResize(u))
  BY <1>3 DEF RunsInsert, RunsResize
<1>5. /\ RunsInsert(s)' <=> owner # s /\ r.op \in {"insert", "upsert"}
      /\ RunsResize(s)' <=> owner # s /\ r.op \in {"rehash", "reserve"}
  BY <1>3 DEF RunsInsert, RunsResize
<1>6. \A c \in CountRequests : c.op \notin {"insert", "upsert"}
  BY DEF CountRequests
<1> SUFFICES ASSUME NEW t \in Threads, NEW u \in Threads \ {t}, RunsInsert(u)'
             PROVE  /\ ~RunsResize(t)'
                    /\ (owner = t /\ pc[t] = "owned" /\ req[t].op \in {"insert", "rehash", "reserve"})'
                         => pc'[u] \in {"snapshot", "lock"}
  BY DEF CarefulOK, Apart
<1>7. CASE s # t /\ s # u
  <2>1. Apart(t, u)
    BY <1>1 DEF CarefulOK
  <2>2. RunsInsert(u) /\ ~RunsResize(t) /\ (RunsResize(t)' <=> RunsResize(t))
    BY <1>4, <1>7, <2>1 DEF Apart
  <2>3. pc'[t] = pc[t] /\ req'[t] = req[t] /\ pc'[u] = pc[u] /\ owner' = owner
    BY <1>3, <1>7
  <2> QED
    BY <2>1, <2>2, <2>3 DEF Apart
<1>8. CASE s = u
  <2>1. owner # s /\ r.op \in {"insert", "upsert"}
    BY <1>5, <1>8
  <2>2. ~RunsResize(t)'
    BY <1>4, <1>8, <2>1 DEF Careful
  <2>3. pc'[u] = "snapshot"
    <3>1. r \notin WholeRequests
      BY <2>1, WholeIsNoRequest
    <3> QED
      BY <1>2, <1>6, <1>8, <2>1, <3>1
  <2> QED
    BY <2>2, <2>3
<1>9. CASE s = t
  <2>1. RunsInsert(u)
    BY <1>4, <1>9
  <2>2. r.op \notin {"rehash", "reserve"} /\ ~(owner = s /\ r.op = "insert")
    BY <1>9, <2>1 DEF Careful
  <2> QED
    BY <1>3, <1>5, <1>9, <2>2
<1> QED
  BY <1>7, <1>8, <1>9

----------------------------------------------------------------------------
(* The invariant holds.                                                    *)

LEMMA InitSeen ==
  ASSUME WholeInit
  PROVE  Map!Init /\ Map!CallsOK
<1>1. \A t \in Threads : ~Away(t)
  BY MapAssumption DEF WholeInit, Init, Away
<1>2. /\ pcSeen = [t \in Threads |-> "idle"]
      /\ reqSeen = [t \in Threads |-> None]
      /\ snapSeen = [t \in Threads |-> 0]
      /\ wantSeen = [t \in Threads |-> {}]
      /\ pathSeen = [t \in Threads |-> <<>>]
      /\ bfsSeen = [t \in Threads |-> None]
      /\ sumSeen = [t \in Threads |-> 0]
      /\ resSeen = [t \in Threads |-> None]
  BY <1>1 DEF WholeInit, Init, pcSeen, reqSeen, snapSeen, wantSeen, pathSeen, bfsSeen, sumSeen,
     resSeen, Seen
<1>3. locksSeen = [l \in Locks |-> None]
  BY DEF WholeInit, Init, locksSeen
<1>4. Map!Init
  BY <1>2, <1>3, SameIndex, SameTypes DEF WholeInit, Init, Map!Init
<1>5. Map!CallsOK
  BY <1>2 DEF Map!CallsOK, Map!CallOK, Map!Expanding
<1> QED
  BY <1>4, <1>5

LEMMA InitWholeInv == WholeInit => WholeInv
<1> SUFFICES ASSUME WholeInit PROVE WholeInv
  OBVIOUS
<1>1. Map!IndInv /\ Map!CallsOK
  BY InitSeen, Map!InitIndInv, SameIndex, SameTypes,
     IndexAssumption, MapAssumption, FreeAssumption, NoneAssumption
<1>2. ThreadFcns
  BY DEF WholeInit, Init, ThreadFcns, IsFcn
<1>3. LocksTyped
  BY DEF WholeInit, Init, LocksTyped
<1>4. OwnerOK
  BY DEF WholeInit, OwnerOK
<1>5. \A t \in Threads : RestOK(t) /\ ~Away(t)
  BY MapAssumption DEF WholeInit, Init, RestOK, Away
<1>6. CarefulOK
  BY DEF WholeInit, Init, CarefulOK, Apart, RunsInsert
<1> QED
  BY <1>1, <1>2, <1>3, <1>4, <1>5, <1>6 DEF WholeInv, SeenInv

LEMMA StutterWholeInv == WholeInv /\ UNCHANGED wholeVars => WholeInv'
<1> SUFFICES ASSUME WholeInv, UNCHANGED wholeVars PROVE WholeInv'
  OBVIOUS
<1> USE DEF wholeVars, vars, own, table, threads
<1>1. UNCHANGED <<pcSeen, reqSeen, snapSeen, wantSeen, pathSeen, bfsSeen, sumSeen, resSeen,
                  locksSeen>>
  BY DEF pcSeen, reqSeen, snapSeen, wantSeen, pathSeen, bfsSeen, sumSeen, resSeen, locksSeen,
     Seen, Away
<1>2. UNCHANGED Map!vars
  BY <1>1 DEF Map!vars, Map!table, Map!threads
<1>3. Map!IndInv' /\ Map!CallsOK'
  BY <1>2, Protocol DEF WholeInv, SeenInv
<1>4. ThreadFcns' /\ LocksTyped'
  BY DEF WholeInv, SeenInv, ThreadFcns, IsFcn, LocksTyped
<1>5. OwnerOK'
  BY OwnerStays DEF WholeInv
<1>6. ASSUME NEW t \in Threads PROVE RestOK(t)' /\ (Away(t)' => AwayOK(t)')
  <2>1. RestOK(t)'
    BY DEF WholeInv, SeenInv, RestOK
  <2>2. LocksHeld(t)' = LocksHeld(t)
    BY SameHeld
  <2>3. InOrder(t)' = InOrder(t)
    BY <2>2 DEF InOrder
  <2>4. \A op : MayIterate(op)' = MayIterate(op)
    BY SamePositions DEF MayIterate, Till
  <2>5. AwayAt(t)' = AwayAt(t)
    BY <2>2, <2>3, <2>4 DEF AwayAt
  <2> QED
    BY <2>1, <2>5 DEF AwayOK, Away, WholeInv, SeenInv
<1>7. CarefulOK'
  BY DEF WholeInv, CarefulOK, Apart, RunsInsert, RunsResize
<1> QED
  BY <1>3, <1>4, <1>5, <1>6, <1>7 DEF WholeInv, SeenInv

LEMMA NextWholeInv == WholeInv /\ [CarefulNext]_wholeVars => WholeInv'
<1> SUFFICES ASSUME WholeInv, CarefulNext PROVE WholeInv'
  BY StutterWholeInv
<1>1. SeenInv /\ CarefulOK
  BY DEF WholeInv
<1>2. PICK t \in Threads : \/ \E r \in AllRequests : Careful(t, r) /\ Calls(t, r)
                           \/ Step(t) /\ UNCHANGED own
                           \/ WholeStep(t) \/ OwnedStep(t)
  BY DEF CarefulNext
<1>3. ASSUME NEW r \in AllRequests, Careful(t, r), Calls(t, r) PROVE WholeInv'
  BY <1>1, <1>3, CallsSeenInv, CallsCareful DEF WholeInv
<1>4. CASE Step(t) /\ UNCHANGED own
  BY <1>1, <1>4, AnyStepSeenInv, StepGoes, GoesCareful DEF WholeInv
<1>5. CASE WholeStep(t) \/ OwnedStep(t)
  BY <1>1, <1>5, WholeStepSeenInv, OwnedStepSeenInv, WholeStepGoes, GoesCareful DEF WholeInv
<1> QED
  BY <1>2, <1>3, <1>4, <1>5

\* The invariant holds in every state that users who keep automatic
\* expansions and resizes by hand apart can reach.
THEOREM WholeProtocol == CarefulSpec => []WholeInv
<1>1. WholeInit => WholeInv
  BY InitWholeInv
<1>2. WholeInv /\ [CarefulNext]_wholeVars => WholeInv'
  BY NextWholeInv
<1> QED
  BY <1>1, <1>2, PTL DEF CarefulSpec

----------------------------------------------------------------------------
(* What follows for the table as a whole.                                  *)

\* The hashpower always is that of the bucket array, whoever has resized the
\* table: doublings, rehash, reserve and the locked_table's operations.
THEOREM BucketsAreCounted == CarefulSpec => []BucketCount
<1>1. WholeInv => BucketCount
  BY TableTypes DEF WholeInv, BucketCount
<1> QED
  BY <1>1, WholeProtocol, PTL

\* A thread in the middle of cuckoo_fast_double holds the expansion lock, and
\* it is inserting.
LEMMA ExpansionHolder ==
  ASSUME WholeInv, NEW v \in Threads, expansion = v
  PROVE  ~Away(v) /\ pc[v] \in Expanding /\ RunsInsert(v) /\ \A t : ~MustExpand(t) \/ t # v
<1>1. ~Away(v)
  BY DEF WholeInv, SeenInv, AwayOK
<1>2. pcSeen[v] = pc[v] /\ reqSeen[v] = req[v] /\ owner # v
  BY <1>1, SeenAt DEF Away
<1>3. pc[v] \in Expanding
  BY <1>2, SameTypes DEF WholeInv, SeenInv, Map!IndInv, Map!ExpansionOK
<1>4. req[v].op \in {"upsert", "insert"}
  BY <1>2, <1>3, SameTypes DEF WholeInv, SeenInv, Map!CallsOK, Map!CallOK
<1> QED
  BY <1>1, <1>2, <1>3, <1>4 DEF RunsInsert, Expanding, MustExpand, Owns

\* Who waits for the expansion lock has no spinlock others could wait for, or
\* it owns the table and nobody has the expansion lock.
LEMMA ExpansionWaiter ==
  ASSUME WholeInv, NEW t \in Threads, NEW v \in Threads, expansion = v, v # t,
         pc[t] = "expand" \/ MustExpand(t)
  PROVE  LocksHeld(t) = {}
<1>1. CASE pc[t] = "expand"
  <2>1. ~Away(t)
    BY <1>1 DEF WholeInv, SeenInv, AwayOK, AwayAt
  <2>2. pcSeen[t] = "expand" /\ Map!LocksHeld(t) = LocksHeld(t)
    BY <1>1, <2>1, SeenAt, SeenHeld DEF WholeInv, SeenInv
  <2> QED
    BY <2>2, SameTypes DEF WholeInv, SeenInv, Map!IndInv, Map!HoldingOK, Lockless
<1>2. CASE MustExpand(t)
  <2>1. pc[t] = "owned" /\ req[t].op = "insert" /\ owner = t
    BY <1>2, OwnedPlace DEF MustExpand, Owns, WholeInv
  <2>2. RunsInsert(v) /\ pc[v] \in Expanding
    BY ExpansionHolder
  <2>3. pc[v] \in {"snapshot", "lock"}
    BY <2>1, <2>2 DEF WholeInv, CarefulOK, Apart
  <2> QED
    BY <2>2, <2>3 DEF Expanding
<1> QED
  BY <1>1, <1>2

\* Locks are taken in order, those of lock_table, rehash and clear too.
LEMMA AllInOrder ==
  ASSUME WholeInv, NEW t \in Threads, pc[t] \in {"lock", "lock_all", "grab"}
  PROVE  InOrder(t) /\ want[t] \subseteq Locks
<1>1. CASE pc[t] = "grab"
  BY <1>1, WholePlace DEF WholeInv, AwayOK, AwayAt
<1>2. CASE pc[t] # "grab"
  <2>1. ~Away(t)
    BY <1>2 DEF WholeInv, SeenInv, AwayOK, AwayAt
  <2>2. pcSeen[t] = pc[t] /\ wantSeen[t] = want[t] /\ Map!LocksHeld(t) = LocksHeld(t)
    BY <2>1, SeenAt, SeenHeld DEF WholeInv, SeenInv
  <2>3. Map!InOrder(t)
    BY <1>2, <2>2 DEF WholeInv, SeenInv, Map!IndInv, Map!HoldingOK
  <2> QED
    BY <2>1, <2>2, <2>3, SameIndex, SeenWants DEF Map!InOrder, InOrder, WholeInv
<1> QED
  BY <1>1, <1>2

LEMMA LocksAreOrdered ==
  /\ IsFiniteSet(Locks)
  /\ \A a, b \in Locks : a = b \/ Below(a, b) \/ Below(b, a)
  /\ \A a, b, c \in Locks : Below(a, b) /\ Below(b, c) => Below(a, c)
  /\ \A a, b \in Locks : ~(Below(a, b) /\ Below(b, a))
<1>1. IsFiniteSet(Locks)
  <2>1. IsFiniteSet(Bits(LockBits))
    BY FS_Interval, IndexAssumption DEF Bits
  <2> QED
    BY <2>1, FS_SUBSET DEF Locks
<1>2. Locks = Buckets(LockBits) /\ LockBits \in Nat
  BY IndexAssumption DEF Locks, Buckets, hashmask
<1> QED
  BY <1>1, <1>2, BelowOrders

LEMMA NoCircleNow ==
  ASSUME WholeInv
  PROVE  NoCircle
<1> SUFFICES ASSUME NEW S \in SUBSET Threads, S # {},
                    \A t \in S : \E u \in S : WaitsFor(t, u)
             PROVE  FALSE
  BY DEF NoCircle
<1> DEFINE Waits(t, l) == /\ pc[t] \in {"lock", "lock_all", "grab"}
                          /\ l \in Lowest(want[t]) /\ locks[l] \in S
           W == { l \in Locks : \E t \in S : Waits(t, l) }
           R == { ab \in Locks \X Locks : Below(ab[2], ab[1]) }
<1>1. ASSUME NEW t \in S PROVE \/ \E l \in W : Waits(t, l)
                               \/ (pc[t] = "expand" \/ MustExpand(t)) /\ expansion \in S
  <2>1. PICK u \in S : WaitsFor(t, u)
    OBVIOUS
  <2>2. ASSUME pc[t] \in {"lock", "lock_all", "grab"}, NEW l \in Lowest(want[t]), locks[l] = u
        PROVE  \E m \in W : Waits(t, m)
    <3>1. l \in Locks
      BY <2>2, AllInOrder DEF Lowest
    <3> QED
      BY <2>2, <3>1
  <2> QED
    BY <2>1, <2>2 DEF WaitsFor
<1>2. CASE W = {}
  <2>1. PICK t \in S : TRUE
    OBVIOUS
  <2>2. expansion \in S
    BY <1>1, <1>2, <2>1
  <2>3. pc[expansion] = "expand" \/ MustExpand(expansion)
    BY <1>1, <1>2, <2>2
  <2> QED
    BY <2>2, <2>3, ExpansionHolder DEF Expanding
<1>3. CASE W # {}
  <2>1. IsFiniteSet(W)
    BY LocksAreOrdered, FS_Subset
  <2>2. Orders(R, W)
    <3>1. \A a, b \in W : <<a, b>> \in R <=> Below(b, a)
      OBVIOUS
    <3>2. \A a \in W : a \in Locks
      OBVIOUS
    <3> HIDE DEF R, W
    <3> QED
      BY <3>1, <3>2, LocksAreOrdered DEF Orders
  <2>3. PICK l \in W : \A m \in W \ {l} : <<l, m>> \in R
    <3> HIDE DEF R, W
    <3> QED
      BY <1>3, <2>1, <2>2, LeastOf
  <2>4. PICK u \in S : locks[l] = u /\ l \in Locks
    BY <2>3
  <2>5. l \in LocksHeld(u)
    BY <2>4 DEF LocksHeld
  <2>6. ASSUME NEW m \in W, Waits(u, m) PROVE FALSE
    <3>1. InOrder(u) /\ m \in want[u]
      BY <2>6, AllInOrder DEF Lowest
    <3>2. Below(l, m)
      BY <2>5, <3>1 DEF InOrder
    <3>3. m = l \/ Below(m, l)
      BY <2>3
    <3> QED
      BY <2>4, <3>2, <3>3, LocksAreOrdered
  <2>7. ASSUME pc[u] = "expand" \/ MustExpand(u), expansion \in S PROVE FALSE
    <3>1. expansion # u
      BY <2>7, ExpansionHolder DEF Expanding
    <3> QED
      BY <2>5, <2>7, <3>1, ExpansionWaiter
  <2> QED
    BY <1>1, <2>6, <2>7
<1> QED
  BY <1>2, <1>3

\* No threads wait for each other in a circle, be it for spinlocks or for the
\* expansion lock, if users keep automatic expansions and resizes by hand
\* apart; the run locked_insert_deadlock shows that they have to.
THEOREM NoDeadlocks == CarefulSpec => []NoCircle
<1>1. WholeInv => NoCircle
  BY NoCircleNow
<1> QED
  BY <1>1, WholeProtocol, PTL

----------------------------------------------------------------------------
(* Types.                                                                  *)

\* The bucket array fits in the segment.
InSegment == hashpower <= SegmentHashpower

LEMMA TableBits ==
  ASSUME SeenInv
  PROVE  bucket_bits = hashpower
<1>1. UNION DOMAIN buckets = 0 .. hashpower - 1
  BY TableTypes DEF Buckets, hashmask, Bits
<1>2. Cardinality(0 .. hashpower - 1) = hashpower
  BY TableTypes, FS_Interval
<1> QED
  BY <1>1, <1>2 DEF bucket_bits

LEMMA StepHashpower ==
  ASSUME SeenInv, NEW t \in Threads, Step(t), InSegment
  PROVE  InSegment'
<1>1. CASE Snapshot(t) \/ LockBucket(t) \/ HashpowerChanged(t) \/ ScanCounter(t) \/ Return(t)
  BY <1>1 DEF Snapshot, LockBucket, HashpowerChanged, ScanCounter, Return, table, InSegment
<1>2. CASE Operate(t)
  BY <1>2 DEF Operate, Find, Erase, Update, Insert, CopyThrows, InSegment
<1>3. CASE Cuckoo(t)
  BY <1>3 DEF Cuckoo, RunCuckoo, SlotSearch, Fill, MoveFails, NothingToMove, Move, Place, table,
     InSegment
<1>4. CASE Double(t)
  <2>1. ~Away(t)
    BY <1>4 DEF Double, SeenInv, AwayOK, AwayAt
  <2>2. snap[t] = hashpower
    BY <1>4, <2>1, SeenAt DEF Double, SeenInv, Map!IndInv, Map!ExpansionOK
  <2> QED
    BY <1>4, <2>2, TableBits, TableTypes, MapAssumption DEF Double, InSegment
<1>5. CASE Expand(t) /\ ~Double(t)
  BY <1>5 DEF Expand, LockExpansion, CheckResize, LockAll, DoubleThrows, MoveBuckets,
     UnlockNew, Expanded, InSegment
<1> QED
  BY <1>1, <1>2, <1>3, <1>4, <1>5 DEF Step

LEMMA WholeStepHashpower ==
  ASSUME SeenInv, NEW t \in Threads, WholeStep(t) \/ OwnedStep(t), InSegment
  PROVE  InSegment'
<1>1. Rebuilt(t) => InSegment'
  BY MapAssumption DEF Rebuilt, NewHashpowers, InSegment
<1>2. CASE OwnedDouble(t)
  BY <1>2, TableBits, TableTypes, MapAssumption DEF OwnedDouble, InSegment
<1>3. CASE WholeStep(t)
  BY <1>1, <1>3 DEF WholeStep, ReadHashpower, Grab, Clear, Resize, LockTable, NoRoom, table,
     InSegment
<1>4. CASE OwnedStep(t) /\ ~OwnedDouble(t)
  BY <1>1, <1>4 DEF OwnedStep, OwnedFind, OwnedErase, OwnedInsert, OwnedInsertThrows,
     OwnedClear, OwnedResize, OwnedSize, Iterate, EraseAt, unlock, NoRoom, table, InSegment
<1> QED
  BY <1>2, <1>3, <1>4

LEMMA StaysInSegment == WholeInv /\ InSegment /\ [CarefulNext]_wholeVars => InSegment'
<1> SUFFICES ASSUME WholeInv, InSegment, [CarefulNext]_wholeVars PROVE InSegment'
  OBVIOUS
<1>1. CASE UNCHANGED wholeVars
  BY <1>1 DEF wholeVars, vars, table, InSegment
<1>2. ASSUME NEW t \in Threads, NEW r, Calls(t, r) PROVE InSegment'
  BY <1>2 DEF Calls, CallMap, Call, CallWhole, CallLocked, table, InSegment
<1>3. ASSUME NEW t \in Threads, Step(t) \/ WholeStep(t) \/ OwnedStep(t) PROVE InSegment'
  BY <1>3, StepHashpower, WholeStepHashpower DEF WholeInv
<1> QED
  BY <1>1, <1>2, <1>3 DEF CarefulNext

LEMMA SamePathTypes ==
  /\ \A hp : Map!CuckooRecord(hp) = CuckooRecord(hp)
  /\ \A hp : Map!Search(hp) = Search(hp)
  /\ Map!Pathcode = Pathcode
<1>1. \A hp : Map!CuckooRecord(hp) = CuckooRecord(hp) /\ Map!b_slot(hp) = b_slot(hp)
  BY SameIndex, SameTypes DEF Map!CuckooRecord, CuckooRecord, Map!b_slot, b_slot
<1> QED
  BY <1>1, SameTypes DEF Map!Search, Search, Map!Pathcode, Pathcode

LEMMA ThreadTypes ==
  ASSUME SeenInv, NEW t \in Threads
  PROVE  /\ pc[t] \in WholePCs /\ req[t] \in AllRequests \cup {None} /\ snap[t] \in Nat
         /\ want[t] \subseteq Locks /\ sum[t] \in Counts /\ res[t] \in WholeResults \cup {None}
         /\ path[t] \in Seq(CuckooRecord(snap[t]))
         /\ bfs[t] \in {None} \cup Search(snap[t]) \cup Pathcode
<1>1. CASE Away(t)
  <2>1. AwayOK(t)
    BY <1>1 DEF SeenInv
  <2>2. pc[t] \in WholePCs
    BY <2>1 DEF AwayOK, AwayAt, WholePCs, PCs
  <2>3. 0 \in Counts
    BY MapAssumption DEF Counts
  <2>4. <<>> \in Seq(CuckooRecord(snap[t]))
    OBVIOUS
  <2> QED
    BY <2>1, <2>2, <2>3, <2>4 DEF AwayOK
<1>2. CASE ~Away(t)
  <2>1. /\ pcSeen[t] = pc[t] /\ snapSeen[t] = snap[t] /\ reqSeen[t] = req[t]
        /\ wantSeen[t] = want[t] /\ pathSeen[t] = path[t] /\ bfsSeen[t] = bfs[t]
        /\ sumSeen[t] = sum[t] /\ resSeen[t] = res[t]
    BY <1>2, SeenAt
  <2>2. Map!TypeOK
    BY DEF SeenInv, Map!IndInv
  <2>3. pc[t] \in PCs /\ req[t] \in Requests \cup {None} /\ snap[t] \in Nat
        /\ want[t] \subseteq Locks /\ sum[t] \in Counts /\ res[t] \in Results \cup {None}
    BY <2>1, <2>2, SameIndex, SameTypes DEF Map!TypeOK
  <2>4. /\ path[t] \in Seq(CuckooRecord(snap[t]))
        /\ bfs[t] \in {None} \cup Search(snap[t]) \cup Pathcode
    BY <2>1, <2>2, SamePathTypes DEF Map!TypeOK, Map!PathTypes
  <2> QED
    BY <2>3, <2>4 DEF WholePCs, AllRequests, WholeResults
<1> QED
  BY <1>1, <1>2

LEMMA WholeTypes ==
  ASSUME WholeInv, InSegment
  PROVE  WholeTypeOK
<1>1. SeenInv
  BY DEF WholeInv
<1>2. \A b \in DOMAIN buckets : b \in Word /\ buckets[b] \in [Slots -> Entry \cup {Free}]
  <2>1. Bits(hashpower) \subseteq Bits(HashBits)
    BY <1>1, TableTypes, MapAssumption, IndexAssumption, WholeAssumption DEF InSegment, Bits
  <2> QED
    BY <1>1, <2>1, TableTypes DEF Buckets, hashmask, Word
<1>3. /\ pc \in [Threads -> WholePCs]
      /\ req \in [Threads -> AllRequests \cup {None}]
      /\ snap \in [Threads -> Nat]
      /\ want \in [Threads -> SUBSET Locks]
      /\ sum \in [Threads -> Counts]
      /\ res \in [Threads -> WholeResults \cup {None}]
  BY <1>1, ThreadTypes DEF SeenInv, ThreadFcns, IsFcn
<1>4. PathTypes
  <2>1. DOMAIN path = Threads /\ DOMAIN bfs = Threads
    BY <1>1 DEF SeenInv, ThreadFcns, IsFcn
  <2> QED
    BY <1>1, <2>1, ThreadTypes DEF PathTypes
<1> QED
  BY <1>1, <1>2, <1>3, <1>4, TableTypes DEF WholeTypeOK, SeenInv, LocksTyped, OwnerOK

\* Every variable keeps its type, and an iterator that is valid points to an
\* item, whatever the owner of the table and the other threads do.
THEOREM WholeTypesHold == CarefulSpec => []WholeTypeOK
<1>1. WholeInit => InSegment
  BY MapAssumption DEF WholeInit, Init, InSegment
<1>2. CarefulSpec => []InSegment
  BY <1>1, StaysInSegment, WholeProtocol, PTL DEF CarefulSpec
<1> QED
  BY <1>2, WholeTypes, WholeProtocol, PTL
=============================================================================
