-------------------------- MODULE CuckooMap_proofs --------------------------
(***************************************************************************)
(* The locking protocol of the hash table, proved for every number of      *)
(* threads, keys, slots and locks: the invariant IndInv is inductive, and  *)
(* the typing and locking properties of CuckooMap follow from it.          *)
(***************************************************************************)
EXTENDS CuckooMap, FiniteSetTheorems, SequenceTheorems, TLAPS

ThreadOK(t) == RequestOK(t) /\ HoldingOK(t) /\ ExpansionOK(t)

\* A step of thread t leaves what thread u does alone.
LeavesAlone(u) ==
  /\ pc'[u] = pc[u] /\ req'[u] = req[u] /\ snap'[u] = snap[u] /\ want'[u] = want[u]
  /\ path'[u] = path[u] /\ bfs'[u] = bfs[u]

----------------------------------------------------------------------------
(* The index functions, and what a thread computes with them.              *)

LEMMA IndexTypes ==
  /\ \A hp, hv : index_hash(hp, hv) \in Buckets(hp)
  /\ \A hp, tag, b : alt_index(hp, tag, b) \in Buckets(hp)
  /\ \A b : lock_ind(b) \in Locks
BY DEF index_hash, alt_index, Buckets, hashmask, lock_ind, Locks

LEMMA WantedAreLocks ==
  /\ \A t : first(t) \in Buckets(snap[t]) /\ second(t) \in Buckets(snap[t])
  /\ \A B : LocksOf(B) \subseteq Locks
  /\ \A t, p : MoveLocks(t, p) \subseteq Locks
  /\ \A t : LocksWanted(t) \subseteq Locks
BY IndexTypes DEF first, second, LocksOf, MoveLocks, LocksWanted

LEMMA SomeLockWanted ==
  /\ \A t, p : MoveLocks(t, p) # {}
  /\ \A t : LocksWanted(t) # {}
<1>1. \A B : B # {} => LocksOf(B) # {}
  BY DEF LocksOf
<1>2. ASSUME NEW t, NEW p PROVE MoveLocks(t, p) # {}
  <2>1. CASE Len(p) = 1
    BY <1>1, <2>1 DEF MoveLocks
  <2>2. CASE Len(p) = 2
    BY <1>1, <2>2 DEF MoveLocks
  <2>3. CASE Len(p) # 1 /\ Len(p) # 2
    BY <1>1, <2>3 DEF MoveLocks
  <2> QED
    BY <2>1, <2>2, <2>3
<1> QED
  BY <1>1, <1>2 DEF LocksWanted

----------------------------------------------------------------------------
(* The locks held after a lock was taken or locks were released.           *)

LEMMA HeldAfterUnlock ==
  ASSUME TypeOK, NEW t \in Threads, locks' = Unlocked(t)
  PROVE  /\ locks' \in [Locks -> Threads \cup {None}]
         /\ LocksHeld(t)' = {}
         /\ \A u \in Threads \ {t} : LocksHeld(u)' = LocksHeld(u)
BY MapAssumption DEF TypeOK, Unlocked, LocksHeld

LEMMA HeldAfterTake ==
  ASSUME TypeOK, NEW t \in Threads, TakeLowest(t)
  PROVE  /\ locks' \in [Locks -> Threads \cup {None}]
         /\ want' \in [Threads -> SUBSET Locks]
         /\ \E l \in want[t] :
              /\ want'[t] = want[t] \ {l}
              /\ LocksHeld(t)' = LocksHeld(t) \cup {l}
         /\ \A u \in Threads \ {t} : LocksHeld(u)' = LocksHeld(u) /\ want'[u] = want[u]
         /\ InOrder(t) => InOrder(t)'
<1>1. PICK l \in Lowest(want[t]) :
        /\ locks[l] = None
        /\ locks' = [locks EXCEPT ![l] = t]
        /\ want' = [want EXCEPT ![t] = @ \ {l}]
  BY DEF TakeLowest
<1>2. l \in want[t] /\ l \in Locks
  BY <1>1 DEF Lowest, TypeOK
<1>3. LocksHeld(t)' = LocksHeld(t) \cup {l}
  BY <1>1, <1>2, MapAssumption DEF TypeOK, LocksHeld
<1>4. \A u \in Threads \ {t} : LocksHeld(u)' = LocksHeld(u)
  BY <1>1, <1>2, MapAssumption DEF TypeOK, LocksHeld
<1>5. want'[t] = want[t] \ {l}
  BY <1>1 DEF TypeOK
<1>6. InOrder(t) => InOrder(t)'
  BY <1>1, <1>3, <1>5 DEF InOrder, Lowest
<1> QED
  BY <1>1, <1>2, <1>3, <1>4, <1>5, <1>6 DEF TypeOK

----------------------------------------------------------------------------
(* A thread keeps its invariant while another one takes a step.            *)

LEMMA OthersKeep ==
  ASSUME IndInv, NEW t \in Threads, NEW u \in Threads \ {t},
         LeavesAlone(u), LocksHeld(u)' = LocksHeld(u),
         expansion' = u <=> expansion = u,
         hashpower' = hashpower \/ (expansion = t /\ LocksHeld(u) = {})
  PROVE  ThreadOK(u)'
<1>1. first(u)' = first(u) /\ second(u)' = second(u)
  BY DEF LeavesAlone, first, second
<1>2. LocksWanted(u)' = LocksWanted(u)
  BY <1>1 DEF LeavesAlone, LocksWanted, MoveLocks, LocksOf
<1>3. ThreadOK(u)
  BY DEF IndInv, ThreadOK
<1>4. RequestOK(u)'
  BY <1>1, <1>3 DEF ThreadOK, RequestOK, LeavesAlone
<1>5. HoldingOK(u)'
  BY <1>2, <1>3 DEF ThreadOK, HoldingOK, LeavesAlone, InOrder
<1>6. ExpansionOK(u)'
  <2>1. pc[u] \in Expanding <=> expansion = u
    BY <1>3 DEF ThreadOK, ExpansionOK
  <2>2. pc[u] \in Expanding => hashpower' = hashpower
    BY <2>1
  <2> QED
    BY <1>3, <2>1, <2>2 DEF ThreadOK, ExpansionOK, LeavesAlone, Expanding
<1> QED
  BY <1>4, <1>5, <1>6 DEF ThreadOK

\* What has to be shown of a step of thread t.
LEMMA StepKeeps ==
  ASSUME IndInv, NEW t \in Threads, TypeOK', ThreadOK(t)',
         \A u \in Threads \ {t} : LeavesAlone(u) /\ LocksHeld(u)' = LocksHeld(u),
         expansion' = expansion \/ {expansion, expansion'} = {t, None},
         \/ hashpower' = hashpower
         \/ expansion = t /\ \A u \in Threads \ {t} : LocksHeld(u) = {}
  PROVE  IndInv'
<1>1. ASSUME NEW u \in Threads \ {t} PROVE ThreadOK(u)'
  <2>1. expansion' = u <=> expansion = u
    BY MapAssumption
  <2> QED
    BY <2>1, OthersKeep
<1> QED
  BY <1>1 DEF IndInv, ThreadOK

\* The types of paths and searches do not depend on anything else.
LEMMA SamePaths ==
  ASSUME TypeOK, UNCHANGED <<path, bfs, snap>>
  PROVE  PathTypes'
BY DEF TypeOK, PathTypes

\* The locks of every thread stay the same while the locks do.
LEMMA SameLocks ==
  ASSUME locks' = locks
  PROVE  \A u \in Threads : LocksHeld(u)' = LocksHeld(u)
BY DEF LocksHeld

----------------------------------------------------------------------------
(* Calls, returns and locking.                                             *)

LEMMA PathReset ==
  ASSUME TypeOK, NEW t \in Threads,
         path' = [path EXCEPT ![t] = <<>>], bfs' = [bfs EXCEPT ![t] = None],
         \A u \in Threads \ {t} : snap'[u] = snap[u]
  PROVE  PathTypes'
<1>1. DOMAIN path' = Threads /\ DOMAIN bfs' = Threads
  BY DEF TypeOK, PathTypes
<1>2. path'[t] \in Seq(CuckooRecord(snap'[t])) /\ bfs'[t] = None
  BY EmptySeq DEF TypeOK, PathTypes
<1>3. ASSUME NEW u \in Threads \ {t}
      PROVE  /\ path'[u] \in Seq(CuckooRecord(snap'[u]))
             /\ bfs'[u] \in {None} \cup Search(snap'[u]) \cup Pathcode
  BY DEF TypeOK, PathTypes
<1> QED
  BY <1>1, <1>2, <1>3 DEF PathTypes

LEMMA CallKeeps ==
  ASSUME IndInv, NEW t \in Threads, NEW r \in Requests, Call(t, r)
  PROVE  IndInv'
<1> USE DEF Call, Goto, table
<1>1. TypeOK'
  BY SamePaths DEF IndInv, TypeOK, PCs
<1>2. req'[t] = r /\ pc'[t] = (IF r \in CountRequests THEN "scan" ELSE "snapshot")
  BY DEF IndInv, TypeOK
<1>3. path[t] = <<>>
  BY DEF IndInv, RequestOK, Call
<1>4. ThreadOK(t)'
  BY <1>2, <1>3, SameLocks
  DEF IndInv, ThreadOK, RequestOK, HoldingOK, ExpansionOK, Lockless, Expanding, Requests
<1> QED
  BY <1>1, <1>4, SameLocks, StepKeeps DEF LeavesAlone, IndInv, TypeOK, PathTypes

LEMMA ReturnKeeps ==
  ASSUME IndInv, NEW t \in Threads, Return(t)
  PROVE  IndInv'
<1> USE DEF Return, Goto, table
<1>1. TypeOK'
  <2>1. PathTypes'
    BY PathReset DEF IndInv, TypeOK
  <2> QED
    BY <2>1, MapAssumption DEF IndInv, TypeOK, PCs, Counts
<1>2. pc'[t] = "idle" /\ path'[t] = <<>>
  BY DEF IndInv, TypeOK, PathTypes
<1>3. ThreadOK(t)'
  BY <1>2, SameLocks
  DEF IndInv, ThreadOK, RequestOK, HoldingOK, ExpansionOK, Lockless, Expanding
<1> QED
  BY <1>1, <1>3, SameLocks, StepKeeps DEF LeavesAlone, IndInv, TypeOK, PathTypes

LEMMA SnapshotKeeps ==
  ASSUME IndInv, NEW t \in Threads, Snapshot(t)
  PROVE  IndInv'
<1> USE DEF Snapshot, Goto, table
<1>1. want'[t] = LocksOf({first(t), second(t)})' /\ LocksOf({first(t), second(t)})' # {}
  BY DEF IndInv, TypeOK, LocksOf, BucketsOf, first, second
<1>2. TypeOK'
  <2>1. PathTypes'
    BY PathReset DEF IndInv, TypeOK
  <2> QED
    BY <1>1, <2>1, WantedAreLocks DEF IndInv, TypeOK, PCs
<1>3. pc'[t] = "lock" /\ path'[t] = <<>> /\ req' = req
  BY DEF IndInv, TypeOK, PathTypes
<1>4. LocksHeld(t)' = {}
  BY SameLocks DEF IndInv, HoldingOK, Lockless
<1>5. LocksWanted(t)' = want'[t]
  BY <1>1, <1>3 DEF LocksWanted
<1>6. ThreadOK(t)'
  BY <1>1, <1>3, <1>4, <1>5
  DEF IndInv, ThreadOK, RequestOK, HoldingOK, ExpansionOK, Lockless, Expanding, InOrder
<1> QED
  BY <1>2, <1>6, SameLocks, StepKeeps DEF LeavesAlone, IndInv, TypeOK, PathTypes

LEMMA LockBucketKeeps ==
  ASSUME IndInv, NEW t \in Threads, LockBucket(t)
  PROVE  IndInv'
<1> USE DEF LockBucket, Goto
<1>1. TypeOK'
  BY HeldAfterTake, SamePaths DEF IndInv, TypeOK, PCs
<1>2. /\ want'[t] # {} => pc'[t] = "lock"
      /\ want'[t] = {} => pc'[t] = (IF path[t] = <<>> THEN "critical" ELSE "move")
  BY DEF IndInv, TypeOK
<1>3. LocksWanted(t)' = LocksWanted(t)
  BY DEF LocksWanted, MoveLocks, LocksOf, first, second
<1>4. LocksHeld(t)' \cup want'[t] = LocksWanted(t)
  BY HeldAfterTake DEF IndInv, HoldingOK
<1>5. snap'[t] = hashpower'
  BY DEF IndInv, HoldingOK
<1>6. RequestOK(t)'
  BY <1>2 DEF IndInv, RequestOK, Expanding, first, second
<1>7. HoldingOK(t)'
  BY <1>2, <1>3, <1>4, <1>5, HeldAfterTake DEF IndInv, HoldingOK, Lockless
<1>8. ExpansionOK(t)'
  BY <1>2 DEF IndInv, ExpansionOK, Expanding
<1> QED
  BY <1>1, <1>6, <1>7, <1>8, HeldAfterTake, StepKeeps DEF ThreadOK, LeavesAlone, IndInv, TypeOK

LEMMA HashpowerChangedKeeps ==
  ASSUME IndInv, NEW t \in Threads, HashpowerChanged(t)
  PROVE  IndInv'
<1> USE DEF HashpowerChanged, Goto, table
<1>1. TypeOK'
  BY PathReset DEF IndInv, TypeOK, PCs
<1>2. pc'[t] = "snapshot" /\ path'[t] = <<>>
  BY DEF IndInv, TypeOK, PathTypes
<1>3. LocksHeld(t)' = {}
  BY SameLocks DEF IndInv, HoldingOK, Lockless
<1>4. req[t] \in KeyRequests \cup ValRequests
  BY DEF IndInv, RequestOK
<1>5. ThreadOK(t)'
  BY <1>2, <1>3, <1>4
  DEF IndInv, ThreadOK, RequestOK, HoldingOK, ExpansionOK, Lockless, Expanding
<1> QED
  BY <1>1, <1>5, SameLocks, StepKeeps DEF LeavesAlone, IndInv, TypeOK, PathTypes

----------------------------------------------------------------------------
(* The operations under the locks of the key's buckets.                    *)

LEMMA SnapIsCurrent ==
  ASSUME IndInv, NEW t \in Threads, pc[t] \in {"critical", "move", "place"}
  PROVE  /\ snap[t] = hashpower
         /\ first(t) \in Buckets(hashpower) /\ second(t) \in Buckets(hashpower)
<1>1. LocksHeld(t) = LocksWanted(t)
  BY DEF IndInv, HoldingOK
<1>2. LocksWanted(t) # {}
  BY SomeLockWanted
<1> QED
  BY <1>1, <1>2, WantedAreLocks DEF IndInv, HoldingOK

LEMMA FindType ==
  ASSUME IndInv, NEW t \in Threads, pc[t] \in {"critical", "move", "place"},
         NEW p \in cuckoo_find(t)
  PROVE  /\ p[1] \in {first(t), second(t)} /\ p[2] \in Slots
         /\ buckets[p[1]][p[2]] \in Entry
BY SnapIsCurrent DEF cuckoo_find, SlotsOf, occupied, IndInv, TypeOK

LEMMA PutType ==
  ASSUME TypeOK, NEW b, NEW s, NEW e \in Entry \cup {Free}, Put(b, s, e)
  PROVE  buckets' \in [Buckets(hashpower) -> [Slots -> Entry \cup {Free}]]
BY DEF TypeOK, Put

LEMMA CountType ==
  ASSUME TypeOK, NEW l \in Locks, NEW d \in Int, Count(l, d)
  PROVE  counter' \in [Locks -> Counts]
<1>1. \A c \in Counts : (c + d) % CounterMod \in Counts
  BY MapAssumption DEF Counts
<1> QED
  BY <1>1 DEF TypeOK, Count

LEMMA NewEntryType ==
  ASSUME NEW t \in Threads, req[t] \in ValRequests
  PROVE  NewEntry(t) \in Entry
BY DEF ValRequests, NewEntry, Entry

\* Whatever an operation does under its locks, it releases them and returns.
LEMMA FinishKeeps ==
  ASSUME IndInv, NEW t \in Threads, pc[t] \in {"critical", "place"},
         NEW r \in Results, Finish(t, r), locks' = Unlocked(t),
         buckets' \in [Buckets(hashpower) -> [Slots -> Entry \cup {Free}]],
         counter' \in [Locks -> Counts],
         UNCHANGED <<hashpower, expansion, req, snap, want, path, bfs, sum>>
  PROVE  IndInv'
<1> USE DEF Finish, Goto
<1>1. TypeOK'
  BY SamePaths, HeldAfterUnlock DEF IndInv, TypeOK, PCs
<1>2. pc'[t] = "return" /\ LocksHeld(t)' = {}
  BY HeldAfterUnlock DEF IndInv, TypeOK
<1>3. ThreadOK(t)'
  BY <1>2
  DEF IndInv, ThreadOK, RequestOK, HoldingOK, ExpansionOK, Lockless, Expanding, first, second
<1> QED
  BY <1>1, <1>3, HeldAfterUnlock, StepKeeps DEF LeavesAlone, IndInv, TypeOK

LEMMA FindKeeps ==
  ASSUME IndInv, NEW t \in Threads, Find(t)
  PROVE  IndInv'
<1> USE DEF Find, InCritical, table
<1>1. CASE \E p \in cuckoo_find(t) : Finish(t, <<"found", buckets[p[1]][p[2]].val>>)
  <2>1. PICK p \in cuckoo_find(t) : Finish(t, <<"found", buckets[p[1]][p[2]].val>>)
    BY <1>1
  <2>2. <<"found", buckets[p[1]][p[2]].val>> \in Results
    BY FindType DEF Entry, Results
  <2> QED
    BY <2>1, <2>2, FinishKeeps DEF IndInv, TypeOK
<1>2. CASE Finish(t, <<"false">>)
  BY <1>2, FinishKeeps DEF IndInv, TypeOK, Results
<1> QED
  BY <1>1, <1>2

LEMMA EraseKeeps ==
  ASSUME IndInv, NEW t \in Threads, Erase(t)
  PROVE  IndInv'
<1> USE DEF Erase, InCritical
<1>1. ASSUME NEW p \in cuckoo_find(t), Put(p[1], p[2], Free), Count(lock_ind(p[1]), -1),
             Finish(t, <<"true">>)
      PROVE  IndInv'
  BY <1>1, PutType, CountType, IndexTypes, FinishKeeps DEF IndInv, Results
<1>2. CASE Finish(t, <<"false">>) /\ UNCHANGED <<buckets, counter>>
  BY <1>2, FinishKeeps DEF IndInv, TypeOK, Results
<1> QED
  BY <1>1, <1>2

LEMMA UpdateKeeps ==
  ASSUME IndInv, NEW t \in Threads, Update(t)
  PROVE  IndInv'
<1> USE DEF Update, InCritical
<1>1. NewEntry(t) \in Entry
  BY NewEntryType DEF IndInv, RequestOK, KeyRequests
<1>2. ASSUME NEW p \in cuckoo_find(t), Put(p[1], p[2], NewEntry(t)), Finish(t, <<"true">>)
      PROVE  IndInv'
  BY <1>1, <1>2, PutType, FinishKeeps DEF IndInv, TypeOK, Results
<1>3. CASE Finish(t, <<"false">>) /\ UNCHANGED buckets
  BY <1>3, FinishKeeps DEF IndInv, TypeOK, Results
<1> QED
  BY <1>2, <1>3

\* The two ways an insert ends.
LEMMA InsertEnds ==
  ASSUME IndInv, NEW t \in Threads, pc[t] \in {"critical", "place"}, req[t] \in ValRequests,
         OnDuplicate(t) \/ \E b, s : add_to_bucket(t, b, s),
         UNCHANGED <<hashpower, expansion, req, snap, want, path, bfs, sum>>
  PROVE  IndInv'
<1>1. NewEntry(t) \in Entry
  BY NewEntryType
<1>2. CASE OnDuplicate(t)
  BY <1>1, <1>2, PutType, FinishKeeps DEF OnDuplicate, IndInv, TypeOK, Results
<1>3. ASSUME NEW b, NEW s, add_to_bucket(t, b, s)
      PROVE  IndInv'
  BY <1>1, <1>3, PutType, CountType, IndexTypes, FinishKeeps
  DEF add_to_bucket, IndInv, Results
<1> QED
  BY <1>2, <1>3

LEMMA InsertKeeps ==
  ASSUME IndInv, NEW t \in Threads, Insert(t)
  PROVE  IndInv'
BY InsertEnds DEF Insert, Inserting, IndInv, RequestOK, KeyRequests

LEMMA CopyThrowsKeeps ==
  ASSUME IndInv, NEW t \in Threads, CopyThrows(t)
  PROVE  IndInv'
BY FinishKeeps DEF CopyThrows, IndInv, TypeOK, Results

LEMMA PlaceKeeps ==
  ASSUME IndInv, NEW t \in Threads, Place(t)
  PROVE  IndInv'
BY InsertEnds DEF Place, IndInv, RequestOK

----------------------------------------------------------------------------
(* The search for a cuckoo path and the moves along it.                    *)

LEMMA PathChange ==
  ASSUME TypeOK, NEW t \in Threads, NEW p \in Seq(CuckooRecord(snap[t])),
         NEW x \in {None} \cup Search(snap[t]) \cup Pathcode,
         path' = [path EXCEPT ![t] = p], bfs' = [bfs EXCEPT ![t] = x], snap' = snap
  PROVE  PathTypes' /\ path'[t] = p /\ bfs'[t] = x
BY DEF TypeOK, PathTypes

LEMMA SearchStarts ==
  ASSUME IndInv, NEW t \in Threads, pc[t] \in {"critical", "move"}, req[t] \in ValRequests,
         StartSearch(t), locks' = Unlocked(t),
         UNCHANGED <<hashpower, buckets, counter, expansion, req, snap, want, sum, res>>
  PROVE  IndInv'
<1> USE DEF Goto
<1> DEFINE x == [x |-> [bucket |-> first(t), from |-> 0, slots |-> <<>>],
                 q |-> <<[bucket |-> second(t), from |-> 1, slots |-> <<>>]>>,
                 i |-> 0]
<1>1. x \in Search(snap[t])
  <2>1. <<>> \in Seq(Slots)
    BY EmptySeq
  <2>2. /\ [bucket |-> first(t), from |-> 0, slots |-> <<>>] \in b_slot(snap[t])
        /\ [bucket |-> second(t), from |-> 1, slots |-> <<>>] \in b_slot(snap[t])
    BY <2>1, WantedAreLocks DEF b_slot
  <2>3. <<[bucket |-> second(t), from |-> 1, slots |-> <<>>]>> \in Seq(b_slot(snap[t]))
    BY <2>2
  <2>4. 0 \in Slots
    BY MapAssumption DEF Slots
  <2> QED
    BY <2>2, <2>3, <2>4 DEF Search
<1>2. PathTypes' /\ path'[t] = <<>> /\ bfs'[t] = x
  BY <1>1, EmptySeq, PathChange DEF StartSearch, IndInv
<1> HIDE DEF x
<1>3. TypeOK'
  BY <1>2, HeldAfterUnlock DEF IndInv, TypeOK, PCs, StartSearch
<1>4. pc'[t] = "search" /\ LocksHeld(t)' = {}
  BY HeldAfterUnlock DEF IndInv, TypeOK, StartSearch
<1>5. ThreadOK(t)'
  BY <1>1, <1>2, <1>4
  DEF IndInv, ThreadOK, RequestOK, HoldingOK, ExpansionOK, Lockless, Expanding
<1> QED
  BY <1>3, <1>5, HeldAfterUnlock, StepKeeps
  DEF LeavesAlone, IndInv, TypeOK, PathTypes, StartSearch

LEMMA RunCuckooKeeps ==
  ASSUME IndInv, NEW t \in Threads, RunCuckoo(t)
  PROVE  IndInv'
BY SearchStarts DEF RunCuckoo, Inserting, IndInv, RequestOK, KeyRequests

LEMMA MoveFailsKeeps ==
  ASSUME IndInv, NEW t \in Threads, MoveFails(t)
  PROVE  IndInv'
BY SearchStarts DEF MoveFails, IndInv, RequestOK

LEMMA SearchOnType ==
  ASSUME NEW hp, NEW x \in b_slot(hp), NEW q \in Seq(b_slot(hp)), NEW i \in Nat
  PROVE  SearchOn(x, q, i) \in {None} \cup Search(hp)
<1>1. CASE i < SlotPerBucket
  BY <1>1, MapAssumption DEF SearchOn, Search, Slots
<1>2. CASE ~(i < SlotPerBucket) /\ q # <<>>
  <2>1. Head(q) \in b_slot(hp) /\ Tail(q) \in Seq(b_slot(hp))
    BY <1>2, HeadTailProperties
  <2>2. 0 \in Slots
    BY MapAssumption DEF Slots
  <2> QED
    BY <1>2, <2>1, <2>2 DEF SearchOn, Search
<1>3. CASE ~(i < SlotPerBucket) /\ q = <<>>
  BY <1>3 DEF SearchOn
<1> QED
  BY <1>1, <1>2, <1>3

LEMMA SlotSearchKeeps ==
  ASSUME IndInv, NEW t \in Threads, SlotSearch(t)
  PROVE  IndInv'
<1> DEFINE x == bfs[t].x
           slot == (starting_slot(x) + bfs[t].i) % SlotPerBucket
           slots == Append(x.slots, slot)
           y == [bucket |-> alt_index(snap[t], partial_key(Hash[buckets[x.bucket][slot].key]),
                                      x.bucket),
                 from |-> x.from, slots |-> slots]
           q == IF MayExtend(x)
                THEN Append(bfs[t].q, y) ELSE bfs[t].q
           on == SearchOn(x, q, bfs[t].i + 1)
           found == [from |-> x.from, slots |-> slots]
<1>0. bfs[t] \in Search(snap[t]) /\ path[t] = <<>> /\ pc[t] = "search"
  BY DEF SlotSearch, IndInv, RequestOK
<1>1. x \in b_slot(snap[t]) /\ bfs[t].q \in Seq(b_slot(snap[t])) /\ bfs[t].i \in Slots
  BY <1>0 DEF Search
<1>2. slot \in Slots
  <2>1. starting_slot(x) \in Nat
    BY <1>1, MapAssumption DEF starting_slot, b_slot, Slots
  <2> QED
    BY <1>1, <2>1, MapAssumption DEF Slots
<1>3. slots \in Seq(Slots) /\ Len(slots) > 0
  BY <1>1, <1>2, AppendProperties DEF b_slot
<1>4. y \in b_slot(snap[t])
  BY <1>1, <1>3, IndexTypes DEF b_slot
<1>5. q \in Seq(b_slot(snap[t]))
  BY <1>1, <1>4, AppendProperties
<1>6. on \in {None} \cup Search(snap[t])
  <2>1. bfs[t].i + 1 \in Nat
    BY <1>1 DEF Slots
  <2> HIDE DEF x, q
  <2> QED
    BY <1>1, <1>5, <2>1, SearchOnType
<1>7. found \in Pathcode
  BY <1>1, <1>3 DEF Pathcode, b_slot
<1>8. \/ bfs' = [bfs EXCEPT ![t] = found] /\ Goto(t, "fill")
      \/ /\ bfs' = [bfs EXCEPT ![t] = on]
         /\ IF bfs'[t] = None THEN Goto(t, "expand") ELSE UNCHANGED pc
  BY DEF SlotSearch
<1> HIDE DEF x, slot, slots, y, q, on
<1>9. UNCHANGED <<hashpower, buckets, locks, counter, expansion, req, snap, want, path, sum, res>>
  BY DEF SlotSearch, table
<1>10. PathTypes'
  BY <1>6, <1>7, <1>8, <1>9 DEF IndInv, TypeOK, PathTypes
<1>11. TypeOK'
  BY <1>8, <1>9, <1>10 DEF IndInv, TypeOK, PCs, Goto
<1>12. \/ pc'[t] = "fill" /\ bfs'[t] = found
       \/ pc'[t] = "expand"
       \/ pc'[t] = "search" /\ bfs'[t] \in Search(snap[t])
  BY <1>0, <1>6, <1>8 DEF IndInv, TypeOK, PathTypes, Goto
<1>13. RequestOK(t)'
  BY <1>0, <1>3, <1>7, <1>9, <1>12 DEF IndInv, RequestOK, Expanding, first, second
<1>14. HoldingOK(t)' /\ ExpansionOK(t)'
  BY <1>0, <1>9, <1>12, SameLocks DEF IndInv, HoldingOK, ExpansionOK, Lockless, Expanding
<1> QED
  BY <1>8, <1>9, <1>11, <1>13, <1>14, SameLocks, StepKeeps
  DEF ThreadOK, LeavesAlone, IndInv, TypeOK, PathTypes, Goto

LEMMA StartMoveType ==
  ASSUME TypeOK, NEW t \in Threads, NEW p, StartMove(t, p)
  PROVE  pc' \in [Threads -> PCs] /\ want' \in [Threads -> SUBSET Locks]
BY WantedAreLocks DEF TypeOK, StartMove, Goto, PCs

\* A thread that goes to lock the buckets of a move.
LEMMA MoveStarts ==
  ASSUME IndInv, NEW t \in Threads, NEW p, StartMove(t, p),
         pc[t] \in {"fill", "move"}, req[t] \in ValRequests, LocksHeld(t)' = {},
         p # <<>>, p[1].bucket \in {first(t), second(t)},
         UNCHANGED <<hashpower, expansion, req, snap>>
  PROVE  ThreadOK(t)'
<1> USE DEF StartMove, Goto
<1>1. pc'[t] = "lock" /\ path'[t] = p /\ want'[t] = MoveLocks(t, p)
  BY DEF IndInv, TypeOK, PathTypes
<1>2. LocksWanted(t)' = want'[t]
  BY <1>1 DEF LocksWanted, MoveLocks, LocksOf, first, second
<1>3. want'[t] # {}
  BY <1>1, SomeLockWanted
<1>4. RequestOK(t)'
  BY <1>1 DEF IndInv, RequestOK, Expanding, first, second, Requests
<1>5. HoldingOK(t)' /\ ExpansionOK(t)'
  BY <1>1, <1>2, <1>3 DEF IndInv, HoldingOK, ExpansionOK, Lockless, Expanding, InOrder
<1> QED
  BY <1>4, <1>5 DEF ThreadOK

LEMMA FillKeeps ==
  ASSUME IndInv, NEW t \in Threads, Fill(t)
  PROVE  IndInv'
<1> DEFINE b == FillBucket(t)
           slot == bfs[t].slots[Len(path[t]) + 1]
           last == Len(path[t]) + 1 = Len(bfs[t].slots)
           hash == IF occupied(b, slot) THEN Hash[buckets[b][slot].key] ELSE {}
           rec == [bucket |-> b, slot |-> slot, hash |-> hash]
           p == Append(path[t], rec)
<1>1. /\ pc[t] = "fill" /\ bfs[t] \in Pathcode /\ Len(path[t]) < Len(bfs[t].slots)
      /\ hashpower = snap[t] /\ path[t] \in Seq(CuckooRecord(snap[t]))
      /\ req[t] \in ValRequests
  BY DEF Fill, IndInv, RequestOK, TypeOK, PathTypes
<1>2. b \in Buckets(snap[t])
  BY IndexTypes, WantedAreLocks DEF FillBucket
<1>3. slot \in Slots
  BY <1>1 DEF Pathcode
<1>4. hash \in Word
  <2>1. occupied(b, slot) => buckets[b][slot].key \in Keys
    BY <1>1, <1>2, <1>3 DEF IndInv, TypeOK, occupied, Entry
  <2>2. {} \in Word
    BY DEF Word
  <2> QED
    BY <2>1, <2>2, MapAssumption
<1>5. rec \in CuckooRecord(snap[t])
  BY <1>2, <1>3, <1>4 DEF CuckooRecord
<1>6. /\ p \in Seq(CuckooRecord(snap[t])) /\ p # <<>>
      /\ Len(p) = Len(path[t]) + 1
      /\ path[t] # <<>> => p[1] = path[t][1]
      /\ path[t] = <<>> => p[1] = rec
  <2> HIDE DEF rec, b, slot, hash
  <2> DEFINE s == path[t]
             R == CuckooRecord(snap[t])
  <2>1. s \in Seq(R) /\ rec \in R
    BY <1>1, <1>5
  <2> HIDE DEF s, R
  <2>2. /\ Append(s, rec) \in Seq(R) /\ Append(s, rec) # <<>>
        /\ Len(Append(s, rec)) = Len(s) + 1
        /\ \A i \in 1..Len(s) : Append(s, rec)[i] = s[i]
        /\ Append(s, rec)[Len(s) + 1] = rec
    BY <2>1, AppendProperties
  <2>3. /\ s # <<>> => Len(s) \in Nat \ {0}
        /\ s = <<>> => Len(s) = 0
    BY <2>1
  <2>4. /\ s # <<>> => Append(s, rec)[1] = s[1]
        /\ s = <<>> => Append(s, rec)[1] = rec
    BY <2>2, <2>3
  <2> QED
    BY <2>2, <2>4 DEF s, R
<1>7. p[1].bucket \in {first(t), second(t)}
  <2>1. CASE path[t] = <<>>
    <3>1. b \in {first(t), second(t)}
      BY <2>1 DEF FillBucket
    <3>2. rec.bucket = b
      OBVIOUS
    <3> QED
      BY <1>6, <2>1, <3>1, <3>2
  <2>2. CASE path[t] # <<>>
    <3>1. path[t][1].bucket \in {first(t), second(t)}
      BY <1>1, <2>2 DEF IndInv, RequestOK
    <3> QED
      BY <1>6, <2>2, <3>1
  <2> QED
    BY <2>1, <2>2
<1>8. IF occupied(b, slot) /\ ~last
      THEN /\ path' = [path EXCEPT ![t] = p]
           /\ UNCHANGED <<pc, want, bfs>>
      ELSE /\ StartMove(t, p)
           /\ bfs' = [bfs EXCEPT ![t] = None]
  BY DEF Fill
<1> HIDE DEF b, slot, hash, rec, p
<1>9. UNCHANGED <<hashpower, buckets, locks, counter, expansion, req, snap, sum, res>>
  BY DEF Fill, table
<1>10. LocksHeld(t)' = {}
  BY <1>1, <1>9, SameLocks DEF IndInv, HoldingOK, Lockless
<1>11. CASE occupied(b, slot) /\ ~last
  <2>1. PathTypes' /\ path'[t] = p
    BY <1>6, <1>8, <1>9, <1>11 DEF IndInv, TypeOK, PathTypes
  <2>2. TypeOK'
    BY <1>8, <1>9, <1>11, <2>1 DEF IndInv, TypeOK
  <2>3. Len(p) < Len(bfs[t].slots)
    BY <1>1, <1>6, <1>11 DEF Pathcode
  <2>4. ThreadOK(t)'
    BY <1>1, <1>6, <1>7, <1>8, <1>9, <1>10, <1>11, <2>1, <2>3
    DEF IndInv, ThreadOK, RequestOK, HoldingOK, ExpansionOK, Lockless, Expanding,
        first, second
  <2> QED
    BY <1>8, <1>9, <1>11, <2>2, <2>4, SameLocks, StepKeeps
    DEF LeavesAlone, IndInv, TypeOK, PathTypes
<1>12. CASE ~(occupied(b, slot) /\ ~last)
  <2>1. PathTypes'
    BY <1>6, <1>8, <1>9, <1>12, PathChange DEF IndInv, StartMove
  <2>2. TypeOK'
    BY <1>8, <1>9, <1>12, <2>1, StartMoveType DEF IndInv, TypeOK
  <2>3. ThreadOK(t)'
    BY <1>1, <1>6, <1>7, <1>8, <1>9, <1>10, <1>12, MoveStarts
  <2> QED
    BY <1>8, <1>9, <1>12, <2>2, <2>3, SameLocks, StepKeeps
    DEF LeavesAlone, IndInv, TypeOK, PathTypes, StartMove, Goto
<1> QED
  BY <1>11, <1>12

LEMMA NothingToMoveKeeps ==
  ASSUME IndInv, NEW t \in Threads, NothingToMove(t)
  PROVE  IndInv'
<1> USE DEF NothingToMove, Goto, table
<1>1. TypeOK'
  BY SamePaths DEF IndInv, TypeOK, PCs
<1>2. pc'[t] = "place" /\ LocksWanted(t)' = LocksWanted(t)
  BY DEF IndInv, TypeOK, LocksWanted, MoveLocks, LocksOf, first, second
<1>3. ThreadOK(t)'
  BY <1>2, SameLocks
  DEF IndInv, ThreadOK, RequestOK, HoldingOK, ExpansionOK, Lockless, Expanding, first, second
<1> QED
  BY <1>1, <1>3, SameLocks, StepKeeps DEF LeavesAlone, IndInv, TypeOK

LEMMA MoveKeeps ==
  ASSUME IndInv, NEW t \in Threads, Move(t)
  PROVE  IndInv'
<1> DEFINE p == path[t]
           d == Len(p)
           keep == IF d = 2 THEN LocksOf({first(t), second(t)}) ELSE {}
           to == p[d]
           from == p[d - 1]
<1>1. /\ pc[t] = "move" /\ p \in Seq(CuckooRecord(hashpower)) /\ d \in Nat /\ d > 1
      /\ snap[t] = hashpower /\ req[t] \in ValRequests
      /\ LocksHeld(t) = MoveLocks(t, p)
  <2>1. pc[t] = "move" /\ d > 1
    BY DEF Move
  <2>2. snap[t] = hashpower
    BY <2>1, SnapIsCurrent
  <2>3. p \in Seq(CuckooRecord(hashpower))
    BY <2>2 DEF IndInv, TypeOK, PathTypes
  <2>4. req[t] \in ValRequests /\ p # <<>> /\ LocksHeld(t) = LocksWanted(t)
    BY <2>1 DEF IndInv, RequestOK, HoldingOK
  <2> QED
    BY <2>1, <2>2, <2>3, <2>4 DEF LocksWanted
<1>2. to \in CuckooRecord(hashpower) /\ from \in CuckooRecord(hashpower)
  BY <1>1
<1>3. /\ ~Stale(p)
      /\ buckets' = [buckets EXCEPT ![to.bucket][to.slot] = buckets[from.bucket][from.slot],
                                    ![from.bucket][from.slot] = Free]
      /\ locks' = [l \in Locks |-> IF locks[l] = t /\ l \notin keep THEN None ELSE locks[l]]
      /\ IF d = 2
         THEN /\ path' = [path EXCEPT ![t] = SubSeq(p, 1, 1)]
              /\ Goto(t, "place")
              /\ UNCHANGED want
         ELSE StartMove(t, SubSeq(p, 1, d - 1))
      /\ UNCHANGED <<hashpower, counter, expansion, req, snap, bfs, sum, res>>
  BY DEF Move
<1>4. buckets' \in [Buckets(hashpower') -> [Slots -> Entry \cup {Free}]]
  <2>1. buckets[from.bucket][from.slot] \in Entry \cup {Free}
    BY <1>2 DEF CuckooRecord, IndInv, TypeOK
  <2> HIDE DEF to, from
  <2> QED
    BY <1>2, <1>3, <2>1 DEF CuckooRecord, IndInv, TypeOK
<1>5. /\ locks' \in [Locks -> Threads \cup {None}]
      /\ LocksHeld(t)' = LocksHeld(t) \cap keep
      /\ \A u \in Threads \ {t} : LocksHeld(u)' = LocksHeld(u)
  <2> HIDE DEF keep
  <2> QED
    BY <1>3, MapAssumption DEF LocksHeld, IndInv, TypeOK
<1>6. \A n \in 1 .. d : /\ SubSeq(p, 1, n) \in Seq(CuckooRecord(hashpower))
                        /\ Len(SubSeq(p, 1, n)) = n
                        /\ SubSeq(p, 1, n)[1] = p[1]
                        /\ SubSeq(p, 1, n) # <<>>
  BY <1>1, SubSeqProperties
<1>7. p[1].bucket \in {first(t), second(t)}
  BY <1>1 DEF IndInv, RequestOK
<1>8. PathTypes'
  <2>1. PICK q \in Seq(CuckooRecord(hashpower)) : path' = [path EXCEPT ![t] = q]
    <3>1. 1 \in 1 .. d /\ d - 1 \in 1 .. d
      BY <1>1
    <3> QED
      BY <1>3, <1>6, <3>1 DEF StartMove
  <2>2. bfs' = bfs /\ snap' = snap
    BY <1>3
  <2> QED
    BY <1>1, <2>1, <2>2 DEF IndInv, TypeOK, PathTypes
<1>9. TypeOK'
  <2>1. pc' \in [Threads -> PCs] /\ want' \in [Threads -> SUBSET Locks]
    BY <1>3, StartMoveType DEF IndInv, TypeOK, Goto, PCs
  <2> QED
    BY <1>3, <1>4, <1>5, <1>8, <2>1 DEF IndInv, TypeOK
<1>10. CASE d = 2
  <2>1. pc'[t] = "place" /\ path'[t] = SubSeq(p, 1, 1)
    BY <1>3, <1>10 DEF IndInv, TypeOK, PathTypes, Goto
  <2>2. /\ Len(path'[t]) = 1 /\ path'[t] # <<>>
        /\ path'[t][1].bucket \in {first(t), second(t)}
    BY <1>1, <1>6, <1>7, <2>1
  <2>3. LocksWanted(t)' = keep
    BY <1>3, <1>10, <2>2 DEF LocksWanted, MoveLocks, LocksOf, first, second
  <2>4. keep \subseteq LocksHeld(t)
    BY <1>1, <1>10 DEF MoveLocks, LocksOf
  <2>5. RequestOK(t)'
    BY <1>1, <1>3, <2>1, <2>2 DEF IndInv, RequestOK, Expanding, first, second
  <2>6. HoldingOK(t)'
    BY <1>1, <1>3, <1>5, <2>1, <2>3, <2>4 DEF HoldingOK, Lockless
  <2>7. ExpansionOK(t)'
    BY <1>1, <1>3, <2>1 DEF IndInv, ExpansionOK, Expanding
  <2> QED
    BY <1>3, <1>5, <1>9, <1>10, <2>5, <2>6, <2>7, StepKeeps
    DEF ThreadOK, LeavesAlone, IndInv, TypeOK, PathTypes, Goto
<1>11. CASE d # 2
  <2>1. LocksHeld(t)' = {}
    BY <1>5, <1>11
  <2>2. d - 1 \in 1 .. d
    BY <1>1
  <2>3. ThreadOK(t)'
    BY <1>1, <1>3, <1>6, <1>7, <1>11, <2>1, <2>2, MoveStarts
  <2> QED
    BY <1>3, <1>5, <1>9, <1>11, <2>3, StepKeeps
    DEF LeavesAlone, IndInv, TypeOK, PathTypes, StartMove, Goto
<1> QED
  BY <1>10, <1>11

----------------------------------------------------------------------------
(* The counters and the doubling of the table.                             *)

LEMMA ScanCounterKeeps ==
  ASSUME IndInv, NEW t \in Threads, ScanCounter(t)
  PROVE  IndInv'
<1>1. PICK l \in Lowest(want[t]) :
        LET total == (sum[t] + counter[l]) % CounterMod
            done == want[t] = {l} \/ (pc[t] = "scan" /\ req[t].op = "empty" /\ counter[l] # 0)
        IN  /\ pc[t] \in {"scan", "load"}
            /\ want' = [want EXCEPT ![t] = @ \ {l}]
            /\ sum' = [sum EXCEPT ![t] = total]
            /\ IF ~done THEN UNCHANGED <<pc, res>>
               ELSE IF pc[t] = "load" THEN Goto(t, "check") /\ UNCHANGED res
               ELSE Finish(t, IF req[t].op = "size" THEN <<"size", total>>
                              ELSE <<IF counter[l] = 0 THEN "true" ELSE "false">>)
            /\ UNCHANGED <<table, req, snap, path, bfs>>
  BY DEF ScanCounter
<1> DEFINE total == (sum[t] + counter[l]) % CounterMod
           result == IF req[t].op = "size" THEN <<"size", total>>
                     ELSE <<IF counter[l] = 0 THEN "true" ELSE "false">>
<1>2. total \in Counts
  <2>1. l \in Locks
    BY <1>1 DEF Lowest, IndInv, TypeOK
  <2> QED
    BY <2>1, MapAssumption DEF IndInv, TypeOK, Counts
<1>3. result \in Results
  BY <1>2 DEF Results, CountResults
<1>4. /\ UNCHANGED <<hashpower, buckets, locks, counter, expansion, req, snap, path, bfs>>
      /\ want' = [want EXCEPT ![t] = @ \ {l}]
      /\ sum' = [sum EXCEPT ![t] = total]
      /\ \/ UNCHANGED <<pc, res>>
         \/ pc[t] = "load" /\ Goto(t, "check") /\ UNCHANGED res
         \/ pc[t] = "scan" /\ Finish(t, result)
  BY <1>1 DEF table
<1> HIDE DEF total, result
<1>5. TypeOK'
  BY <1>2, <1>3, <1>4, SamePaths DEF IndInv, TypeOK, Finish, Goto, PCs
<1>6. \/ pc[t] \in {"scan", "load"} /\ pc'[t] = pc[t]
      \/ pc[t] = "load" /\ pc'[t] = "check"
      \/ pc[t] = "scan" /\ pc'[t] = "return"
  BY <1>1, <1>4 DEF IndInv, TypeOK, Finish, Goto
<1>7. ThreadOK(t)'
  BY <1>4, <1>6, SameLocks
  DEF IndInv, ThreadOK, RequestOK, HoldingOK, ExpansionOK, Lockless, Expanding, first, second
<1> QED
  BY <1>4, <1>5, <1>7, SameLocks, StepKeeps DEF LeavesAlone, IndInv, TypeOK, Finish, Goto

LEMMA LockExpansionKeeps ==
  ASSUME IndInv, NEW t \in Threads, LockExpansion(t)
  PROVE  IndInv'
<1> USE DEF LockExpansion, Goto
<1>1. TypeOK'
  BY SamePaths, MapAssumption DEF IndInv, TypeOK, PCs, Counts
<1>2. pc'[t] = "load"
  BY DEF IndInv, TypeOK
<1>3. ThreadOK(t)'
  BY <1>2, SameLocks
  DEF IndInv, ThreadOK, RequestOK, HoldingOK, ExpansionOK, Lockless, Expanding, first, second
<1> QED
  BY <1>1, <1>3, SameLocks, StepKeeps DEF LeavesAlone, IndInv, TypeOK

LEMMA SomeLock == Locks # {} /\ {} \in Locks
BY DEF Locks

LEMMA CheckResizeKeeps ==
  ASSUME IndInv, NEW t \in Threads, CheckResize(t)
  PROVE  IndInv'
<1> USE DEF CheckResize, Goto, Finish
<1>1. TypeOK'
  <2>1. PathTypes'
    BY SamePaths DEF IndInv
  <2>2. /\ pc' \in [Threads -> PCs] /\ expansion' \in Threads \cup {None}
        /\ sum' \in [Threads -> Counts]
    BY MapAssumption DEF IndInv, TypeOK, PCs, Counts
  <2>3. /\ want' \in [Threads -> SUBSET Locks]
        /\ res' \in [Threads -> Results \cup {None}]
    BY MapAssumption DEF IndInv, TypeOK, Results
  <2> QED
    BY <2>1, <2>2, <2>3 DEF IndInv, TypeOK
<1>2. expansion = t /\ LocksHeld(t)' = {} /\ req[t] \in ValRequests
  BY SameLocks DEF IndInv, HoldingOK, RequestOK, ExpansionOK, Lockless, Expanding
<1>3. \/ pc'[t] \in {"return", "snapshot"} /\ expansion' = None
      \/ /\ pc'[t] = "lock_all" /\ want'[t] = Locks
         /\ hashpower = snap[t] /\ expansion' = expansion
  BY DEF IndInv, TypeOK
<1>4. RequestOK(t)'
  BY <1>2, <1>3 DEF IndInv, RequestOK, Expanding, first, second
<1>5. HoldingOK(t)'
  BY <1>2, <1>3 DEF HoldingOK, Lockless, InOrder
<1>6. ExpansionOK(t)'
  BY <1>2, <1>3, SomeLock, MapAssumption DEF ExpansionOK, Expanding
<1> QED
  BY <1>1, <1>2, <1>4, <1>5, <1>6, SameLocks, StepKeeps
  DEF ThreadOK, LeavesAlone, IndInv, TypeOK

LEMMA LockAllKeeps ==
  ASSUME IndInv, NEW t \in Threads, LockAll(t)
  PROVE  IndInv'
<1> USE DEF LockAll, Goto
<1>1. TypeOK'
  BY HeldAfterTake, SamePaths DEF IndInv, TypeOK, PCs
<1>2. /\ want'[t] # {} => pc'[t] = "lock_all"
      /\ want'[t] = {} => pc'[t] = "double"
  BY DEF IndInv, TypeOK
<1>3. LocksHeld(t)' \cup want'[t] = Locks
  BY HeldAfterTake DEF IndInv, ExpansionOK
<1>4. InOrder(t)'
  BY HeldAfterTake DEF IndInv, HoldingOK
<1>5. ThreadOK(t)'
  BY <1>2, <1>3, <1>4
  DEF IndInv, ThreadOK, RequestOK, HoldingOK, ExpansionOK, Lockless, Expanding, first, second
<1> QED
  BY <1>1, <1>5, HeldAfterTake, StepKeeps DEF LeavesAlone, IndInv, TypeOK

\* The array has 2^hashpower buckets.
LEMMA BucketBits ==
  ASSUME TypeOK
  PROVE  bucket_bits = hashpower /\ DOMAIN buckets = Buckets(hashpower)
<1>1. DOMAIN buckets = Buckets(hashpower)
  BY DEF TypeOK
<1>2. UNION DOMAIN buckets = 0 .. hashpower - 1
  BY <1>1 DEF Buckets, hashmask, Bits
<1>3. Cardinality(0 .. hashpower - 1) = hashpower
  BY FS_Interval DEF TypeOK
<1> QED
  BY <1>1, <1>2, <1>3 DEF bucket_bits

LEMMA DoubleKeeps ==
  ASSUME IndInv, NEW t \in Threads, Double(t)
  PROVE  IndInv'
<1> USE DEF Double, Goto
<1>1. snap[t] = hashpower /\ LocksHeld(t) = Locks /\ expansion = t
  BY DEF IndInv, ExpansionOK, Expanding
<1>2. buckets' \in [Buckets(hashpower') -> [Slots -> Entry \cup {Free}]]
  BY <1>1, BucketBits DEF IndInv, TypeOK, Doubled
<1>3. {} \in locks_to_move(snap[t]) /\ locks_to_move(snap[t]) \subseteq Locks
  BY SomeLock DEF locks_to_move
<1>4. TypeOK'
  BY <1>1, <1>2, <1>3, SamePaths DEF IndInv, TypeOK, PCs
<1>5. pc'[t] = "split" /\ want'[t] = locks_to_move(snap[t])
  BY DEF IndInv, TypeOK
<1>6. \A u \in Threads \ {t} : LocksHeld(u) = {}
  BY <1>1 DEF LocksHeld
<1>7. RequestOK(t)'
  BY <1>5 DEF IndInv, RequestOK, Expanding, first, second
<1>8. HoldingOK(t)'
  BY <1>5 DEF HoldingOK, Lockless
<1>9. ExpansionOK(t)'
  <2>1. locks_to_move(snap[t])' = locks_to_move(snap[t]) /\ LocksHeld(t)' = Locks
    BY <1>1, SameLocks DEF locks_to_move
  <2> QED
    BY <1>1, <1>3, <1>5, <2>1 DEF ExpansionOK, Expanding
<1> QED
  BY <1>1, <1>4, <1>6, <1>7, <1>8, <1>9, SameLocks, StepKeeps
  DEF ThreadOK, LeavesAlone, IndInv, TypeOK

LEMMA DoubleThrowsKeeps ==
  ASSUME IndInv, NEW t \in Threads, DoubleThrows(t)
  PROVE  IndInv'
<1> USE DEF DoubleThrows, Goto, Finish
<1>1. TypeOK'
  BY SamePaths, HeldAfterUnlock DEF IndInv, TypeOK, PCs, Results
<1>2. pc'[t] = "return" /\ LocksHeld(t)' = {} /\ expansion = t /\ expansion' = None
  BY HeldAfterUnlock DEF IndInv, TypeOK, ExpansionOK, Expanding
<1>3. ThreadOK(t)'
  BY <1>2, MapAssumption
  DEF IndInv, ThreadOK, RequestOK, HoldingOK, ExpansionOK, Lockless, Expanding, first, second
<1> QED
  BY <1>1, <1>2, <1>3, HeldAfterUnlock, StepKeeps DEF LeavesAlone, IndInv, TypeOK

\* The number of items that move is a number: there are finitely many slots
\* in the old buckets of a lock.
LEMMA FiniteItems ==
  ASSUME NEW hp \in Nat, NEW S \in SUBSET (Buckets(hp) \X Slots)
  PROVE  Cardinality(S) \in Nat
<1>1. IsFiniteSet(Bits(hp)) /\ IsFiniteSet(Slots)
  BY FS_Interval, MapAssumption DEF Bits, Slots
<1>2. IsFiniteSet(Buckets(hp))
  BY <1>1, FS_SUBSET DEF Buckets, hashmask
<1>3. IsFiniteSet(Buckets(hp) \X Slots)
  BY <1>1, <1>2, FS_Product
<1> QED
  BY <1>3, FS_Subset, FS_CardinalityType

LEMMA HalfTypes ==
  ASSUME TypeOK, NEW hp \in Nat, hashpower = hp + 1, NEW b \in Buckets(hp)
  PROVE  /\ LowerHalf(hp, b) \in [Slots -> Entry \cup {Free}]
         /\ UpperHalf(hp, b) \in [Slots -> Entry \cup {Free}]
<1>1. b \in Buckets(hashpower) /\ b \cup {hp} \in Buckets(hashpower)
  BY DEF Buckets, hashmask, Bits
<1>2. \A s \in Slots : /\ buckets[b][s] \in Entry \cup {Free}
                       /\ buckets[b \cup {hp}][s] \in Entry \cup {Free}
  BY <1>1 DEF TypeOK
<1>3. Rising(hp, b) \subseteq Slots
  BY DEF Rising
<1>4. Risen(hp, b) \in [Slots -> Entry \cup {Free}]
  BY <1>2, <1>3 DEF Risen
<1> QED
  BY <1>2, <1>3, <1>4 DEF LowerHalf, UpperHalf

LEMMA SplitTypes ==
  ASSUME TypeOK, NEW hp \in Nat, hashpower = hp + 1, NEW l \in Locks, SplitLock(hp, l)
  PROVE  /\ buckets' \in [Buckets(hashpower) -> [Slots -> Entry \cup {Free}]]
         /\ counter' \in [Locks -> Counts]
<1>1. OldBuckets(hp, l) \subseteq Buckets(hp)
  BY DEF OldBuckets
<1>2. buckets' \in [Buckets(hashpower) -> [Slots -> Entry \cup {Free}]]
  BY <1>1, HalfTypes DEF SplitLock, TypeOK
<1>3. Cardinality(RisingItems(hp, l)) \in Nat
  <2>1. RisingItems(hp, l) \in SUBSET (Buckets(hp) \X Slots)
    BY <1>1 DEF RisingItems
  <2> QED
    BY <2>1, FiniteItems
<1>4. \A c \in Counts, n \in Nat : (c - n) % CounterMod \in Counts /\ (c + n) % CounterMod \in Counts
  BY MapAssumption DEF Counts
<1>5. counter' \in [Locks -> Counts]
  BY <1>3, <1>4 DEF SplitLock, Recount, TypeOK
<1> QED
  BY <1>2, <1>5

LEMMA MoveBucketsKeeps ==
  ASSUME IndInv, NEW t \in Threads, MoveBuckets(t)
  PROVE  IndInv'
<1> USE DEF Goto
<1>1. PICK l \in want[t] : SplitLock(snap[t], l) /\ want' = [want EXCEPT ![t] = @ \ {l}]
  BY DEF MoveBuckets
<1>2. /\ l \in Locks /\ locks[l] = t /\ hashpower = snap[t] + 1 /\ snap[t] \in Nat
      /\ want[t] \subseteq locks_to_move(snap[t])
      /\ want[t] \cup (Locks \ locks_to_move(snap[t])) \subseteq LocksHeld(t)
  BY DEF MoveBuckets, IndInv, TypeOK, ExpansionOK, LocksHeld
<1>3. locks' = [locks EXCEPT ![l] = None]
  BY <1>1 DEF SplitLock
<1>4. /\ LocksHeld(t)' = LocksHeld(t) \ {l}
      /\ \A u \in Threads \ {t} : LocksHeld(u)' = LocksHeld(u)
  BY <1>2, <1>3, MapAssumption DEF LocksHeld, IndInv, TypeOK
<1>5. TypeOK'
  BY <1>1, <1>2, <1>3, SplitTypes, SamePaths DEF MoveBuckets, IndInv, TypeOK, PCs
<1>6. /\ want'[t] # {} => pc'[t] = "split"
      /\ want'[t] = {} => pc'[t] = "unlock_new"
      /\ want'[t] = want[t] \ {l}
  BY <1>1 DEF MoveBuckets, IndInv, TypeOK
<1>7. RequestOK(t)'
  BY <1>6 DEF MoveBuckets, IndInv, RequestOK, Expanding, first, second
<1>8. HoldingOK(t)'
  BY <1>6 DEF HoldingOK, Lockless
<1>9. ExpansionOK(t)'
  <2>1. locks_to_move(snap[t])' = locks_to_move(snap[t])
    BY DEF MoveBuckets, locks_to_move
  <2>2. want'[t] \cup (Locks \ locks_to_move(snap[t])) \subseteq LocksHeld(t)'
    BY <1>2, <1>4, <1>6
  <2> QED
    BY <1>2, <1>6, <2>1, <2>2 DEF MoveBuckets, IndInv, ExpansionOK, Expanding
<1> QED
  BY <1>1, <1>4, <1>5, <1>7, <1>8, <1>9, StepKeeps
  DEF MoveBuckets, ThreadOK, LeavesAlone, IndInv, TypeOK

LEMMA UnlockNewKeeps ==
  ASSUME IndInv, NEW t \in Threads, UnlockNew(t)
  PROVE  IndInv'
<1> USE DEF UnlockNew, threads
<1>1. PICK l \in Locks : locks[l] = t /\ locks' = [locks EXCEPT ![l] = None]
  OBVIOUS
<1>2. \A u \in Threads \ {t} : LocksHeld(u)' = LocksHeld(u)
  BY <1>1, MapAssumption DEF LocksHeld, IndInv, TypeOK
<1>3. TypeOK'
  BY <1>1, SamePaths DEF IndInv, TypeOK
<1>4. ThreadOK(t)'
  BY DEF IndInv, ThreadOK, RequestOK, HoldingOK, ExpansionOK, Lockless, Expanding, first, second
<1> QED
  BY <1>2, <1>3, <1>4, StepKeeps DEF LeavesAlone

LEMMA ExpandedKeeps ==
  ASSUME IndInv, NEW t \in Threads, Expanded(t)
  PROVE  IndInv'
<1> USE DEF Expanded, Goto
<1>1. TypeOK'
  BY SamePaths DEF IndInv, TypeOK, PCs
<1>2. /\ pc'[t] = "snapshot" /\ LocksHeld(t)' = {} /\ expansion = t /\ expansion' = None
      /\ req[t] \in ValRequests
  BY SameLocks DEF IndInv, TypeOK, RequestOK, ExpansionOK, Expanding
<1>3. ThreadOK(t)'
  BY <1>2, MapAssumption
  DEF IndInv, ThreadOK, RequestOK, HoldingOK, ExpansionOK, Lockless, Expanding, first, second
<1> QED
  BY <1>1, <1>2, <1>3, SameLocks, StepKeeps DEF LeavesAlone, IndInv, TypeOK
----------------------------------------------------------------------------
(* The invariant.                                                          *)

\* In the initial state every thread is idle, every lock is free and every
\* slot is empty, so the invariant of the locking protocol holds.
LEMMA InitIndInv == Init => IndInv
<1> SUFFICES ASSUME Init PROVE IndInv
  OBVIOUS
<1> USE DEF Init
<1>1. PathTypes
  BY EmptySeq DEF PathTypes
<1>2. TypeOK
  BY <1>1, MapAssumption DEF TypeOK, PCs, Counts
<1>3. \A t \in Threads : LocksHeld(t) = {}
  BY MapAssumption DEF LocksHeld
<1>4. \A t \in Threads : ThreadOK(t)
  BY <1>3, MapAssumption DEF ThreadOK, RequestOK, HoldingOK, ExpansionOK, Lockless, Expanding
<1> QED
  BY <1>2, <1>4 DEF IndInv, ThreadOK

LEMMA OperateKeeps ==
  ASSUME IndInv, NEW t \in Threads, Operate(t)
  PROVE  IndInv'
BY FindKeeps, EraseKeeps, UpdateKeeps, InsertKeeps, CopyThrowsKeeps DEF Operate

LEMMA CuckooKeeps ==
  ASSUME IndInv, NEW t \in Threads, Cuckoo(t)
  PROVE  IndInv'
BY RunCuckooKeeps, SlotSearchKeeps, FillKeeps, MoveFailsKeeps, NothingToMoveKeeps,
   MoveKeeps, PlaceKeeps DEF Cuckoo

LEMMA ExpandKeeps ==
  ASSUME IndInv, NEW t \in Threads, Expand(t)
  PROVE  IndInv'
BY LockExpansionKeeps, CheckResizeKeeps, LockAllKeeps, DoubleKeeps, DoubleThrowsKeeps,
   MoveBucketsKeeps, UnlockNewKeeps, ExpandedKeeps DEF Expand

LEMMA StutterKeeps == IndInv /\ UNCHANGED vars => IndInv'
<1> SUFFICES ASSUME IndInv, UNCHANGED vars PROVE IndInv'
  OBVIOUS
<1> USE DEF vars, table, threads
<1>1. TypeOK'
  BY SamePaths DEF IndInv, TypeOK
<1>2. ASSUME NEW t \in Threads PROVE RequestOK(t)' /\ HoldingOK(t)' /\ ExpansionOK(t)'
  <2>1. first(t)' = first(t) /\ second(t)' = second(t)
    BY DEF first, second
  <2>2. LocksWanted(t)' = LocksWanted(t) /\ LocksHeld(t)' = LocksHeld(t)
    BY <2>1 DEF LocksWanted, MoveLocks, LocksOf, LocksHeld
  <2> QED
    BY <2>1, <2>2 DEF IndInv, RequestOK, HoldingOK, ExpansionOK, InOrder
<1> QED
  BY <1>1, <1>2 DEF IndInv

\* Every step of the table keeps the invariant of the locking protocol.
LEMMA NextIndInv == IndInv /\ [Next]_vars => IndInv'
<1> SUFFICES ASSUME IndInv, Next PROVE IndInv'
  BY StutterKeeps
<1>1. PICK t \in Threads : (\E r \in Requests : Call(t, r)) \/ Step(t)
  BY DEF Next
<1>2. CASE \E r \in Requests : Call(t, r)
  BY <1>2, CallKeeps
<1>3. CASE Step(t)
  BY <1>3, SnapshotKeeps, LockBucketKeeps, HashpowerChangedKeeps, OperateKeeps,
     CuckooKeeps, ScanCounterKeeps, ExpandKeeps, ReturnKeeps DEF Step
<1> QED
  BY <1>1, <1>2, <1>3

\* The invariant of the locking protocol holds for every number of threads,
\* keys, slots per bucket and locks, and for every hash function.
THEOREM Protocol == Spec => []IndInv
BY InitIndInv, NextIndInv, PTL DEF Spec

\* Every variable keeps its type; in particular the bucket array always has
\* the 2^hashpower buckets that indices are computed for.
THEOREM TypeCorrect == Spec => []TypeOK
<1>1. IndInv => TypeOK
  BY DEF IndInv
<1> QED
  BY <1>1, Protocol, PTL

LEMMA LocksPinNow == IndInv => LocksPinHashpower
BY DEF IndInv, HoldingOK, LocksPinHashpower

\* A thread that holds the lock of a bucket works with the current hashpower,
\* although lock_two, lock_three and lock_one check it under the first lock
\* only (check_hashpower), and it holds the locks of all its buckets.
THEOREM LocksPin == Spec => []LocksPinHashpower
BY LocksPinNow, Protocol, PTL

\* Every thread takes spinlocks in increasing order of their indices, whether
\* it takes two, three or all of them, so no circle of threads waits.
THEOREM LocksInOrder == Spec => []LockOrder
<1>1. IndInv => LockOrder
  BY DEF IndInv, HoldingOK, LockOrder
<1> QED
  BY <1>1, Protocol, PTL

----------------------------------------------------------------------------
(* Writes are under locks.                                                 *)

\* What WritesAreLocked says of a step of thread t.
WritesLocked(t) ==
  /\ \A b \in DOMAIN buckets : buckets'[b] # buckets[b] => locks[lock_ind(b)] = t
  /\ \A l \in Locks : counter'[l] # counter[l] => locks[l] = t

\* A thread that works on its key's buckets holds both their locks.
LEMMA HoldsBoth ==
  ASSUME IndInv, NEW t \in Threads, NEW b \in {first(t), second(t)},
         pc[t] = "critical" \/ (pc[t] \in {"move", "place"} /\ Len(path[t]) \in {1, 2})
  PROVE  locks[lock_ind(b)] = t
<1>1. lock_ind(b) \in LocksOf({first(t), second(t)})
  BY DEF LocksOf
<1>2. LocksHeld(t) = LocksWanted(t)
  BY DEF IndInv, HoldingOK
<1>3. CASE pc[t] = "critical"
  <2>1. path[t] = <<>>
    BY <1>3 DEF IndInv, RequestOK
  <2> QED
    BY <1>1, <1>2, <2>1 DEF LocksWanted, LocksHeld
<1>4. CASE pc[t] \in {"move", "place"} /\ Len(path[t]) \in {1, 2}
  <2>1. path[t] # <<>>
    BY <1>4, Len(<<>>) = 0
  <2>2. LocksWanted(t) = MoveLocks(t, path[t])
    BY <2>1 DEF LocksWanted
  <2>3. LocksOf({first(t), second(t)}) \subseteq MoveLocks(t, path[t])
    BY <1>4 DEF MoveLocks, LocksOf
  <2> QED
    BY <1>1, <1>2, <2>2, <2>3 DEF LocksHeld
<1> QED
  BY <1>3, <1>4

\* A step that writes one slot and one counter.
LEMMA PutWrites ==
  ASSUME IndInv, NEW t \in Threads, NEW b, NEW s, NEW e, NEW d \in Int,
         locks[lock_ind(b)] = t,
         Put(b, s, e) \/ buckets' = buckets,
         Count(lock_ind(b), d) \/ counter' = counter
  PROVE  WritesLocked(t)
<1>1. \A c \in DOMAIN buckets : c # b => buckets'[c] = buckets[c]
  BY DEF Put
<1>2. \A l \in Locks : l # lock_ind(b) => counter'[l] = counter[l]
  BY DEF Count, IndInv, TypeOK
<1> QED
  BY <1>1, <1>2 DEF WritesLocked

LEMMA OperateWrites ==
  ASSUME IndInv, NEW t \in Threads, Operate(t)
  PROVE  WritesLocked(t)
<1>1. ASSUME pc[t] = "critical", NEW p \in cuckoo_find(t)
      PROVE  locks[lock_ind(p[1])] = t
  BY <1>1, HoldsBoth, FindType
<1>2. CASE Find(t) \/ CopyThrows(t)
  BY <1>2 DEF Find, CopyThrows, WritesLocked
<1>3. CASE Erase(t)
  BY <1>1, <1>3, PutWrites DEF Erase, InCritical, WritesLocked
<1>4. CASE Update(t)
  BY <1>1, <1>4, PutWrites DEF Update, InCritical, WritesLocked
<1>5. CASE Insert(t)
  <2>1. CASE OnDuplicate(t)
    <3>1. pc[t] = "critical" /\ counter' = counter
      BY <1>5, <2>1 DEF Insert, Inserting, OnDuplicate
    <3>2. PICK p \in cuckoo_find(t) :
            IF req[t].op = "upsert" THEN Put(p[1], p[2], NewEntry(t)) ELSE UNCHANGED buckets
      BY <2>1 DEF OnDuplicate
    <3> QED
      BY <1>1, <3>1, <3>2, PutWrites
  <2>2. CASE \E p \in FreePosition(t) : add_to_bucket(t, p[1], p[2])
    <3>1. PICK p \in FreePosition(t) : add_to_bucket(t, p[1], p[2])
      BY <2>2
    <3>2. p[1] \in {first(t), second(t)}
      BY DEF FreePosition
    <3> QED
      BY <1>5, <3>1, <3>2, HoldsBoth, PutWrites DEF Insert, Inserting, add_to_bucket
  <2> QED
    BY <1>5, <2>1, <2>2 DEF Insert
<1> QED
  BY <1>2, <1>3, <1>4, <1>5 DEF Operate

LEMMA MoveWrites ==
  ASSUME IndInv, NEW t \in Threads, Move(t)
  PROVE  WritesLocked(t)
<1> DEFINE p == path[t]
           d == Len(p)
           to == p[d]
           from == p[d - 1]
<1>1. /\ d > 1 /\ pc[t] = "move" /\ counter' = counter
      /\ buckets' = [buckets EXCEPT ![to.bucket][to.slot] = buckets[from.bucket][from.slot],
                                    ![from.bucket][from.slot] = Free]
  BY DEF Move
<1>2. LocksHeld(t) = MoveLocks(t, p)
  <2>1. path[t] # <<>> /\ LocksHeld(t) = LocksWanted(t)
    BY <1>1 DEF IndInv, RequestOK, HoldingOK
  <2> QED
    BY <2>1 DEF LocksWanted
<1>3. p[1].bucket \in {first(t), second(t)}
  BY <1>1 DEF IndInv, RequestOK
<1>4. {lock_ind(to.bucket), lock_ind(from.bucket)} \subseteq MoveLocks(t, p)
  <2> HIDE DEF p
  <2>1. \A B : \A b \in B : lock_ind(b) \in LocksOf(B)
    BY DEF LocksOf
  <2>2. CASE d = 2
    <3>1. MoveLocks(t, p) = LocksOf({first(t), second(t), p[2].bucket})
      BY <2>2 DEF MoveLocks
    <3>2. lock_ind(p[1].bucket) \in MoveLocks(t, p) /\ lock_ind(p[2].bucket) \in MoveLocks(t, p)
      BY <1>3, <2>1, <3>1
    <3> QED
      BY <2>2, <3>2
  <2>3. CASE d # 2
    <3>1. MoveLocks(t, p) = LocksOf({p[d - 1].bucket, p[d].bucket})
      BY <1>1, <2>3 DEF MoveLocks
    <3> QED
      BY <2>1, <3>1
  <2> QED
    BY <2>2, <2>3
<1>5. locks[lock_ind(to.bucket)] = t /\ locks[lock_ind(from.bucket)] = t
  BY <1>2, <1>4 DEF LocksHeld
<1>6. \A b \in DOMAIN buckets : b # to.bucket /\ b # from.bucket => buckets'[b] = buckets[b]
  BY <1>1
<1> QED
  BY <1>1, <1>5, <1>6 DEF WritesLocked

LEMMA CuckooWrites ==
  ASSUME IndInv, NEW t \in Threads, Cuckoo(t)
  PROVE  WritesLocked(t)
<1>1. CASE RunCuckoo(t) \/ SlotSearch(t) \/ Fill(t) \/ MoveFails(t) \/ NothingToMove(t)
  BY <1>1 DEF RunCuckoo, SlotSearch, Fill, MoveFails, NothingToMove, table, WritesLocked
<1>2. CASE Move(t)
  BY <1>2, MoveWrites
<1>3. CASE Place(t)
  <2>1. pc[t] = "place" /\ Len(path[t]) = 1
    BY <1>3 DEF Place, IndInv, RequestOK
  <2>2. path[t][1].bucket \in {first(t), second(t)}
    BY <2>1 DEF IndInv, RequestOK
  <2>3. CASE OnDuplicate(t)
    BY <2>1, <2>3, FindType, HoldsBoth, PutWrites DEF OnDuplicate, WritesLocked
  <2>4. CASE add_to_bucket(t, path[t][1].bucket, path[t][1].slot)
    BY <2>1, <2>2, <2>4, HoldsBoth, PutWrites DEF add_to_bucket
  <2> QED
    BY <1>3, <2>3, <2>4 DEF Place
<1> QED
  BY <1>1, <1>2, <1>3 DEF Cuckoo

\* Splitting writes to old buckets of one lock and to new ones; the lock of a
\* new bucket is the same lock, or one that only new buckets have.
LEMMA SplitWrites ==
  ASSUME IndInv, NEW t \in Threads, MoveBuckets(t)
  PROVE  WritesLocked(t)
<1>1. PICK l \in want[t] : SplitLock(snap[t], l)
  BY DEF MoveBuckets
<1> DEFINE hp == snap[t]
           new == lock_ind(l \cup {hp})
<1>2. /\ l \in locks_to_move(hp) /\ l \in Locks /\ hashpower = hp + 1
      /\ want[t] \cup (Locks \ locks_to_move(hp)) \subseteq LocksHeld(t)
  BY <1>1 DEF MoveBuckets, IndInv, ExpansionOK, TypeOK
<1>3. locks[l] = t
  BY <1>2 DEF LocksHeld
<1>4. \A b : hp \in b /\ b \ {hp} \in OldBuckets(hp, l) => lock_ind(b) = new
  BY DEF OldBuckets, lock_ind
<1>5. new # l => new \in Locks \ locks_to_move(hp)
  <2>1. hp \notin hashmask(hp)
    BY DEF hashmask, Bits, IndInv, TypeOK
  <2>2. l = lock_ind(l)
    BY <1>2 DEF lock_ind, Locks
  <2> QED
    BY <2>1, <2>2, IndexTypes DEF locks_to_move, lock_ind
<1>6. locks[new] = t
  BY <1>2, <1>3, <1>5 DEF LocksHeld
<1>7. ASSUME NEW b \in DOMAIN buckets, buckets'[b] # buckets[b] PROVE locks[lock_ind(b)] = t
  <2>1. b \in Buckets(hp + 1)
    BY <1>2 DEF IndInv, TypeOK
  <2>2. b \in OldBuckets(hp, l) \/ (hp \in b /\ b \ {hp} \in OldBuckets(hp, l))
    BY <1>1, <1>7, <2>1 DEF SplitLock
  <2> QED
    BY <1>3, <1>4, <1>6, <2>2 DEF OldBuckets
<1>8. \A c \in Locks : counter'[c] # counter[c] => c \in {l, new}
  BY <1>1, <1>2 DEF SplitLock, Recount, IndInv, TypeOK
<1> QED
  BY <1>3, <1>6, <1>7, <1>8 DEF WritesLocked

LEMMA ExpandWrites ==
  ASSUME IndInv, NEW t \in Threads, Expand(t)
  PROVE  WritesLocked(t)
<1>1. CASE \/ LockExpansion(t) \/ CheckResize(t) \/ LockAll(t) \/ DoubleThrows(t)
           \/ UnlockNew(t) \/ Expanded(t)
  BY <1>1 DEF LockExpansion, CheckResize, LockAll, DoubleThrows, UnlockNew, Expanded, WritesLocked
<1>2. CASE Double(t)
  <2>1. snap[t] = hashpower /\ snap[t] \in Nat
    BY <1>2 DEF Double, IndInv, ExpansionOK, TypeOK
  <2>2. Buckets(snap[t]) \subseteq Buckets(snap[t] + 1)
    BY <2>1 DEF Buckets, hashmask, Bits
  <2>3. DOMAIN buckets = Buckets(snap[t]) /\ bucket_bits = snap[t]
    BY <2>1, BucketBits DEF IndInv
  <2> QED
    BY <1>2, <2>2, <2>3 DEF Double, Doubled, WritesLocked
<1>3. CASE MoveBuckets(t)
  BY <1>3, SplitWrites
<1> QED
  BY <1>1, <1>2, <1>3 DEF Expand

LEMMA StepWrites ==
  ASSUME IndInv, NEW t \in Threads, Step(t)
  PROVE  WritesLocked(t)
<1>1. CASE Snapshot(t) \/ LockBucket(t) \/ HashpowerChanged(t) \/ ScanCounter(t) \/ Return(t)
  BY <1>1 DEF Snapshot, LockBucket, HashpowerChanged, ScanCounter, Return, table, WritesLocked
<1> QED
  BY <1>1, OperateWrites, CuckooWrites, ExpandWrites DEF Step

\* A step changes a bucket or an elem_counter only under its lock, held by
\* the thread that takes the step: also the split of buckets by the threads
\* of parallel_exec while other threads work on buckets that are split.
THEOREM NoRaces == Spec => WritesAreLocked
<1>1. IndInv /\ [Next]_vars =>
        [\E t \in Threads :
           /\ \A b \in DOMAIN buckets : buckets'[b] # buckets[b] => locks[lock_ind(b)] = t
           /\ \A l \in Locks : counter'[l] # counter[l] => locks[l] = t]_vars
  <2> SUFFICES ASSUME IndInv, Next PROVE \E t \in Threads : WritesLocked(t)
    BY DEF WritesLocked
  <2>1. PICK t \in Threads : (\E r \in Requests : Call(t, r)) \/ Step(t)
    BY DEF Next
  <2>2. CASE \E r \in Requests : Call(t, r)
    BY <2>2 DEF Call, table, WritesLocked
  <2> QED
    BY <2>1, <2>2, StepWrites
<1> QED
  BY <1>1, Protocol, PTL DEF Spec, WritesAreLocked

----------------------------------------------------------------------------
(* Threads that hold no lock.                                              *)

LEMMA HoldsNothing ==
  ASSUME IndInv, NEW t \in Threads, LocksHeld(t) = {}
  PROVE  pc[t] \notin {"critical", "move", "place", "double", "split"}
<1>1. pc[t] \notin {"critical", "move", "place"}
  BY SomeLockWanted DEF IndInv, HoldingOK
<1>2. pc[t] \notin {"double", "split"}
  BY SomeLock DEF IndInv, ExpansionOK
<1> QED
  BY <1>1, <1>2

LEMMA ChangesNothing ==
  ASSUME IndInv, NEW t \in Threads, LocksHeld(t) = {}, Step(t)
  PROVE  UNCHANGED <<hashpower, buckets, counter>>
<1>1. pc[t] \notin {"critical", "move", "place", "double", "split"}
  BY HoldsNothing
<1>2. ~Operate(t)
  BY <1>1 DEF Operate, Find, Erase, Update, Insert, Inserting, CopyThrows, InCritical
<1>3. Cuckoo(t) => SlotSearch(t) \/ Fill(t)
  BY <1>1 DEF Cuckoo, RunCuckoo, Inserting, MoveFails, NothingToMove, Move, Place
<1>4. Expand(t) =>
        LockExpansion(t) \/ CheckResize(t) \/ LockAll(t) \/ UnlockNew(t) \/ Expanded(t)
  BY <1>1 DEF Expand, Double, DoubleThrows, MoveBuckets
<1>5. \/ Snapshot(t) \/ LockBucket(t) \/ HashpowerChanged(t) \/ Return(t)
      \/ SlotSearch(t) \/ Fill(t) \/ ScanCounter(t)
      \/ LockExpansion(t) \/ CheckResize(t) \/ LockAll(t) \/ UnlockNew(t) \/ Expanded(t)
  BY <1>2, <1>3, <1>4 DEF Step
<1> QED
  BY <1>5 DEF Snapshot, LockBucket, HashpowerChanged, Return, SlotSearch, Fill, ScanCounter,
     LockExpansion, CheckResize, LockAll, UnlockNew, Expanded, table

\* While no thread holds a lock the table may be replaced by another one, of
\* another size if nobody is doubling it.
LEMMA ReplacedKeeps ==
  ASSUME IndInv, UNCHANGED <<locks, expansion, threads>>,
         \A t \in Threads : LocksHeld(t) = {},
         hashpower' = hashpower \/ \A t \in Threads : pc[t] \notin Expanding,
         hashpower' \in Nat,
         buckets' \in [Buckets(hashpower') -> [Slots -> Entry \cup {Free}]],
         counter' \in [Locks -> Counts]
  PROVE  IndInv'
<1>1. TypeOK'
  BY SamePaths DEF IndInv, TypeOK, threads
<1>2. ASSUME NEW t \in Threads PROVE RequestOK(t)' /\ HoldingOK(t)' /\ ExpansionOK(t)'
  <2>1. first(t)' = first(t) /\ second(t)' = second(t)
    BY DEF first, second, threads
  <2>2. LocksWanted(t)' = LocksWanted(t) /\ LocksHeld(t)' = LocksHeld(t)
    BY <2>1 DEF LocksWanted, MoveLocks, LocksOf, LocksHeld, threads
  <2>3. RequestOK(t)'
    BY <2>1 DEF IndInv, RequestOK, threads
  <2>4. HoldingOK(t)'
    BY <2>2 DEF IndInv, HoldingOK, InOrder, threads
  <2>5. ExpansionOK(t)'
    BY <2>2 DEF IndInv, ExpansionOK, Expanding, threads
  <2> QED
    BY <2>3, <2>4, <2>5
<1> QED
  BY <1>1, <1>2 DEF IndInv
=============================================================================
