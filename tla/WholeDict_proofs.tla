------------------------- MODULE WholeDict_proofs -------------------------
(***************************************************************************)
(* The items of the hash table while users also clear, rehash, reserve and *)
(* lock it, proved for every hash function and every number of threads,    *)
(* keys, slots and locks.                                                  *)
(*                                                                         *)
(* What a thread that is there does to the items is a step of the table    *)
(* seen (WholeTable_proofs), so what CuckooDict_proofs says of it holds.   *)
(* A thread that is away changes the table as a whole: it has all locks,   *)
(* finds every item placed and counted (TableOK) and leaves it so, whether *)
(* it empties the table, makes a new one with the same items, or stores,   *)
(* removes, moves and splits as the owner of the locked_table.             *)
(***************************************************************************)
EXTENDS WholeTable_proofs

----------------------------------------------------------------------------
(* What others see of a thread that is away.                               *)

\* The steps of thread t that are not steps of CuckooMap.
Unseen(t) ==
  \/ WholeStep(t) \/ OwnedStep(t)
  \/ \E r \in WholeRequests : CallWhole(t, r)
  \/ \E r \in LockedRequests : MayIterate(r.op) /\ CallLocked(t, r)
  \/ Away(t) /\ Return(t) /\ UNCHANGED own

LEMMA WholeMoves ==
  ASSUME ThreadFcns, NEW t \in Threads, WholeStep(t) \/ OwnedStep(t)
  PROVE  ThreadMoves(t)
<1> USE DEF ThreadMoves, ThreadFcns, IsFcn, Goto, Finish, Private
<1>1. CASE ReadHashpower(t)
  BY <1>1 DEF ReadHashpower
<1>2. CASE Grab(t)
  BY <1>2 DEF Grab, TakeLowest
<1>3. CASE Clear(t) \/ LockTable(t)
  BY <1>3 DEF Clear, LockTable
<1>4. CASE Resize(t)
  BY <1>4 DEF Resize
<1>5. CASE OwnedFind(t) \/ OwnedErase(t)
  BY <1>5 DEF OwnedFind, OwnedErase
<1>6. CASE OwnedInsert(t) \/ OwnedInsertThrows(t)
  BY <1>6 DEF OwnedInsert, OwnedInsertThrows
<1>7. CASE OwnedDouble(t)
  BY <1>7 DEF OwnedDouble
<1>8. CASE OwnedClear(t) \/ OwnedResize(t) \/ OwnedSize(t)
  BY <1>8 DEF OwnedClear, OwnedResize, OwnedSize
<1>9. CASE Iterate(t) \/ EraseAt(t) \/ unlock(t)
  BY <1>9 DEF Iterate, EraseAt, unlock, Arrive
<1> QED
  BY <1>1, <1>2, <1>3, <1>4, <1>5, <1>6, <1>7, <1>8, <1>9 DEF WholeStep, OwnedStep

\* An away thread's step is not seen by the others but through the table.
LEMMA UnseenStays ==
  ASSUME SeenInv, SeenInv', NEW t \in Threads, Unseen(t)
  PROVE  UNCHANGED <<pcSeen, reqSeen, snapSeen, wantSeen, pathSeen, bfsSeen, sumSeen, resSeen>>
<1>1. CASE WholeStep(t) \/ OwnedStep(t)
  <2>1. /\ pc[t] \in {"resize", "grab", "whole", "owned"} /\ req' = req
        /\ pc'[t] # "idle" /\ ThreadMoves(t)
    BY <1>1, WholeMoves, WholeStepMoves DEF SeenInv
  <2>2. AtRest(t) /\ Away(t) /\ (owner = t <=> pc[t] = "owned")
    BY <2>1, WholePlace
  <2>3. \A u \in Threads \ {t} : owner' = u <=> owner = u
    BY <1>1, WholeStepGoes DEF Goes
  <2>4. Away(t)'
    <3>1. CASE owner' = t
      BY <3>1 DEF Away
    <3>2. CASE owner' # t /\ owner # t
      BY <2>1, <2>2, <3>2 DEF Away
    <3>3. CASE owner' # t /\ owner = t
      <4>1. unlock(t)
        BY <1>1, <3>3, OwnerMoves
      <4>2. req[t].op = "unlock" /\ req[t] # None
        BY <4>1, <2>2, <3>3, OwnedPlace DEF unlock, Owns
      <4>3. \A r \in Requests : r.op # "unlock"
        BY DEF Requests, KeyRequests, ValRequests, CountRequests
      <4> QED
        BY <2>1, <4>2, <4>3 DEF Away
    <3> QED
      BY <3>1, <3>2, <3>3
  <2>5. \A u \in Threads \ {t} : Away(u)' <=> Away(u)
    BY <2>1, <2>3 DEF Away
  <2> QED
    BY <2>1, <2>2, <2>4, <2>5, UnseenThreads DEF SeenInv, AtRest
<1>2. ASSUME NEW r \in WholeRequests, CallWhole(t, r)
      PROVE  UNCHANGED <<pcSeen, reqSeen, snapSeen, wantSeen, pathSeen, bfsSeen, sumSeen, resSeen>>
  <2>1. ThreadMoves(t) /\ req'[t] = r /\ UNCHANGED own /\ AtRest(t)
    BY <1>2 DEF CallWhole, SeenInv, ThreadFcns, IsFcn, ThreadMoves, Goto, AtRest
  <2>2. Away(t)'
    BY <2>1, WholeIsNoRequest DEF Away
  <2>3. \A u \in Threads \ {t} : Away(u)' <=> Away(u)
    BY <2>1 DEF Away, own, SeenInv, ThreadFcns, IsFcn, ThreadMoves
  <2> QED
    BY <2>1, <2>2, <2>3, UnseenThreads DEF SeenInv, AtRest
<1>3. ASSUME NEW r \in LockedRequests, CallLocked(t, r)
      PROVE  UNCHANGED <<pcSeen, reqSeen, snapSeen, wantSeen, pathSeen, bfsSeen, sumSeen, resSeen>>
  <2>1. ThreadMoves(t) /\ owner = t /\ owner' = t
    BY <1>3 DEF CallLocked, SeenInv, ThreadFcns, IsFcn, ThreadMoves, Goto, own
  <2>2. AtRest(t) /\ AtRest(t)'
    BY <2>1 DEF Away, AtRest
  <2>3. \A u \in Threads \ {t} : Away(u)' <=> Away(u)
    BY <2>1 DEF Away, SeenInv, ThreadFcns, IsFcn, ThreadMoves
  <2> QED
    BY <2>1, <2>2, <2>3, UnseenThreads DEF SeenInv
<1>4. CASE Away(t) /\ Return(t) /\ UNCHANGED own
  <2>1. ThreadMoves(t) /\ pc'[t] = "idle" /\ AtRest(t)
    BY <1>4 DEF Return, SeenInv, ThreadFcns, IsFcn, ThreadMoves, Goto, AtRest
  <2>2. AtRest(t)'
    BY <2>1 DEF AtRest, SeenInv
  <2>3. \A u \in Threads \ {t} : Away(u)' <=> Away(u)
    BY <1>4, <2>1 DEF Away, own, SeenInv, ThreadFcns, IsFcn, ThreadMoves
  <2> QED
    BY <2>1, <2>2, <2>3, UnseenThreads DEF SeenInv
<1> QED
  BY <1>1, <1>2, <1>3, <1>4 DEF Unseen

----------------------------------------------------------------------------
(* Where the items are.                                                    *)

LEMMA SamePlace ==
  /\ Map!Positions = Positions /\ \A p : Map!KeyAt(p) = KeyAt(p)
  /\ Map!NoDuplicates <=> NoDuplicates
<1>1. Map!Positions = Positions
  BY SameIndex, SameTypes, SameTable DEF Map!Positions, Positions
<1>2. \A p : Map!KeyAt(p) = KeyAt(p)
  BY DEF Map!KeyAt, KeyAt
<1> QED
  BY <1>1, <1>2 DEF Map!NoDuplicates, NoDuplicates

\* Every item is where a find looks for it.
Placed == \A p \in Positions : p[1] \in BucketsOf(hashpower, Hash[KeyAt(p)])

LEMMA SamePlaced == Map!Placed <=> Placed
<1>1. \A p : Map!BucketsOf(hashpower, Hash[Map!KeyAt(p)]) = BucketsOf(hashpower, Hash[KeyAt(p)])
  BY SamePlace, SameIndex
<1> QED
  BY <1>1, SamePlace DEF Map!Placed, Placed

LEMMA SamePlacedNext == (Map!Placed' <=> Placed') /\ (Map!NoDuplicates' <=> NoDuplicates')
BY SamePlaced, SamePlace, PTL

LEMMA NobodyElseHolds ==
  ASSUME NEW t \in Threads, Away(t), LocksHeld(t) = Locks
  PROVE  \A u \in Threads : Map!LocksHeld(u) = {}
<1>1. \A l \in Locks : locks[l] = t
  BY DEF LocksHeld
<1>2. \A l \in Locks : locksSeen[l] = None
  BY <1>1 DEF locksSeen
<1> QED
  BY <1>2, MapAssumption, SameIndex DEF Map!LocksHeld

\* A thread with all locks finds every item in its place.
LEMMA AllIsPlaced ==
  ASSUME SeenInv, Map!DataInv, NEW t \in Threads, Away(t), LocksHeld(t) = Locks
  PROVE  Placed /\ NoDuplicates
<1>1. Map!Placed
  BY NobodyElseHolds, Map!ReplacedData, SameIndex, SameTypes,
     IndexAssumption, MapAssumption, FreeAssumption, NoneAssumption DEF SeenInv
<1> QED
  BY <1>1, SamePlaced, SamePlace DEF Map!DataInv

LEMMA UnseenData ==
  ASSUME SeenInv, SeenInv', Map!DataInv, NEW t \in Threads, Unseen(t),
         \/ UNCHANGED <<hashpower, buckets>>
         \/ Away(t) /\ LocksHeld(t) = Locks /\ Placed' /\ NoDuplicates'
  PROVE  Map!DataInv'
<1>1. UNCHANGED Map!threads
  BY UnseenStays DEF Map!threads
<1>2. CASE UNCHANGED <<hashpower, buckets>>
  BY <1>1, <1>2, Map!QuietData, SameIndex, SameTypes,
     IndexAssumption, MapAssumption, FreeAssumption, NoneAssumption
<1>3. CASE Away(t) /\ LocksHeld(t) = Locks /\ Placed' /\ NoDuplicates'
  <2>1. Map!Placed' /\ Map!NoDuplicates'
    BY <1>3, SamePlacedNext
  <2> QED
    BY <1>1, <1>3, <2>1, NobodyElseHolds, Map!ReplacedData, SameIndex, SameTypes,
       IndexAssumption, MapAssumption, FreeAssumption, NoneAssumption DEF SeenInv
<1> QED
  BY <1>2, <1>3

----------------------------------------------------------------------------
(* The places that clear, rehash and reserve give the items.               *)

\* f gives the items E their places in table T.
Places(f, hp, E, T) ==
  /\ \A e \in E : /\ f[e] \in Buckets(hp) \X Slots
                  /\ f[e][1] \in BucketsOf(hp, Hash[e.key])
                  /\ T[f[e][1]][f[e][2]] = e
  /\ \A d, e \in E : f[d] = f[e] => d = e
  /\ \A b \in Buckets(hp), s \in Slots : T[b][s] # Free => \E e \in E : f[e] = <<b, s>>

LEMMA TablePlaces ==
  ASSUME NEW hp, NEW E \in SUBSET Entry, NEW T \in Tables(hp, E)
  PROVE  \E f : Places(f, hp, E, T)
<1> DEFINE F == { f \in [E -> Buckets(hp) \X Slots] :
                    /\ \A e \in E : f[e][1] \in BucketsOf(hp, Hash[e.key])
                    /\ \A d, e \in E : f[d] = f[e] => d = e }
           C(f, b, s) == IF \E e \in E : f[e] = <<b, s>>
                         THEN CHOOSE e \in E : f[e] = <<b, s>> ELSE Free
<1>1. PICK f \in F : T = [b \in Buckets(hp) |-> [s \in Slots |-> C(f, b, s)]]
  <2>1. T \in { [b \in Buckets(hp) |-> [s \in Slots |-> C(f, b, s)]] : f \in F }
    BY DEF Tables
  <2> HIDE DEF F, C
  <2> QED
    BY <2>1
<1>2. /\ f \in [E -> Buckets(hp) \X Slots]
      /\ \A e \in E : f[e][1] \in BucketsOf(hp, Hash[e.key])
      /\ \A d, e \in E : f[d] = f[e] => d = e
  BY <1>1
<1>3. ASSUME NEW e \in E PROVE T[f[e][1]][f[e][2]] = e
  <2>1. PICK b \in Buckets(hp), s \in Slots : f[e] = <<b, s>>
    BY <1>2
  <2>2. C(f, b, s) = e
    <3>1. (CHOOSE d \in E : f[d] = <<b, s>>) \in E /\ f[CHOOSE d \in E : f[d] = <<b, s>>] = <<b, s>>
      BY <2>1
    <3>2. (CHOOSE d \in E : f[d] = <<b, s>>) = e
      BY <1>2, <2>1, <3>1
    <3> QED
      BY <2>1, <3>2
  <2> HIDE DEF C
  <2>3. T[b][s] = e
    BY <1>1, <2>2
  <2> QED
    BY <2>1, <2>3
<1>4. ASSUME NEW b \in Buckets(hp), NEW s \in Slots, T[b][s] # Free
      PROVE  \E e \in E : f[e] = <<b, s>>
  <2>1. C(f, b, s) # Free => \E e \in E : f[e] = <<b, s>>
    OBVIOUS
  <2> HIDE DEF C
  <2> QED
    BY <1>1, <1>4, <2>1
<1> QED
  BY <1>2, <1>3, <1>4 DEF Places

LEMMA ItemKeys ==
  ASSUME NoDuplicates, NEW d \in Items, NEW e \in Items, d.key = e.key
  PROVE  d = e
BY DEF Items, NoDuplicates, KeyAt

\* What a resize makes of the table: the same items, each in its place.
LEMMA RebuiltData ==
  ASSUME SeenInv, NoDuplicates, NEW t, Rebuilt(t)
  PROVE  Placed' /\ NoDuplicates' /\ Items' = Items
<1>1. PICK hp \in NewHashpowers(target(t)) : hashpower' = hp /\ buckets' \in Tables(hp, Items)
  BY DEF Rebuilt
<1>2. PICK f : Places(f, hp, Items, buckets')
  BY <1>1, TablePlaces, TableTypes
<1> USE <1>2 DEF Places
<1>3. ASSUME NEW p \in Positions'
      PROVE  \E e \in Items : /\ f[e] = p /\ p[1] \in BucketsOf(hp, Hash[e.key])
                              /\ KeyAt(p)' = e.key /\ buckets'[p[1]][p[2]] = e
  <2>1. p \in Buckets(hp) \X Slots /\ buckets'[p[1]][p[2]] # Free
    BY <1>1, <1>3 DEF Positions, occupied
  <2>2. PICK e \in Items : f[e] = p
    BY <1>2, <2>1
  <2> QED
    BY <1>2, <2>2 DEF KeyAt
<1>4. ASSUME NEW e \in Items PROVE f[e] \in Positions' /\ buckets'[f[e][1]][f[e][2]] = e
  <2>1. e # Free
    BY TableTypes, FreeAssumption
  <2> QED
    BY <1>1, <1>2, <2>1 DEF Positions, occupied
<1>5. Placed'
  BY <1>1, <1>3 DEF Placed
<1>6. NoDuplicates'
  BY <1>3, ItemKeys DEF NoDuplicates
<1>7. Items' = Items
  <2>1. \A e \in Items : e \in Items'
    BY <1>4 DEF Items
  <2>2. \A e \in Items' : e \in Items
    <3> SUFFICES ASSUME NEW p \in Positions' PROVE buckets'[p[1]][p[2]] \in Items
      BY DEF Items
    <3> QED
      BY <1>3
  <2> QED
    BY <2>1, <2>2
<1> QED
  BY <1>5, <1>6, <1>7

LEMMA EmptiedData ==
  ASSUME SeenInv, Emptied, hashpower' = hashpower
  PROVE  Placed' /\ NoDuplicates' /\ Positions' = {} /\ Items' = {}
<1>1. Positions' = {}
  BY TableTypes DEF Emptied, Positions, occupied
<1> QED
  BY <1>1 DEF Placed, NoDuplicates, Items

----------------------------------------------------------------------------
(* The places where the owner of the table puts items.                     *)

EntryAt(p) == buckets[p[1]][p[2]]

LEMMA OwnedKeyBuckets ==
  ASSUME SeenInv, NEW t \in Threads, pc[t] = "owned"
  PROVE  BucketsOf(hashpower, Hash[req[t].key]) = {first(t), second(t)}
BY OwnedPlace DEF BucketsOf, first, second

LEMMA OwnedFoundKey ==
  ASSUME SeenInv, NEW t \in Threads, pc[t] = "owned", NEW p \in cuckoo_find(t)
  PROVE  p \in Positions /\ KeyAt(p) = req[t].key
BY OwnedFound DEF cuckoo_find, SlotsOf, KeyAt

\* A finite set of slots has a first and a last one.
LEMMA SlotsHaveEnds ==
  ASSUME NEW S \in SUBSET Slots, S # {}
  PROVE  /\ \E n \in S : \A m \in S : n <= m
         /\ \E n \in S : \A m \in S : m <= n
<1>1. IsFiniteSet(0 .. SlotPerBucket - 1)
  BY FS_Interval, MapAssumption
<1>2. IsFiniteSet(S)
  BY <1>1, FS_Subset DEF Slots
<1>3. S \in SUBSET Int
  BY MapAssumption DEF Slots
<1> DEFINE R == { mn \in S \X S : mn[2] <= mn[1] }
<1>4. \A m, n \in S : <<m, n>> \in R <=> n <= m
  OBVIOUS
<1> HIDE DEF R
<1>5. Orders(R, S)
  <2>1. ASSUME NEW x \in S, NEW y \in S PROVE x = y \/ <<x, y>> \in R \/ <<y, x>> \in R
    <3>1. x \in Int /\ y \in Int
      BY <1>3
    <3>2. y <= x \/ x <= y
      BY <3>1
    <3> QED
      BY <1>4, <3>2
  <2>2. ASSUME NEW x \in S, NEW y \in S, NEW z \in S, <<x, y>> \in R, <<y, z>> \in R
        PROVE  <<x, z>> \in R
    <3>1. x \in Int /\ y \in Int /\ z \in Int /\ y <= x /\ z <= y
      BY <1>3, <1>4, <2>2
    <3>2. z <= x
      BY <3>1
    <3> QED
      BY <1>4, <3>2
  <2> QED
    BY <2>1, <2>2 DEF Orders
<1>6. PICK n \in S : \A m \in S \ {n} : <<n, m>> \in R
  BY <1>2, <1>5, LeastOf
<1>7. \A m \in S : m <= n
  <2> TAKE m \in S
  <2>1. m \in Int /\ n \in Int
    BY <1>3
  <2>2. CASE m = n
    BY <2>1, <2>2
  <2>3. CASE m # n
    BY <1>4, <1>6, <2>3
  <2> QED
    BY <2>2, <2>3
<1> QED
  BY <1>2, <1>3, <1>7, LeastNumber

\* The owner's search finds the key if it is anywhere in the table.
LEMMA OwnedNotFound ==
  ASSUME SeenInv, Placed, NEW t \in Threads, pc[t] = "owned", cuckoo_find(t) = {}
  PROVE  \A p \in Positions : KeyAt(p) # req[t].key
<1> SUFFICES ASSUME NEW p \in Positions, KeyAt(p) = req[t].key PROVE FALSE
  OBVIOUS
<1> DEFINE b == IF SlotsOf(req[t].key, first(t)) # {} THEN first(t) ELSE second(t)
           S == SlotsOf(req[t].key, b)
<1>1. p[1] \in {first(t), second(t)}
  BY OwnedKeyBuckets DEF Placed
<1>2. p[2] \in SlotsOf(req[t].key, p[1])
  BY DEF Positions, KeyAt, SlotsOf
<1>3. S # {}
  BY <1>1, <1>2
<1>4. S \in SUBSET Slots
  BY DEF SlotsOf
<1>5. PICK n \in S : \A m \in S : n <= m
  <2> HIDE DEF S
  <2> QED
    BY <1>3, <1>4, SlotsHaveEnds
<1>6. <<b, n>> \in cuckoo_find(t)
  BY <1>5 DEF cuckoo_find
<1> QED
  BY <1>6

\* A free position is one, and there is one unless both buckets are full.
LEMMA OwnedFreeSlot ==
  ASSUME SeenInv, NEW t \in Threads, pc[t] = "owned", NEW p \in FreePosition(t)
  PROVE  p[1] \in {first(t), second(t)} /\ p \notin Positions
BY DEF FreePosition, FreeSlots, Positions

LEMMA TableAfterPut ==
  ASSUME SeenInv, NEW p \in Buckets(hashpower) \X Slots, NEW e, Put(p[1], p[2], e)
  PROVE  /\ \A r \in Buckets(hashpower) \X Slots : EntryAt(r)' = IF r = p THEN e ELSE EntryAt(r)
         /\ \A r : KeyAt(r)' = EntryAt(r)'.key /\ KeyAt(r) = EntryAt(r).key
<1>1. PICK b \in Buckets(hashpower), s \in Slots : p = <<b, s>>
  OBVIOUS
<1>2. buckets' = [buckets EXCEPT ![b][s] = e]
  BY <1>1 DEF Put
<1>3. \A a \in Buckets(hashpower), i \in Slots :
        buckets'[a][i] = IF a = b /\ i = s THEN e ELSE buckets[a][i]
  BY <1>2, TableTypes
<1> QED
  BY <1>1, <1>3 DEF EntryAt, KeyAt

LEMMA ItemsAre == Items = { EntryAt(p) : p \in Positions }
BY DEF Items, EntryAt

LEMMA ItemsAreNext == Items' = { EntryAt(p)' : p \in Positions' }
BY DEF Items, EntryAt

LEMMA RemovedData ==
  ASSUME SeenInv, Placed, NoDuplicates, NEW p \in Positions,
         Put(p[1], p[2], Free), hashpower' = hashpower
  PROVE  /\ Placed' /\ NoDuplicates'
         /\ Positions' = Positions \ {p} /\ Items' = Items \ {EntryAt(p)}
         /\ \A r \in Positions' : EntryAt(r)' = EntryAt(r)
<1>1. p \in Buckets(hashpower) \X Slots
  BY DEF Positions
<1>2. Positions' = Positions \ {p}
  BY <1>1, TablePut
<1>3. \A r \in Positions' : EntryAt(r)' = EntryAt(r) /\ KeyAt(r)' = KeyAt(r)
  <2>1. \A r \in Positions' : r \in Buckets(hashpower) \X Slots /\ r # p
    BY <1>2 DEF Positions
  <2> QED
    BY <1>1, <2>1, TableAfterPut
<1>4. Placed' /\ NoDuplicates'
  BY <1>2, <1>3 DEF Placed, NoDuplicates
<1>5. \A r \in Positions : EntryAt(r) = EntryAt(p) => r = p
  BY DEF NoDuplicates, KeyAt, EntryAt
<1>6. Items' = Items \ {EntryAt(p)}
  BY <1>2, <1>3, <1>5, ItemsAre, ItemsAreNext
<1> QED
  BY <1>2, <1>3, <1>4, <1>6

LEMMA StoredData ==
  ASSUME SeenInv, Placed, NoDuplicates, NEW t \in Threads, pc[t] = "owned",
         req[t].op = "insert", cuckoo_find(t) = {}, NEW p \in FreePosition(t),
         Put(p[1], p[2], NewEntry(t)), hashpower' = hashpower
  PROVE  /\ Placed' /\ NoDuplicates'
         /\ Positions' = Positions \cup {p} /\ p \notin Positions
         /\ Items' = Items \cup {NewEntry(t)} /\ KeyAt(p)' = req[t].key
<1>1. p \in Buckets(hashpower) \X Slots /\ p \notin Positions
  BY OwnedFree, OwnedFreeSlot
<1>2. NewEntry(t) \in Entry \cup {Free} /\ NewEntry(t) # Free
  BY OwnedEntry, FreeAssumption
<1>3. Positions' = Positions \cup {p}
  BY <1>1, <1>2, TablePut
<1>4. /\ \A r \in Positions : EntryAt(r)' = EntryAt(r) /\ KeyAt(r)' = KeyAt(r)
      /\ EntryAt(p)' = NewEntry(t) /\ KeyAt(p)' = req[t].key
  <2>1. \A r \in Positions : r \in Buckets(hashpower) \X Slots /\ r # p
    BY <1>1 DEF Positions
  <2>2. NewEntry(t).key = req[t].key
    BY DEF NewEntry
  <2>3. /\ \A r \in Buckets(hashpower) \X Slots :
             EntryAt(r)' = IF r = p THEN NewEntry(t) ELSE EntryAt(r)
        /\ \A r : KeyAt(r)' = EntryAt(r)'.key /\ KeyAt(r) = EntryAt(r).key
    BY <1>1, TableAfterPut
  <2> QED
    BY <1>1, <2>1, <2>2, <2>3
<1>5. p[1] \in BucketsOf(hashpower, Hash[req[t].key])
  BY OwnedFreeSlot, OwnedKeyBuckets
<1>6. Placed'
  BY <1>3, <1>4, <1>5 DEF Placed
<1>7. NoDuplicates'
  BY <1>3, <1>4, OwnedNotFound DEF NoDuplicates
<1>8. Items' = Items \cup {NewEntry(t)}
  BY <1>3, <1>4, ItemsAre, ItemsAreNext
<1> QED
  BY <1>1, <1>3, <1>4, <1>6, <1>7, <1>8

----------------------------------------------------------------------------
(* The paths the owner's inserts move items along.                         *)

\* q is a path of d positions of which all but the last are occupied, for
\* thread t's key, on which every item can go on to the next position.
IsTrail(t, d, q) ==
  /\ q \in [1 .. d -> Buckets(hashpower) \X Slots]
  /\ q[1][1] \in {first(t), second(t)}
  /\ \A i \in 1 .. d - 1 : q[i] \in Positions /\ q[i + 1][1] = Beyond(q[i])

LEMMA TrailIs ==
  ASSUME NEW t, NEW d \in 1 .. MAX_BFS_PATH_LEN, NEW q
  PROVE  q \in FreeTrails(t, d) <=> IsTrail(t, d, q) /\ q[d] \notin Positions
BY DEF FreeTrails, trails, IsTrail

\* A path that comes twice through a position is not the shortest.
LEMMA ShortestTrail ==
  ASSUME NEW t, NEW q \in Shortest(t)
  PROVE  \E d \in 1 .. MAX_BFS_PATH_LEN :
           /\ IsTrail(t, d, q) /\ q[d] \notin Positions
           /\ \A i, j \in 1 .. d : q[i] = q[j] => i = j
<1>1. PICK d \in 1 .. MAX_BFS_PATH_LEN :
        q \in FreeTrails(t, d) /\ \A c \in 1 .. d - 1 : FreeTrails(t, c) = {}
  BY DEF Shortest
<1>2. IsTrail(t, d, q) /\ q[d] \notin Positions
  BY <1>1, TrailIs
<1>3. ASSUME NEW i \in 1 .. d, NEW j \in 1 .. d, i < j, q[i] = q[j]
      PROVE  FALSE
  <2>1. d \in Nat /\ i \in Nat /\ j \in Nat
    BY MapAssumption
  <2>2. j < d
    BY <1>2, <1>3, <2>1 DEF IsTrail
  <2> DEFINE g == j - i
             c == d - g
             r == [k \in 1 .. c |-> IF k <= i THEN q[k] ELSE q[k + g]]
  <2>3. /\ g \in Nat \ {0} /\ c \in Nat /\ i <= c /\ 1 <= c /\ c < d
        /\ c \in 1 .. MAX_BFS_PATH_LEN /\ c \in 1 .. d - 1
    BY <1>3, <2>1, <2>2, MapAssumption
  <2>4. \A k \in 1 .. c : k + g \in Nat /\ (k > i => k + g \in 1 .. d)
    BY <2>1, <2>3
  <2>5. r[c] = q[d]
    BY <2>1, <2>2, <2>3
  <2>6. r[1] = q[1]
    BY <1>3, <2>1, <2>3
  <2>7. r \in [1 .. c -> Buckets(hashpower) \X Slots]
    <3>1. ASSUME NEW k \in 1 .. c PROVE (IF k <= i THEN q[k] ELSE q[k + g]) \in Buckets(hashpower) \X Slots
      <4>1. k <= i => k \in 1 .. d
        BY <2>1, <3>1
      <4>2. \A m \in 1 .. d : q[m] \in Buckets(hashpower) \X Slots
        BY <1>2 DEF IsTrail
      <4> QED
        BY <2>1, <2>4, <4>1, <4>2
    <3> QED
      BY <3>1
  <2>8. ASSUME NEW k \in 1 .. c - 1 PROVE r[k] \in Positions /\ r[k + 1][1] = Beyond(r[k])
    <3>1. \A m \in 1 .. d - 1 : q[m] \in Positions /\ q[m + 1][1] = Beyond(q[m])
      BY <1>2 DEF IsTrail
    <3>2. CASE k < i
      <4>1. r[k] = q[k] /\ r[k + 1] = q[k + 1] /\ k \in 1 .. d - 1
        BY <2>1, <2>3, <3>2
      <4> QED
        BY <3>1, <4>1
    <3>3. CASE k = i
      <4>1. r[k] = q[j] /\ r[k + 1] = q[j + 1] /\ j \in 1 .. d - 1
        BY <1>3, <2>1, <2>2, <2>3, <3>3
      <4> QED
        BY <3>1, <4>1
    <3>4. CASE k > i
      <4>1. r[k] = q[k + g] /\ r[k + 1] = q[k + g + 1] /\ k + g \in 1 .. d - 1
        BY <2>1, <2>3, <3>4
      <4> QED
        BY <3>1, <4>1
    <3> QED
      BY <2>1, <3>2, <3>3, <3>4
  <2> HIDE DEF r, c
  <2>9. IsTrail(t, c, r)
    BY <1>2, <2>6, <2>7, <2>8 DEF IsTrail
  <2>10. r \in FreeTrails(t, c)
    BY <1>2, <2>3, <2>5, <2>9, TrailIs
  <2> QED
    BY <1>1, <2>3, <2>10
<1>4. \A i, j \in 1 .. d : q[i] = q[j] => i = j
  <2> TAKE i, j \in 1 .. d
  <2>1. i \in Nat /\ j \in Nat
    BY MapAssumption
  <2> QED
    BY <1>3, <2>1
<1> QED
  BY <1>2, <1>4

\* What a move along the path q of d positions makes of the table.
Moved(t, d, q) ==
  /\ EntryAt(q[1])' = NewEntry(t)
  /\ \A i \in 2 .. d : EntryAt(q[i])' = EntryAt(q[i - 1])
  /\ \A p \in Buckets(hashpower) \X Slots :
       (\A i \in 1 .. d : q[i] # p) => EntryAt(p)' = EntryAt(p)

Simple(d, q) == \A i, j \in 1 .. d : q[i] = q[j] => i = j

LEMMA MovedEntries ==
  ASSUME SeenInv, NEW t, NEW d \in Nat \ {0},
         NEW q \in [1 .. d -> Buckets(hashpower) \X Slots],
         Simple(d, q), MoveAlong(t, q)
  PROVE  Moved(t, d, q)
<1> USE DEF Simple
<1>1. Len(q) = d
  BY LenProperties
<1> DEFINE C(b, s) ==
             IF <<b, s>> = q[1] THEN NewEntry(t)
             ELSE IF \E i \in 2 .. Len(q) : q[i] = <<b, s>>
                  THEN LET i == CHOOSE i \in 2 .. Len(q) : q[i] = <<b, s>>
                       IN  buckets[q[i - 1][1]][q[i - 1][2]]
             ELSE buckets[b][s]
<1>2. buckets' = [b \in Buckets(hashpower) |-> [s \in Slots |-> C(b, s)]]
  <2>1. DOMAIN buckets = Buckets(hashpower)
    BY TableTypes
  <2> QED
    BY <2>1 DEF MoveAlong
<1>3. \A b, s : <<b, s>> = q[1] => C(b, s) = NewEntry(t)
  OBVIOUS
<1>4. ASSUME NEW i \in 2 .. d, NEW b, NEW s, q[i] = <<b, s>>
      PROVE  C(b, s) = EntryAt(q[i - 1])
  <2>1. <<b, s>> # q[1]
    <3>1. 1 \in 1 .. d /\ i \in 1 .. d /\ i # 1
      OBVIOUS
    <3> QED
      BY <1>4, <3>1
  <2> DEFINE j == CHOOSE j \in 2 .. Len(q) : q[j] = <<b, s>>
  <2>2. j \in 2 .. d /\ q[j] = <<b, s>>
    BY <1>1, <1>4
  <2>3. C(b, s) = buckets[q[j - 1][1]][q[j - 1][2]]
    BY <1>1, <1>4, <2>1
  <2> HIDE DEF j, C
  <2>4. i \in 1 .. d /\ j \in 1 .. d
    BY <2>2
  <2>5. j = i
    BY <1>4, <2>2, <2>4
  <2> QED
    BY <2>3, <2>5 DEF EntryAt
<1>5. ASSUME NEW b, NEW s, \A i \in 1 .. d : q[i] # <<b, s>>
      PROVE  C(b, s) = buckets[b][s]
  <2>1. <<b, s>> # q[1]
    BY <1>5
  <2>2. ~\E i \in 2 .. Len(q) : q[i] = <<b, s>>
    BY <1>1, <1>5
  <2> QED
    BY <2>1, <2>2
<1> HIDE DEF C
<1>6. \A b \in Buckets(hashpower), s \in Slots : buckets'[b][s] = C(b, s)
  BY <1>2
<1>7. EntryAt(q[1])' = NewEntry(t)
  <2>1. PICK b \in Buckets(hashpower), s \in Slots : q[1] = <<b, s>>
    OBVIOUS
  <2>2. buckets'[b][s] = NewEntry(t)
    BY <1>3, <1>6, <2>1
  <2> QED
    BY <2>1, <2>2 DEF EntryAt
<1>8. ASSUME NEW i \in 2 .. d PROVE EntryAt(q[i])' = EntryAt(q[i - 1])
  <2>1. PICK b \in Buckets(hashpower), s \in Slots : q[i] = <<b, s>>
    OBVIOUS
  <2>2. EntryAt(q[i])' = buckets'[b][s]
    BY <2>1 DEF EntryAt
  <2> QED
    BY <1>4, <1>6, <2>1, <2>2
<1>9. ASSUME NEW p \in Buckets(hashpower) \X Slots, \A i \in 1 .. d : q[i] # p
      PROVE  EntryAt(p)' = EntryAt(p)
  <2>1. PICK b \in Buckets(hashpower), s \in Slots : p = <<b, s>>
    OBVIOUS
  <2>2. EntryAt(p)' = buckets'[b][s] /\ EntryAt(p) = buckets[b][s]
    BY <2>1 DEF EntryAt
  <2>3. \A i \in 1 .. d : q[i] # <<b, s>>
    BY <1>9, <2>1
  <2>4. C(b, s) = buckets[b][s]
    BY <1>5, <2>3
  <2> QED
    BY <1>6, <2>2, <2>4
<1> QED
  BY <1>7, <1>8, <1>9 DEF Moved

\* The next position of a path is in the other bucket of its item's key.
LEMMA BeyondIsOther ==
  ASSUME SeenInv, Placed, NEW p \in Positions
  PROVE  /\ Beyond(p) \in BucketsOf(hashpower, Hash[KeyAt(p)])
         /\ \A b \in BucketsOf(hashpower, Hash[KeyAt(p)]) : b = p[1] \/ b = Beyond(p)
<1> DEFINE hv == Hash[KeyAt(p)]
<1>1. p[1] \in BucketsOf(hashpower, hv)
  BY DEF Placed
<1> HIDE DEF hv
<1>2. BucketsOf(hashpower, hv) = {p[1], alt_index(hashpower, partial_key(hv), p[1])}
  <2>1. p[1] \in Map!BucketsOf(hashpower, hv)
    BY <1>1, SameIndex
  <2>2. Map!BucketsOf(hashpower, hv)
          = {p[1], Map!alt_index(hashpower, Map!partial_key(hv), p[1])}
    BY <2>1, Map!OtherBucket, SameIndex, SameTypes,
       IndexAssumption, MapAssumption, FreeAssumption, NoneAssumption
  <2>3. /\ Map!BucketsOf(hashpower, hv) = BucketsOf(hashpower, hv)
        /\ Map!partial_key(hv) = partial_key(hv)
        /\ Map!alt_index(hashpower, partial_key(hv), p[1])
             = alt_index(hashpower, partial_key(hv), p[1])
    BY SameIndex
  <2> QED
    BY <2>2, <2>3
<1> USE DEF hv
<1> QED
  BY <1>2 DEF Beyond

LEMMA MovedData ==
  ASSUME SeenInv, Placed, NoDuplicates, NEW t \in Threads, pc[t] = "owned",
         req[t].op = "insert", cuckoo_find(t) = {}, NEW q \in Shortest(t),
         MoveAlong(t, q), hashpower' = hashpower
  PROVE  /\ Placed' /\ NoDuplicates' /\ q[1] \in Positions'
         /\ Items' = Items \cup {NewEntry(t)} /\ KeyAt(q[1])' = req[t].key
         /\ \E p : p \notin Positions /\ Positions' = Positions \cup {p}
<1>1. PICK d \in 1 .. MAX_BFS_PATH_LEN :
        /\ IsTrail(t, d, q) /\ q[d] \notin Positions
        /\ \A i, j \in 1 .. d : q[i] = q[j] => i = j
  BY ShortestTrail
<1>2. d \in Nat \ {0} /\ 1 \in 1 .. d /\ d \in 1 .. d
  BY MapAssumption
<1>3. /\ q \in [1 .. d -> Buckets(hashpower) \X Slots]
      /\ q[1][1] \in {first(t), second(t)}
      /\ \A i \in 1 .. d - 1 : q[i] \in Positions /\ q[i + 1][1] = Beyond(q[i])
  BY <1>1 DEF IsTrail
<1>4. /\ EntryAt(q[1])' = NewEntry(t)
      /\ \A i \in 2 .. d : EntryAt(q[i])' = EntryAt(q[i - 1])
      /\ \A p \in Buckets(hashpower) \X Slots :
           (\A i \in 1 .. d : q[i] # p) => EntryAt(p)' = EntryAt(p)
  <2>1. Simple(d, q)
    BY <1>1 DEF Simple
  <2>2. Moved(t, d, q)
    BY <1>2, <1>3, <2>1, MovedEntries
  <2> QED
    BY <2>2 DEF Moved
<1>5. \A p : p \in Positions <=> p \in Buckets(hashpower) \X Slots /\ EntryAt(p) # Free
  BY DEF Positions, occupied, EntryAt
<1>6. \A p : p \in Positions' <=> p \in Buckets(hashpower) \X Slots /\ EntryAt(p)' # Free
  BY DEF Positions, occupied, EntryAt
<1>7. NewEntry(t) # Free
  BY OwnedEntry, FreeAssumption
\* Every position of the new table has its item from a position of the old
\* one, but for the first position of the path.
<1>8. ASSUME NEW i \in 1 .. d PROVE q[i] \in Positions'
  <2>1. CASE i = 1
    BY <1>3, <1>4, <1>6, <1>7, <2>1
  <2>2. CASE i \in 2 .. d
    <3>1. i - 1 \in 1 .. d - 1
      BY <1>2, <2>2
    <3>2. EntryAt(q[i - 1]) # Free
      BY <1>3, <1>5, <3>1
    <3> QED
      BY <1>3, <1>4, <1>6, <2>2, <3>2
  <2> QED
    BY <1>2, <2>1, <2>2
<1>9. Positions' = Positions \cup {q[d]}
  <2>1. ASSUME NEW p, \E i \in 1 .. d : p = q[i]
        PROVE  p \in Positions' /\ p \in Positions \cup {q[d]}
    <3>1. PICK i \in 1 .. d : p = q[i]
      BY <2>1
    <3>2. CASE i = d
      BY <1>8, <3>1, <3>2
    <3>3. CASE i \in 1 .. d - 1
      BY <1>3, <1>8, <3>1, <3>3
    <3> QED
      BY <1>2, <3>2, <3>3
  <2>2. ASSUME NEW p, \A i \in 1 .. d : p # q[i]
        PROVE  p \in Positions' <=> p \in Positions \cup {q[d]}
    <3>1. p # q[d]
      BY <1>2, <2>2
    <3>2. p \in Buckets(hashpower) \X Slots => EntryAt(p)' = EntryAt(p)
      BY <1>4, <2>2
    <3> QED
      BY <1>5, <1>6, <3>1, <3>2
  <2> QED
    BY <2>1, <2>2
<1>10. ASSUME NEW p \in Positions'
       PROVE  \/ p = q[1]
              \/ \E o \in Positions : /\ EntryAt(p)' = EntryAt(o)
                                      /\ p[1] \in {o[1], Beyond(o)}
                                      /\ \/ p = o /\ \A i \in 1 .. d : q[i] # p
                                         \/ \E i \in 2 .. d : p = q[i] /\ o = q[i - 1]
  <2>1. CASE \A i \in 1 .. d : q[i] # p
    <3>1. p \in Positions
      BY <1>2, <1>9, <2>1
    <3>2. EntryAt(p)' = EntryAt(p)
      BY <1>4, <1>6, <2>1
    <3> QED
      BY <2>1, <3>1, <3>2
  <2>2. ASSUME NEW i \in 1 .. d, q[i] = p, i # 1
        PROVE  \E o \in Positions : /\ EntryAt(p)' = EntryAt(o)
                                    /\ p[1] \in {o[1], Beyond(o)}
                                    /\ \E j \in 2 .. d : p = q[j] /\ o = q[j - 1]
    <3>1. i \in 2 .. d /\ i - 1 \in 1 .. d - 1 /\ (i - 1) + 1 = i
      BY <1>2, <2>2
    <3>2. q[i - 1] \in Positions /\ q[(i - 1) + 1][1] = Beyond(q[i - 1])
      BY <1>3, <3>1
    <3>3. EntryAt(p)' = EntryAt(q[i - 1])
      BY <1>4, <2>2, <3>1
    <3> QED
      BY <2>2, <3>1, <3>2, <3>3
  <2> QED
    BY <2>1, <2>2
<1>11. ASSUME NEW o \in Positions
       PROVE  \E p \in Positions' : p # q[1] /\ EntryAt(p)' = EntryAt(o)
  <2>1. CASE \A i \in 1 .. d : q[i] # o
    BY <1>2, <1>4, <1>5, <1>9, <2>1
  <2>2. ASSUME NEW i \in 1 .. d, q[i] = o
        PROVE  \E p \in Positions' : p # q[1] /\ EntryAt(p)' = EntryAt(o)
    <3>1. i # d
      BY <1>1, <2>2
    <3>2. i + 1 \in 2 .. d /\ i + 1 \in 1 .. d /\ i + 1 # 1 /\ (i + 1) - 1 = i
      BY <1>2, <2>2, <3>1
    <3>3. EntryAt(q[i + 1])' = EntryAt(q[(i + 1) - 1])
      BY <1>4, <3>2
    <3>4. q[i + 1] # q[1]
      BY <1>1, <1>2, <3>2
    <3> QED
      BY <1>8, <2>2, <3>2, <3>3, <3>4
  <2> QED
    BY <2>1, <2>2
<1>12. NewEntry(t).key = req[t].key /\ \A p : KeyAt(p) = EntryAt(p).key /\ KeyAt(p)' = EntryAt(p)'.key
  BY DEF NewEntry, EntryAt, KeyAt
<1>13. Placed'
  <2> SUFFICES ASSUME NEW p \in Positions'
               PROVE  p[1] \in BucketsOf(hashpower, Hash[KeyAt(p)'])
    BY DEF Placed
  <2>1. CASE p = q[1]
    BY <1>3, <1>4, <1>12, <2>1, OwnedKeyBuckets
  <2>2. ASSUME NEW o \in Positions, EntryAt(p)' = EntryAt(o), p[1] \in {o[1], Beyond(o)}
        PROVE  p[1] \in BucketsOf(hashpower, Hash[KeyAt(p)'])
    <3>1. KeyAt(p)' = KeyAt(o)
      BY <1>12, <2>2
    <3>2. o[1] \in BucketsOf(hashpower, Hash[KeyAt(o)])
      BY DEF Placed
    <3>3. Beyond(o) \in BucketsOf(hashpower, Hash[KeyAt(o)])
      BY BeyondIsOther
    <3> QED
      BY <2>2, <3>1, <3>2, <3>3
  <2> QED
    BY <1>10, <2>1, <2>2
<1>14. NoDuplicates'
  <2>1. ASSUME NEW p \in Positions', p # q[1] PROVE KeyAt(p)' # req[t].key
    BY <1>10, <1>12, <2>1, OwnedNotFound
  <2>2. KeyAt(q[1])' = req[t].key
    BY <1>4, <1>12
  <2>3. ASSUME NEW p \in Positions', NEW r \in Positions', p # q[1], r # q[1],
               KeyAt(p)' = KeyAt(r)'
        PROVE  p = r
    <3>1. PICK o \in Positions : /\ EntryAt(p)' = EntryAt(o)
                                 /\ \/ p = o /\ \A i \in 1 .. d : q[i] # p
                                    \/ \E i \in 2 .. d : p = q[i] /\ o = q[i - 1]
      BY <1>10, <2>3
    <3>2. PICK u \in Positions : /\ EntryAt(r)' = EntryAt(u)
                                 /\ \/ r = u /\ \A i \in 1 .. d : q[i] # r
                                    \/ \E i \in 2 .. d : r = q[i] /\ u = q[i - 1]
      BY <1>10, <2>3
    <3>3. KeyAt(o) = KeyAt(u)
      BY <1>12, <2>3, <3>1, <3>2
    <3>4. o = u
      BY <3>3 DEF NoDuplicates
    <3>5. \A i \in 2 .. d : i - 1 \in 1 .. d /\ i - 1 \in Int
      BY <1>2
    <3>6. ASSUME NEW i \in 2 .. d, NEW j \in 2 .. d, q[i - 1] = q[j - 1]
          PROVE  q[i] = q[j]
      <4>1. i - 1 = j - 1
        BY <1>1, <3>5, <3>6
      <4>2. i = j
        BY <4>1
      <4> QED
        BY <4>2
    <3> QED
      BY <3>1, <3>2, <3>4, <3>5, <3>6
  <2> QED
    BY <2>1, <2>2, <2>3 DEF NoDuplicates
<1>15. Items' = Items \cup {NewEntry(t)}
  <2>1. \A e \in Items : e \in Items'
    <3> SUFFICES ASSUME NEW o \in Positions PROVE EntryAt(o) \in Items'
      BY ItemsAre
    <3> QED
      BY <1>11, ItemsAreNext
  <2>2. NewEntry(t) \in Items'
    BY <1>2, <1>4, <1>8, ItemsAreNext
  <2>3. \A e \in Items' : e \in Items \cup {NewEntry(t)}
    <3> SUFFICES ASSUME NEW p \in Positions' PROVE EntryAt(p)' \in Items \cup {NewEntry(t)}
      BY ItemsAreNext
    <3>1. CASE p = q[1]
      BY <1>4, <3>1
    <3>2. ASSUME NEW o \in Positions, EntryAt(p)' = EntryAt(o) PROVE EntryAt(p)' \in Items
      BY <3>2, ItemsAre
    <3> QED
      BY <1>10, <3>1, <3>2
  <2> QED
    BY <2>1, <2>2, <2>3
<1> QED
  BY <1>1, <1>2, <1>4, <1>8, <1>9, <1>12, <1>13, <1>14, <1>15

----------------------------------------------------------------------------
(* The owner's doubling: all buckets are split at once.                    *)

\* The table is twice as long, every bucket split.
Splits ==
  /\ hashpower' = hashpower + 1
  /\ buckets' = [b \in Buckets(hashpower + 1) |->
                   IF hashpower \in b THEN Risen(hashpower, b \ {hashpower})
                   ELSE LowerHalf(hashpower, b)]

\* The lemmas on one bucket's split that CuckooDict_proofs has.
LEMMA RisesRight ==
  ASSUME SeenInv, Placed, NEW o \in Positions
  PROVE  (IF o[2] \in Rising(hashpower, o[1]) THEN o[1] \cup {hashpower} ELSE o[1])
           \in BucketsOf(hashpower + 1, Hash[KeyAt(o)])
<1> DEFINE b == o[1]
           s == o[2]
<1>1. s \in Slots /\ occupied(b, s) /\ hashpower \in Nat
  BY TableTypes DEF Positions
<1>2. b \in BucketsOf(hashpower, Hash[buckets[b][s].key])
  BY DEF Placed, KeyAt
<1> HIDE DEF b, s
<1>3. /\ s \in Map!Slots /\ Map!occupied(b, s)
      /\ b \in Map!BucketsOf(hashpower, Hash[buckets[b][s].key])
  BY <1>1, <1>2, SameIndex, SameTypes, SameTable
<1>4. (IF s \in Map!Rising(hashpower, b) THEN b \cup {hashpower} ELSE b)
        \in Map!BucketsOf(hashpower + 1, Hash[buckets[b][s].key])
  BY <1>1, <1>3, Map!RisingRight, SameIndex, SameTypes,
     IndexAssumption, MapAssumption, FreeAssumption, NoneAssumption
<1>5. (IF s \in Rising(hashpower, b) THEN b \cup {hashpower} ELSE b)
        \in BucketsOf(hashpower + 1, Hash[buckets[b][s].key])
  BY <1>4, SameSplit, SameIndex
<1> QED
  BY <1>5 DEF b, s, KeyAt

Rank(hp, b, s) == Cardinality({ r \in Rising(hp, b) : r < s })

LEMMA RoseFrom ==
  ASSUME NEW b, NEW i \in Slots, Risen(hashpower, b)[i] # Free
  PROVE  \E s \in Rising(hashpower, b) :
           Risen(hashpower, b)[i] = buckets[b][s] /\ Rank(hashpower, b, s) = i
<1> DEFINE R == Rising(hashpower, b)
           N == { s \in R : Rank(hashpower, b, s) = i }
<1>1. Risen(hashpower, b)[i] = IF N # {} THEN buckets[b][CHOOSE s \in N : TRUE] ELSE Free
  BY DEF Risen, Rank
<1>2. (CHOOSE s \in N : TRUE) \in N
  BY <1>1
<1> QED
  BY <1>1, <1>2

LEMMA RisesTo ==
  ASSUME NEW b, NEW s \in Rising(hashpower, b)
  PROVE  \E i \in Slots : Risen(hashpower, b)[i] = buckets[b][s]
<1>1. s \in Map!Rising(hashpower, b)
  BY SameSplit
<1>2. \E i \in Map!Slots : Map!Risen(hashpower, b)[i] = buckets[b][s]
  BY <1>1, Map!RisenTo, SameIndex, SameTypes,
     IndexAssumption, MapAssumption, FreeAssumption, NoneAssumption
<1> QED
  BY <1>2, SameSplit, SameTypes

LEMMA SplitsFrom ==
  ASSUME SeenInv, Splits, NEW p \in Positions'
  PROVE  \E o \in Positions :
           /\ EntryAt(p)' = EntryAt(o)
           /\ \/ o[2] \notin Rising(hashpower, o[1]) /\ p = o
              \/ /\ o[2] \in Rising(hashpower, o[1])
                 /\ p = <<o[1] \cup {hashpower}, Rank(hashpower, o[1], o[2])>>
<1> DEFINE hp == hashpower
<1>1. hp \in Nat
  BY TableTypes
<1>2. p \in Buckets(hp + 1) \X Slots /\ buckets'[p[1]][p[2]] # Free
  BY DEF Positions, occupied, Splits
<1>3. CASE hp \in p[1]
  <2> DEFINE b == p[1] \ {hp}
  <2>1. b \in Buckets(hp) /\ b \cup {hp} = p[1]
    BY <1>1, <1>2, <1>3 DEF Buckets, hashmask, Bits
  <2>2. buckets'[p[1]][p[2]] = Risen(hp, b)[p[2]]
    BY <1>2, <1>3 DEF Splits
  <2> HIDE DEF b
  <2>3. PICK s \in Rising(hp, b) :
          Risen(hp, b)[p[2]] = buckets[b][s] /\ Rank(hp, b, s) = p[2]
    BY <1>2, <2>2, RoseFrom
  <2>4. s \in Slots /\ occupied(b, s)
    BY DEF Rising
  <2>5. <<b, s>> \in Positions /\ EntryAt(p)' = EntryAt(<<b, s>>)
    BY <2>1, <2>2, <2>3, <2>4 DEF Positions, EntryAt
  <2>6. p = <<b \cup {hp}, Rank(hp, b, s)>>
    BY <1>2, <2>1, <2>3
  <2> QED
    BY <2>3, <2>5, <2>6
<1>4. CASE hp \notin p[1]
  <2>1. p[1] \in Buckets(hp)
    BY <1>1, <1>2, <1>4 DEF Buckets, hashmask, Bits
  <2>2. buckets'[p[1]][p[2]] =
          IF p[2] \in Rising(hp, p[1]) THEN Free ELSE buckets[p[1]][p[2]]
    BY <1>2, <1>4 DEF Splits, LowerHalf
  <2>3. p[2] \notin Rising(hp, p[1]) /\ p \in Positions /\ EntryAt(p)' = EntryAt(p)
    BY <1>2, <2>1, <2>2 DEF Positions, occupied, EntryAt
  <2> QED
    BY <2>3
<1> QED
  BY <1>3, <1>4

LEMMA SplitsTo ==
  ASSUME SeenInv, Splits, NEW o \in Positions
  PROVE  \E p \in Positions' : EntryAt(p)' = EntryAt(o)
<1> DEFINE hp == hashpower
           b == o[1]
           s == o[2]
<1>0. EntryAt(o) = buckets[b][s]
  BY DEF EntryAt
<1>1. hp \in Nat /\ b \in Buckets(hp) /\ s \in Slots /\ buckets[b][s] # Free
  BY TableTypes DEF Positions, occupied
<1>2. /\ b \in Buckets(hp + 1) /\ b \cup {hp} \in Buckets(hp + 1) /\ hp \notin b
      /\ (b \cup {hp}) \ {hp} = b
  BY <1>1 DEF Buckets, hashmask, Bits
<1> HIDE DEF b, s
<1>3. \A c \in Buckets(hp + 1), i \in Slots :
        buckets'[c][i] # Free => <<c, i>> \in Positions' /\ EntryAt(<<c, i>>)' = buckets'[c][i]
  BY DEF Positions, occupied, EntryAt, Splits
<1>4. CASE s \in Rising(hp, b)
  <2>1. PICK i \in Slots : Risen(hp, b)[i] = buckets[b][s]
    BY <1>4, RisesTo
  <2>2. buckets'[b \cup {hp}][i] = buckets[b][s]
    BY <1>2, <2>1 DEF Splits
  <2>3. PICK c \in Buckets(hp + 1) : c = b \cup {hp}
    BY <1>2
  <2>4. buckets'[c][i] = buckets[b][s]
    BY <2>2, <2>3
  <2> QED
    BY <1>0, <1>1, <1>3, <2>4
<1>5. CASE s \notin Rising(hp, b)
  <2>1. buckets'[b][s] = buckets[b][s]
    BY <1>1, <1>2, <1>5 DEF Splits, LowerHalf
  <2>2. <<b, s>> \in Positions' /\ EntryAt(<<b, s>>)' = buckets[b][s]
    BY <1>1, <1>2, <1>3, <2>1
  <2> QED
    BY <1>0, <2>2
<1> QED
  BY <1>4, <1>5

LEMMA SplitData ==
  ASSUME SeenInv, Placed, NoDuplicates, Splits
  PROVE  Placed' /\ NoDuplicates' /\ Items' = Items
<1>1. \A p : KeyAt(p) = EntryAt(p).key /\ KeyAt(p)' = EntryAt(p)'.key
  BY DEF EntryAt, KeyAt
<1>2. Placed'
  <2> SUFFICES ASSUME NEW p \in Positions'
               PROVE  p[1] \in BucketsOf(hashpower + 1, Hash[KeyAt(p)'])
    BY DEF Placed, Splits
  <2>1. PICK o \in Positions :
           /\ EntryAt(p)' = EntryAt(o)
           /\ \/ o[2] \notin Rising(hashpower, o[1]) /\ p = o
              \/ /\ o[2] \in Rising(hashpower, o[1])
                 /\ p = <<o[1] \cup {hashpower}, Rank(hashpower, o[1], o[2])>>
    BY SplitsFrom
  <2>2. KeyAt(p)' = KeyAt(o)
    BY <1>1, <2>1
  <2>3. p[1] = IF o[2] \in Rising(hashpower, o[1]) THEN o[1] \cup {hashpower} ELSE o[1]
    BY <2>1
  <2> QED
    BY <2>2, <2>3, RisesRight
<1>3. NoDuplicates'
  <2>1. ASSUME NEW p \in Positions', NEW r \in Positions', KeyAt(p)' = KeyAt(r)'
        PROVE  p = r
    <3>1. PICK o \in Positions :
           /\ EntryAt(p)' = EntryAt(o)
           /\ \/ o[2] \notin Rising(hashpower, o[1]) /\ p = o
              \/ /\ o[2] \in Rising(hashpower, o[1])
                 /\ p = <<o[1] \cup {hashpower}, Rank(hashpower, o[1], o[2])>>
      BY SplitsFrom
    <3>2. PICK u \in Positions :
           /\ EntryAt(r)' = EntryAt(u)
           /\ \/ u[2] \notin Rising(hashpower, u[1]) /\ r = u
              \/ /\ u[2] \in Rising(hashpower, u[1])
                 /\ r = <<u[1] \cup {hashpower}, Rank(hashpower, u[1], u[2])>>
      BY SplitsFrom
    <3>3. KeyAt(o) = KeyAt(u)
      BY <1>1, <2>1, <3>1, <3>2
    <3>4. o = u
      BY <3>3 DEF NoDuplicates
    <3> QED
      BY <3>1, <3>2, <3>4
  <2> QED
    BY <2>1 DEF NoDuplicates
<1>4. Items' = Items
  <2>1. \A e \in Items : e \in Items'
    <3> SUFFICES ASSUME NEW o \in Positions PROVE EntryAt(o) \in Items'
      BY ItemsAre
    <3> QED
      BY SplitsTo, ItemsAreNext
  <2>2. \A e \in Items' : e \in Items
    <3> SUFFICES ASSUME NEW p \in Positions' PROVE EntryAt(p)' \in Items
      BY ItemsAreNext
    <3>1. PICK o \in Positions : EntryAt(p)' = EntryAt(o)
      BY SplitsFrom
    <3> QED
      BY <3>1, ItemsAre
  <2> QED
    BY <2>1, <2>2
<1> QED
  BY <1>2, <1>3, <1>4

----------------------------------------------------------------------------
(* The counters.                                                           *)

\* The counters add up to the number of items, modulo the number at which a
\* counter wraps.
Counted == Congruent(SumOf(counter, Locks), Cardinality(Items), CounterMod)

LEMMA SameCounted == Map!CountOK <=> Counted
<1>1. \A f, S : Map!SumOf(f, S) = SumOf(f, S)
  BY DEF Map!SumOf, SumOf, Map!MapThenSumSet, MapThenSumSet, Map!MapThenFoldSet, MapThenFoldSet
<1>2. \A a, b, m : Map!Congruent(a, b, m) <=> Congruent(a, b, m)
  BY DEF Map!Congruent, Congruent
<1>3. Map!Items = Items
  BY SamePlace DEF Map!Items, Items, Map!EntryAt
<1>4. Map!Locks = Locks
  BY SameIndex
<1> QED
  BY <1>1, <1>2, <1>3, <1>4, SameCardinality DEF Map!CountOK, Counted

LEMMA CounterTypes ==
  ASSUME SeenInv
  PROVE  /\ IsFiniteSet(Locks) /\ counter \in [Locks -> Int] /\ SumOf(counter, Locks) \in Int
         /\ IsFiniteSet(Items) /\ Cardinality(Items) \in Nat
<1>1. IsFiniteSet(Bits(LockBits))
  BY FS_Interval, IndexAssumption DEF Bits
<1>2. IsFiniteSet(Locks)
  BY <1>1, FS_SUBSET DEF Locks
<1>3. counter \in [Locks -> Int]
  BY TableTypes, MapAssumption DEF Counts
<1>4. SumOf(counter, Locks) \in Int
  BY <1>2, <1>3, SumType
<1>5. IsFiniteSet(Items)
  <2> DEFINE f == [p \in Positions |-> EntryAt(p)]
  <2>1. f \in Surjection(Positions, Items)
    <3>1. f \in [Positions -> Items] /\ \A e \in Items : \E p \in Positions : f[p] = e
      BY ItemsAre
    <3> HIDE DEF f
    <3> QED
      BY <3>1 DEF Surjection
  <2> HIDE DEF f
  <2> QED
    BY <2>1, FinitePositions, FS_Surjection
<1> QED
  BY <1>2, <1>3, <1>4, <1>5, FS_CardinalityType

\* The counters and the items go on together.
LEMMA CountsOn ==
  ASSUME SeenInv, Counted, NEW d \in Int, NEW n \in Int,
         Congruent(n, SumOf(counter, Locks) + d, CounterMod)
  PROVE  Congruent(n, Cardinality(Items) + d, CounterMod)
<1>1. PICK b \in Int : b = SumOf(counter, Locks)
  BY CounterTypes
<1>2. PICK c \in Int : c = Cardinality(Items)
  BY CounterTypes
<1>3. CounterMod \in Nat
  BY MapAssumption
<1>4. Congruent(n, b + d, CounterMod) /\ Congruent(b, c, CounterMod)
  BY <1>1, <1>2 DEF Counted
<1>5. Congruent(b + d, c + d, CounterMod)
  BY <1>3, <1>4, CongruentPlus
<1>6. Congruent(n, c + d, CounterMod)
  BY <1>3, <1>4, <1>5, CongruentTrans
<1> QED
  BY <1>2, <1>6

\* One counter changes by d.
LEMMA OneCounts ==
  ASSUME SeenInv, Counted, NEW l \in Locks, NEW d \in Int, Count(l, d),
         Cardinality(Items') = Cardinality(Items) + d
  PROVE  Counted'
<1>1. counter' = [counter EXCEPT ![l] = (counter[l] + d) % CounterMod]
  BY DEF Count
<1> DEFINE v == (counter[l] + d) % CounterMod
<1>2. counter[l] \in Int /\ counter[l] + d \in Int /\ CounterMod \in Nat \ {0}
  BY CounterTypes, MapAssumption
<1>3. v \in Int /\ Congruent(v, counter[l] + d, CounterMod)
  BY <1>2, ModCongruent
<1> HIDE DEF v
<1>4. PICK f : f = counter /\ f \in [Locks -> Int]
  BY CounterTypes
<1>5. SumOf([f EXCEPT ![l] = v], Locks) = SumOf(f, Locks) + (v - f[l])
  BY <1>3, <1>4, CounterTypes, SumChanges
<1>6. counter' = [f EXCEPT ![l] = v]
  BY <1>1, <1>4 DEF v
<1>7. SumOf(counter', Locks) = SumOf(counter, Locks) + (v - counter[l])
  BY <1>4, <1>5, <1>6
<1>8. PICK r \in Int : r = SumOf(counter, Locks) - counter[l]
  BY <1>2, CounterTypes
<1>9. SumOf(counter', Locks) = v + r /\ SumOf(counter, Locks) + d = (counter[l] + d) + r
  BY <1>2, <1>3, <1>7, <1>8, CounterTypes
<1>10. Congruent(v + r, (counter[l] + d) + r, CounterMod)
  BY <1>2, <1>3, CongruentPlus
<1>11. Congruent(SumOf(counter', Locks), SumOf(counter, Locks) + d, CounterMod)
  BY <1>9, <1>10
<1>12. SumOf(counter', Locks) \in Int
  BY <1>3, <1>9
<1>13. Congruent(SumOf(counter', Locks), Cardinality(Items) + d, CounterMod)
  BY <1>11, <1>12, CountsOn
<1> QED
  BY <1>13 DEF Counted

LEMMA SameCounts ==
  ASSUME Counted, counter' = counter, Items' = Items
  PROVE  Counted'
BY DEF Counted

LEMMA EmptiedCounts ==
  ASSUME SeenInv, Emptied, hashpower' = hashpower
  PROVE  Counted'
<1>1. SumOf(counter', Locks) = 0
  BY CounterTypes, SumOfZeros DEF Emptied
<1>2. Cardinality(Items') = 0
  BY EmptiedData, FS_EmptySet
<1>3. 0 = 0 + 0 * CounterMod
  BY MapAssumption
<1>4. Congruent(0, 0, CounterMod)
  BY ONLY <1>3 DEF Congruent
<1> QED
  BY <1>1, <1>2, <1>4 DEF Counted

\* A doubling moves items from one lock to another, and counts them there.
LEMMA DoubledCounts ==
  ASSUME SeenInv, Placed, NoDuplicates, Counted, NEW t \in Threads, OwnedDouble(t)
  PROVE  Counted'
<1> DEFINE hp == hashpower
           rising == { p \in Positions : p[2] \in Rising(hp, p[1]) }
           from(l) == { p \in rising : lock_ind(p[1]) = l }
           into(l) == { p \in rising : lock_ind(p[1] \cup {hp}) = l }
           old == [p \in rising |-> lock_ind(p[1])]
           new == [p \in rising |-> lock_ind(p[1] \cup {hp})]
           goes == [l \in Locks |-> Cardinality({ p \in rising : old[p] = l })]
           comes == [l \in Locks |-> Cardinality({ p \in rising : new[p] = l })]
<1>1. counter' = [l \in Locks |->
                    (counter[l] - Cardinality(from(l)) + Cardinality(into(l))) % CounterMod]
  BY DEF OwnedDouble
<1>2. Items' = Items
  <2>1. Splits
    BY DEF OwnedDouble, Splits
  <2> QED
    BY <2>1, SplitData
<1>3. IsFiniteSet(rising)
  BY FinitePositions, FS_Subset
<1>4. old \in [rising -> Locks] /\ new \in [rising -> Locks]
  BY DEF lock_ind, Locks
<1>5. \A l \in Locks : from(l) = { p \in rising : old[p] = l } /\ into(l) = { p \in rising : new[p] = l }
  OBVIOUS
<1> HIDE DEF rising, old, new, from, into
<1>6. \A l \in Locks : goes[l] = Cardinality(from(l)) /\ comes[l] = Cardinality(into(l))
  BY <1>5
<1>7. /\ goes \in [Locks -> Int] /\ SumOf(goes, Locks) = Cardinality(rising)
      /\ comes \in [Locks -> Int] /\ SumOf(comes, Locks) = Cardinality(rising)
  BY <1>3, <1>4, CounterTypes, SumOfFibres
<1> HIDE DEF goes, comes
<1>8. PICK f : f = counter /\ f \in [Locks -> Int]
  BY CounterTypes
<1>9. CounterMod \in Nat \ {0} /\ CounterMod \in Nat
  BY MapAssumption
<1>10. ASSUME NEW l \in Locks
       PROVE  /\ counter'[l] \in Int
              /\ Congruent(counter'[l], f[l] - goes[l] + comes[l], CounterMod)
  <2>1. PICK n \in Int : n = f[l] - goes[l] + comes[l]
    BY <1>7, <1>8
  <2>2. counter'[l] = n % CounterMod
    BY <1>1, <1>6, <1>8, <2>1
  <2>3. n % CounterMod \in Int /\ Congruent(n % CounterMod, n, CounterMod)
    BY <1>9, ModCongruent
  <2> QED
    BY <2>1, <2>2, <2>3
<1>11. counter' \in [Locks -> Int]
  BY <1>1, <1>10
<1>12. PICK e : e = counter' /\ e \in [Locks -> Int]
  BY <1>11
<1>13. \A l \in Locks : Congruent(e[l], f[l] - goes[l] + comes[l], CounterMod)
  BY <1>10, <1>12
<1>14. Congruent(SumOf(e, Locks), SumOf(f, Locks) - SumOf(goes, Locks) + SumOf(comes, Locks),
                 CounterMod)
  BY <1>7, <1>8, <1>9, <1>12, <1>13, CounterTypes, SumsAreCongruent
<1>15. SumOf(f, Locks) \in Int /\ Cardinality(rising) \in Int
  BY <1>3, <1>8, CounterTypes, FS_CardinalityType
<1>16. SumOf(f, Locks) - SumOf(goes, Locks) + SumOf(comes, Locks) = SumOf(f, Locks) + 0
  BY <1>7, <1>15
<1>17. Congruent(SumOf(counter', Locks), SumOf(counter, Locks) + 0, CounterMod)
  BY <1>8, <1>12, <1>14, <1>16
<1>18. SumOf(counter', Locks) \in Int
  BY <1>11, CounterTypes, SumType
<1>19. Congruent(SumOf(counter', Locks), Cardinality(Items) + 0, CounterMod)
  BY <1>17, <1>18, CountsOn
<1>20. Cardinality(Items) + 0 = Cardinality(Items)
  BY CounterTypes
<1> QED
  BY <1>2, <1>19, <1>20 DEF Counted

LEMMA RemovedCounts ==
  ASSUME SeenInv, Placed, NoDuplicates, Counted, NEW p \in Positions,
         Put(p[1], p[2], Free), hashpower' = hashpower, Count(lock_ind(p[1]), -1)
  PROVE  Counted'
<1>1. EntryAt(p) \in Items /\ Items' = Items \ {EntryAt(p)}
  BY RemovedData, ItemsAre
<1>2. Cardinality(Items') = Cardinality(Items) + (-1)
  BY <1>1, CounterTypes, FS_RemoveElement
<1>3. lock_ind(p[1]) \in Locks /\ -1 \in Int
  BY DEF lock_ind, Locks
<1> QED
  BY <1>2, <1>3, OneCounts

\* An insert's key is new, wherever its item goes.
LEMMA InsertedCounts ==
  ASSUME SeenInv, Placed, Counted, NEW t \in Threads, pc[t] = "owned",
         cuckoo_find(t) = {}, NEW b, Count(lock_ind(b), 1), Items' = Items \cup {NewEntry(t)}
  PROVE  Counted'
<1>1. NewEntry(t) \notin Items
  <2>1. NewEntry(t).key = req[t].key
    BY DEF NewEntry
  <2>2. \A p \in Positions : EntryAt(p).key # req[t].key
    BY OwnedNotFound DEF EntryAt, KeyAt
  <2> QED
    BY <2>1, <2>2, ItemsAre
<1>2. Cardinality(Items') = Cardinality(Items) + 1
  BY <1>1, CounterTypes, FS_AddElement
<1>3. lock_ind(b) \in Locks /\ 1 \in Int
  BY DEF lock_ind, Locks
<1> QED
  BY <1>2, <1>3, OneCounts

----------------------------------------------------------------------------
(* What the steps of a thread that is away make of the table.              *)

\* The table is in order: every item in its place, once, and counted.
TableOK == Placed /\ NoDuplicates /\ Counted

LEMMA SameOrder ==
  ASSUME TableOK, UNCHANGED <<hashpower, buckets, counter>>
  PROVE  TableOK'
<1>1. Positions' = Positions /\ \A p : KeyAt(p)' = KeyAt(p) /\ EntryAt(p)' = EntryAt(p)
  BY SamePositions DEF KeyAt, EntryAt
<1>2. Items' = Items
  BY <1>1, ItemsAre, ItemsAreNext
<1> QED
  BY <1>1, <1>2, SameCounts DEF TableOK, Placed, NoDuplicates

LEMMA OwnedInsertOrder ==
  ASSUME SeenInv, TableOK, NEW t \in Threads, OwnedInsert(t)
  PROVE  TableOK'
<1>1. /\ pc[t] = "owned" /\ req[t].op = "insert" /\ hashpower' = hashpower
      /\ Placed /\ NoDuplicates /\ Counted
  BY DEF OwnedInsert, Owns, TableOK
<1>2. CASE UNCHANGED <<buckets, counter>>
  BY <1>1, <1>2, SameOrder
<1>3. CASE /\ cuckoo_find(t) = {}
           /\ it' \in FreePosition(t) /\ Put(it'[1], it'[2], NewEntry(t))
           /\ Count(lock_ind(it'[1]), 1)
  <2>1. Placed' /\ NoDuplicates' /\ Items' = Items \cup {NewEntry(t)}
    BY <1>1, <1>3, StoredData
  <2> QED
    BY <1>1, <1>3, <2>1, InsertedCounts DEF TableOK
<1>4. ASSUME cuckoo_find(t) = {}, NEW q \in Shortest(t), MoveAlong(t, q),
             Count(lock_ind(it'[1]), 1)
      PROVE  TableOK'
  <2>1. Placed' /\ NoDuplicates' /\ Items' = Items \cup {NewEntry(t)}
    BY <1>1, <1>4, MovedData
  <2> QED
    BY <1>1, <1>4, <2>1, InsertedCounts DEF TableOK
<1> QED
  BY <1>2, <1>3, <1>4 DEF OwnedInsert

LEMMA OwnedOrder ==
  ASSUME SeenInv, TableOK, NEW t \in Threads, OwnedStep(t)
  PROVE  TableOK'
<1> USE DEF Owns
<1>1. Placed /\ NoDuplicates /\ Counted
  BY DEF TableOK
<1>2. CASE OwnedFind(t) \/ OwnedInsertThrows(t) \/ OwnedSize(t) \/ Iterate(t) \/ unlock(t)
  <2>1. UNCHANGED <<hashpower, buckets, counter>>
    BY <1>2 DEF OwnedFind, OwnedInsertThrows, OwnedSize, Iterate, unlock, table
  <2> QED
    BY <2>1, SameOrder
<1>3. CASE OwnedErase(t)
  <2>1. CASE UNCHANGED <<buckets, counter>>
    BY <1>3, <2>1, SameOrder DEF OwnedErase
  <2>2. ASSUME NEW p \in cuckoo_find(t), Put(p[1], p[2], Free), Count(lock_ind(p[1]), -1)
        PROVE  TableOK'
    <3>1. p \in Positions /\ hashpower' = hashpower
      BY <1>3, OwnedFoundKey DEF OwnedErase
    <3> QED
      BY <1>1, <2>2, <3>1, RemovedData, RemovedCounts DEF TableOK
  <2> QED
    BY <1>3, <2>1, <2>2 DEF OwnedErase
<1>4. CASE EraseAt(t)
  <2>1. it \in Positions
    BY <1>4, OwnedPlace DEF EraseAt, MayIterate
  <2> QED
    BY <1>1, <1>4, <2>1, RemovedData, RemovedCounts DEF EraseAt, TableOK
<1>5. CASE OwnedInsert(t)
  BY <1>5, OwnedInsertOrder
<1>6. CASE OwnedDouble(t)
  <2>1. Splits
    BY <1>6 DEF OwnedDouble, Splits
  <2> QED
    BY <1>1, <1>6, <2>1, SplitData, DoubledCounts DEF TableOK
<1>7. CASE OwnedClear(t)
  BY <1>7, EmptiedData, EmptiedCounts DEF OwnedClear, TableOK
<1>8. CASE OwnedResize(t)
  <2>1. CASE Rebuilt(t)
    BY <1>1, <1>8, <2>1, RebuiltData, SameCounts DEF OwnedResize, TableOK
  <2>2. CASE UNCHANGED <<hashpower, buckets>>
    BY <1>8, <2>2, SameOrder DEF OwnedResize
  <2> QED
    BY <1>8, <2>1, <2>2 DEF OwnedResize, NoRoom
<1> QED
  BY <1>2, <1>3, <1>4, <1>5, <1>6, <1>7, <1>8 DEF OwnedStep

LEMMA WholeOrder ==
  ASSUME SeenInv, TableOK, NEW t \in Threads, WholeStep(t)
  PROVE  TableOK'
<1>1. Placed /\ NoDuplicates /\ Counted
  BY DEF TableOK
<1>2. CASE ReadHashpower(t) \/ Grab(t) \/ LockTable(t)
  <2>1. UNCHANGED <<hashpower, buckets, counter>>
    BY <1>2 DEF ReadHashpower, Grab, LockTable, table
  <2> QED
    BY <2>1, SameOrder
<1>3. CASE Clear(t)
  BY <1>3, EmptiedData, EmptiedCounts DEF Clear, TableOK
<1>4. CASE Resize(t)
  <2>1. CASE Rebuilt(t)
    BY <1>1, <1>4, <2>1, RebuiltData, SameCounts DEF Resize, TableOK
  <2>2. CASE UNCHANGED <<hashpower, buckets>>
    BY <1>4, <2>2, SameOrder DEF Resize
  <2> QED
    BY <1>4, <2>1, <2>2 DEF Resize, NoRoom
<1> QED
  BY <1>2, <1>3, <1>4 DEF WholeStep

----------------------------------------------------------------------------
(* The invariant: that of CuckooMap on the items, for the table seen.      *)

ItemsInv == Map!DataInv /\ Map!CountOK

LEMMA QuietItems ==
  ASSUME SeenInv, SeenInv', ItemsInv, NEW t \in Threads, Unseen(t),
         UNCHANGED <<hashpower, buckets, counter>>
  PROVE  ItemsInv'
<1>1. Map!DataInv'
  BY UnseenData DEF ItemsInv
<1>2. Map!CountOK'
  BY Map!UntouchedCount, SameIndex, SameTypes,
     IndexAssumption, MapAssumption, FreeAssumption, NoneAssumption DEF ItemsInv
<1> QED
  BY <1>1, <1>2 DEF ItemsInv

LEMMA SameCountedNext == Map!CountOK' <=> Counted'
BY SameCounted, PTL

\* Who changes the table as a whole has all locks and finds it in order.
LEMMA AllItems ==
  ASSUME SeenInv, SeenInv', ItemsInv, NEW t \in Threads,
         pc[t] \in {"whole", "owned"}, WholeStep(t) \/ OwnedStep(t)
  PROVE  TableOK /\ TableOK' /\ ItemsInv'
<1>1. Away(t) /\ LocksHeld(t) = Locks
  BY WholePlace DEF AwayOK, AwayAt
<1>2. Placed /\ NoDuplicates
  BY <1>1, AllIsPlaced DEF ItemsInv
<1>3. TableOK
  BY <1>2, SameCounted DEF TableOK, ItemsInv
<1>4. TableOK'
  BY <1>3, OwnedOrder, WholeOrder
<1>5. Unseen(t)
  BY DEF Unseen
<1>6. Map!DataInv'
  BY <1>1, <1>4, <1>5, UnseenData DEF TableOK, ItemsInv
<1> QED
  BY <1>3, <1>4, <1>6, SameCountedNext DEF TableOK, ItemsInv

LEMMA UnseenItems ==
  ASSUME SeenInv, SeenInv', ItemsInv, NEW t \in Threads, Unseen(t)
  PROVE  ItemsInv'
<1>1. CASE ReadHashpower(t) \/ Grab(t)
  <2>1. UNCHANGED <<hashpower, buckets, counter>>
    BY <1>1 DEF ReadHashpower, Grab, table
  <2> QED
    BY <2>1, QuietItems
<1>2. CASE OwnedStep(t) \/ Clear(t) \/ Resize(t) \/ LockTable(t)
  <2>1. pc[t] \in {"whole", "owned"}
    BY <1>2 DEF OwnedStep, Clear, Resize, LockTable, OwnedFind, OwnedErase, OwnedInsert, OwnedDouble,
       OwnedInsertThrows, MustExpand, OwnedClear, OwnedResize, OwnedSize, Iterate, EraseAt, unlock,
       Owns
  <2> QED
    BY <1>2, <2>1, AllItems DEF WholeStep
<1>3. CASE \/ \E r \in WholeRequests : CallWhole(t, r)
           \/ \E r \in LockedRequests : MayIterate(r.op) /\ CallLocked(t, r)
           \/ Away(t) /\ Return(t) /\ UNCHANGED own
  <2>1. UNCHANGED <<hashpower, buckets, counter>>
    BY <1>3 DEF CallWhole, CallLocked, Return, table
  <2> QED
    BY <2>1, QuietItems
<1> QED
  BY <1>1, <1>2, <1>3 DEF Unseen, WholeStep

\* A step of a thread that is there is one of the table seen.
LEMMA SeenSteps ==
  ASSUME SeenInv, NEW t \in Threads,
         \/ ~Away(t) /\ Step(t) /\ UNCHANGED own
         \/ \E r \in Requests : CallMap(t, r)
  PROVE  Map!Step(t) \/ \E r \in Requests : Map!Call(t, r)
<1>1. CASE ~Away(t) /\ Step(t) /\ UNCHANGED own
  <2>1. SameAway
    BY <1>1, StepSameAway DEF SeenInv, own
  <2> QED
    BY <1>1, <2>1, SeenStep, SeenWants DEF SeenInv
<1>2. ASSUME NEW r \in Requests, CallMap(t, r) PROVE Map!Call(t, r)
  <2>1. ~Away(t) /\ Call(t, r) /\ UNCHANGED own
    BY <1>2, IdleIsThere DEF CallMap, Call, SeenInv
  <2>2. ThreadMoves(t)
    BY <2>1, CallMoves DEF SeenInv
  <2>3. SameAway
    BY <2>1, StaysAway, CallMoves DEF SeenInv, ThreadFcns, own
  <2>4. Ready(t)
    BY <2>1, <2>2, <2>3, SeenMoves DEF Ready, SeenInv
  <2> QED
    BY <2>1, <2>4, SeenCall
<1> QED
  BY <1>1, <1>2

LEMMA SeenItems ==
  ASSUME SeenInv, ItemsInv, NEW t \in Threads, Map!Step(t) \/ \E r \in Requests : Map!Call(t, r)
  PROVE  ItemsInv'
<1>1. Map!Next
  BY SameTypes DEF Map!Next
<1>2. Map!DataInv'
  BY <1>1, Map!NextDataInv, SameIndex, SameTypes,
     IndexAssumption, MapAssumption, FreeAssumption, NoneAssumption DEF SeenInv, ItemsInv
<1>3. Map!CountOK'
  BY <1>1, Map!NextCountOK, SameIndex, SameTypes,
     IndexAssumption, MapAssumption, FreeAssumption, NoneAssumption DEF SeenInv, ItemsInv
<1> QED
  BY <1>2, <1>3 DEF ItemsInv

\* A step is one of the table seen, or not seen.
LEMMA StepsAre ==
  ASSUME SeenInv, NEW t \in Threads,
         \/ \E r \in AllRequests : Calls(t, r)
         \/ Step(t) /\ UNCHANGED own
         \/ WholeStep(t) \/ OwnedStep(t)
  PROVE  Unseen(t) \/ Map!Step(t) \/ \E r \in Requests : Map!Call(t, r)
<1>1. ASSUME NEW r \in AllRequests, Calls(t, r)
      PROVE  Unseen(t) \/ \E q \in Requests : CallMap(t, q)
  BY <1>1 DEF Calls, Unseen
<1>2. CASE Step(t) /\ UNCHANGED own
  BY <1>2, AwayReturns, SeenSteps DEF Unseen
<1>3. CASE WholeStep(t) \/ OwnedStep(t)
  BY <1>3 DEF Unseen
<1> QED
  BY <1>1, <1>2, <1>3, SeenSteps

LEMMA StutterItems == ItemsInv /\ UNCHANGED wholeVars => ItemsInv'
<1> SUFFICES ASSUME ItemsInv, UNCHANGED wholeVars PROVE ItemsInv'
  OBVIOUS
<1> USE DEF wholeVars, vars, own, table, threads
<1>1. UNCHANGED <<pcSeen, reqSeen, snapSeen, wantSeen, pathSeen, bfsSeen, sumSeen, resSeen,
                  locksSeen>>
  BY DEF pcSeen, reqSeen, snapSeen, wantSeen, pathSeen, bfsSeen, sumSeen, resSeen, locksSeen,
     Seen, Away
<1>2. UNCHANGED Map!vars
  BY <1>1 DEF Map!vars, Map!table, Map!threads
<1>3. Map!DataInv'
  BY <1>2, Map!StutterData, SameIndex, SameTypes,
     IndexAssumption, MapAssumption, FreeAssumption, NoneAssumption DEF ItemsInv
<1>4. Map!CountOK'
  BY Map!UntouchedCount, SameIndex, SameTypes,
     IndexAssumption, MapAssumption, FreeAssumption, NoneAssumption
  DEF ItemsInv, wholeVars, vars, table
<1> QED
  BY <1>3, <1>4 DEF ItemsInv

LEMMA NextItemsInv == WholeInv /\ WholeInv' /\ ItemsInv /\ [CarefulNext]_wholeVars => ItemsInv'
<1> SUFFICES ASSUME WholeInv, WholeInv', ItemsInv, CarefulNext PROVE ItemsInv'
  BY StutterItems
<1>1. SeenInv /\ SeenInv'
  BY DEF WholeInv
<1>2. PICK t \in Threads : \/ \E r \in AllRequests : Careful(t, r) /\ Calls(t, r)
                           \/ Step(t) /\ UNCHANGED own
                           \/ WholeStep(t) \/ OwnedStep(t)
  BY DEF CarefulNext
<1>3. Unseen(t) \/ Map!Step(t) \/ \E r \in Requests : Map!Call(t, r)
  BY <1>1, <1>2, StepsAre
<1> QED
  BY <1>1, <1>3, UnseenItems, SeenItems

LEMMA InitItemsInv == WholeInit => ItemsInv
<1> SUFFICES ASSUME WholeInit PROVE ItemsInv
  OBVIOUS
<1>1. Map!DataInv /\ Map!CountOK
  BY InitSeen, Map!InitDataInv, Map!InitCountOK, SameIndex, SameTypes,
     IndexAssumption, MapAssumption, FreeAssumption, NoneAssumption
<1> QED
  BY <1>1 DEF ItemsInv

----------------------------------------------------------------------------
(* The theorems.                                                           *)

\* The items are where operations look for them, none is there twice, and the
\* counters follow them, also when the table is cleared, rebuilt or owned.
THEOREM WholeItems == CarefulSpec => [](WholeInv /\ ItemsInv)
<1>1. WholeInit => WholeInv /\ ItemsInv
  BY InitWholeInv, InitItemsInv
<1>2. WholeInv /\ ItemsInv /\ [CarefulNext]_wholeVars => (WholeInv /\ ItemsInv)'
  BY NextWholeInv, NextItemsInv
<1> QED
  BY <1>1, <1>2, PTL DEF CarefulSpec

LEMMA ExactWhenCounted ==
  ASSUME SeenInv, ItemsInv
  PROVE  SizeExact
<1>1. NoDuplicates
  BY SamePlace DEF ItemsInv, Map!DataInv
<1>2. Cardinality(Items) = Cardinality(Positions)
  <2>1. Map!TypeOK /\ Map!NoDuplicates
    BY DEF SeenInv, ItemsInv, Map!IndInv, Map!DataInv
  <2>2. Map!Cardinality(Map!Items) = Map!Cardinality(Map!Positions)
    BY <2>1, Map!ItemCount, SameIndex, SameTypes,
       IndexAssumption, MapAssumption, FreeAssumption, NoneAssumption
  <2>3. Map!Items = Items
    BY SamePlace DEF Map!Items, Items, Map!EntryAt
  <2> QED
    BY <2>2, <2>3, SamePlace, SameCardinality
<1>3. Congruent(SumOf(counter, Locks), Cardinality(Items), CounterMod)
  BY SameCounted DEF ItemsInv, Counted
<1>4. SumOf(counter, Locks) % CounterMod = Cardinality(Items) % CounterMod
  BY <1>3, CounterTypes, SameModulo, MapAssumption
<1>5. MapThenSumSet(LAMBDA l : counter[l], Locks) = SumOf(counter, Locks)
  BY DEF SumOf, MapThenSumSet, MapThenFoldSet
<1> QED
  BY <1>2, <1>4, <1>5 DEF SizeExact

\* The elem_counters add up to the number of items, modulo the number at which
\* they wrap, also when clear resets them, rehash and reserve leave them, and
\* the locked_table's operations and its doubling change them.
THEOREM WholeSizeIsExact == CarefulSpec => []SizeExact
<1>1. WholeInv /\ ItemsInv => SizeExact
  BY ExactWhenCounted DEF WholeInv
<1> QED
  BY <1>1, WholeItems, PTL

\* No key is in the table twice, and every item is in one of its two buckets.
THEOREM WholePlacement == CarefulSpec => [](Placement /\ NoDuplicates)
<1>1. WholeInv /\ ItemsInv => Placement /\ NoDuplicates
  <2> SUFFICES ASSUME WholeInv, ItemsInv PROVE Placement /\ NoDuplicates
    OBVIOUS
  <2>1. \A b : Map!Unsplit(b) => Unsplit(b)
    <3> SUFFICES ASSUME NEW b, NEW t \in Threads, pcSeen[t] = "split",
                        Map!lock_ind(b) \in wantSeen[t]
                 PROVE  Unsplit(b)
      BY DEF Map!Unsplit
    <3>1. ~Away(t)
      BY DEF pcSeen, Seen
    <3> QED
      BY <3>1, SeenAt, SameIndex DEF Unsplit
  <2>2. \A b : Unsplit(b) => Map!Unsplit(b)
    <3> SUFFICES ASSUME NEW b, NEW t \in Threads, pc[t] = "split", lock_ind(b) \in want[t]
                 PROVE  Map!Unsplit(b)
      BY DEF Unsplit
    <3>1. ~Away(t)
      BY DEF WholeInv, SeenInv, AwayOK, AwayAt
    <3> QED
      BY <3>1, SeenAt, SameIndex DEF Map!Unsplit
  <2>3. Map!Placement /\ Map!NoDuplicates
    BY DEF ItemsInv, Map!DataInv
  <2> QED
    BY <2>1, <2>2, <2>3, SamePlace, SameIndex DEF Map!Placement, Placement
<1> QED
  BY <1>1, WholeItems, PTL

\* The assertions of cuckoo_insert, run_cuckoo and cuckoopath_search hold
\* while others clear, rebuild or lock the table.
THEOREM WholeAssertionsHold == CarefulSpec => []CuckooAsserts
<1>1. WholeInv /\ ItemsInv => CuckooAsserts
  <2> SUFFICES ASSUME WholeInv, ItemsInv, NEW t \in Threads
               PROVE  /\ pc[t] = "place" =>
                           /\ path[t][1].bucket \in {first(t), second(t)}
                           /\ ~occupied(path[t][1].bucket, path[t][1].slot)
                      /\ \A i \in 1 .. Len(path[t]) - 1 :
                           /\ path[t][i].bucket \in BucketsOf(snap[t], path[t][i].hash)
                           /\ path[t][i + 1].bucket \in BucketsOf(snap[t], path[t][i].hash)
    BY DEF CuckooAsserts
  <2>1. CASE Away(t)
    <3>1. path[t] = <<>> /\ pc[t] # "place"
      BY <2>1 DEF WholeInv, SeenInv, AwayOK, AwayAt
    <3> QED
      BY <3>1
  <2>2. CASE ~Away(t)
    <3>1. Map!CuckooAsserts
      <4>1. Map!IndInv /\ Map!DataInv
        BY DEF WholeInv, SeenInv, ItemsInv
      <4> QED
        BY <4>1, Map!AssertionsNow, SameIndex, SameTypes,
           IndexAssumption, MapAssumption, FreeAssumption, NoneAssumption
    <3>2. /\ pcSeen[t] = "place" =>
               /\ pathSeen[t][1].bucket \in {Map!first(t), Map!second(t)}
               /\ ~Map!occupied(pathSeen[t][1].bucket, pathSeen[t][1].slot)
          /\ \A i \in 1 .. Len(pathSeen[t]) - 1 :
               /\ pathSeen[t][i].bucket \in Map!BucketsOf(snapSeen[t], pathSeen[t][i].hash)
               /\ pathSeen[t][i + 1].bucket \in Map!BucketsOf(snapSeen[t], pathSeen[t][i].hash)
      BY <3>1 DEF Map!CuckooAsserts
    <3> QED
      BY <2>2, <3>2, SeenAt, SameKey, SameTable, SameIndex
  <2> QED
    BY <2>1, <2>2
<1> QED
  BY <1>1, WholeItems, PTL

\* A thread with a lock of a bucket it operates on knows the hashpower, also
\* when others rehash, reserve or lock the table meanwhile.
THEOREM WholeLocksPin == CarefulSpec => []LocksPinHashpower
<1>1. WholeInv => LocksPinHashpower
  <2> SUFFICES ASSUME WholeInv, NEW t \in Threads
               PROVE  /\ pc[t] \in {"lock", "critical", "move", "place"} /\ LocksHeld(t) # {}
                           => snap[t] = hashpower
                      /\ pc[t] \in {"critical", "move", "place"}
                           => LocksHeld(t) = LocksWanted(t)
    BY DEF LocksPinHashpower
  <2>1. CASE Away(t)
    BY <2>1 DEF WholeInv, SeenInv, AwayOK, AwayAt
  <2>2. CASE ~Away(t)
    <3>1. Map!LocksPinHashpower
      BY Map!LocksPinNow, SameIndex, SameTypes,
         IndexAssumption, MapAssumption, FreeAssumption, NoneAssumption DEF WholeInv, SeenInv
    <3>2. Map!LocksHeld(t) = LocksHeld(t) /\ Map!LocksWanted(t) = LocksWanted(t)
      BY <2>2, SeenHeld, SameKey DEF WholeInv, SeenInv
    <3> QED
      BY <2>2, <3>1, <3>2, SeenAt DEF Map!LocksPinHashpower
  <2> QED
    BY <2>1, <2>2
<1> QED
  BY <1>1, WholeProtocol, PTL

===========================================================================
