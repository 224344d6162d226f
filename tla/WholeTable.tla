----------------------------- MODULE WholeTable -----------------------------
(***************************************************************************)
(* The operations of cuckoohash_map on the table as a whole, beside those  *)
(* of CuckooMap on one key: clear, rehash, reserve, and lock_table with    *)
(* the locked_table it returns, which keeps every spinlock until unlock()  *)
(* and works on the table, and iterates over it, without locking.          *)
(***************************************************************************)
EXTENDS CuckooMap

CONSTANTS
  WholeOps,    \* of clear, rehash, reserve, lock_table: those that are called
  LockedOps,   \* the operations of a locked_table its owner calls
  Hashpowers,  \* the arguments of rehash
  Capacities,  \* the arguments of reserve
  End          \* the iterator past the end

VARIABLES
  owner,  \* the thread whose locked_table is active, or None
  it      \* the owner's iterator: a position, End, or None if it is not valid

own == <<owner, it>>
wholeVars == <<vars, own>>

ASSUME WholeAssumption ==
  /\ Hashpowers \subseteq Nat
  /\ Capacities \subseteq Nat
  /\ SegmentHashpower <= HashBits  \* a bucket index is a word

ResizeRequests(O) ==
  [op : O \cap {"rehash"}, n : Hashpowers] \cup [op : O \cap {"reserve"}, n : Capacities]
WholeRequests == [op : WholeOps \cap {"clear", "lock_table"}] \cup ResizeRequests(WholeOps)
LockedRequests ==
  [op : LockedOps \cap {"find", "erase"}, key : Keys]
    \cup [op : LockedOps \cap {"insert"}, key : Keys, val : Values]
    \cup [op : LockedOps \cap {"clear", "size", "begin", "next", "prev", "erase_at", "unlock"}]
    \cup ResizeRequests(LockedOps)

ASSUME WholeNoneAssumption == None \notin WholeRequests \cup LockedRequests

WholePCs == PCs \cup {"resize", "grab", "whole", "owned"}
WholeResults == Results \cup {<<"done">>, <<"end">>} \cup ({"at"} \X Keys)

WholeInit == Init /\ owner = None /\ it = None

----------------------------------------------------------------------------
(* Calls.                                                                  *)

\* A thread with an active locked_table uses the map through it alone: any
\* other operation of its own would wait for its own spinlocks.
CallMap(t, r) == owner # t /\ Call(t, r) /\ UNCHANGED own

CallWhole(t, r) ==
  /\ pc[t] = "idle" /\ owner # t
  /\ req' = [req EXCEPT ![t] = r]
  /\ IF r.op \in {"rehash", "reserve"}
     THEN Goto(t, "resize") /\ UNCHANGED want
     ELSE Goto(t, "grab") /\ want' = [want EXCEPT ![t] = Locks]
  /\ UNCHANGED <<table, snap, path, bfs, sum, res, own>>

\* snapshot_and_lock_two<locking_inactive> computes the buckets, and no more.
CallLocked(t, r) ==
  /\ pc[t] = "idle" /\ owner = t
  /\ req' = [req EXCEPT ![t] = r]
  /\ snap' = [snap EXCEPT ![t] = hashpower]
  /\ Goto(t, "owned")
  /\ UNCHANGED <<table, want, path, bfs, sum, res, own>>

\* What an operation under all locks leaves alone but the table and pc, res.
Private == <<req, want, path, bfs, sum>>

----------------------------------------------------------------------------
(* The items, the orders they can be in, and the paths they can move on.   *)

Before(p, q) == Below(p[1], q[1]) \/ (p[1] = q[1] /\ p[2] < q[2])

Items == { buckets[p[1]][p[2]] : p \in Positions }

\* The tables of hashpower hp that hold the items E, each in one of its two
\* buckets: what inserting them in some order, from several threads, can give.
Tables(hp, E) ==
  { [b \in Buckets(hp) |->
       [s \in Slots |-> IF \E e \in E : f[e] = <<b, s>>
                        THEN CHOOSE e \in E : f[e] = <<b, s>> ELSE Free]] :
      f \in { f \in [E -> Buckets(hp) \X Slots] :
                /\ \A e \in E : f[e][1] \in BucketsOf(hp, Hash[e.key])
                /\ \A d, e \in E : f[d] = f[e] => d = e } }

\* An item inserted in a table of hashpower hp may find its buckets full.
MayOverflow(hp) ==
  \E e \in Items : \E S \in SUBSET (Items \ {e}) : \E T \in Tables(hp, S) :
    \A b \in BucketsOf(hp, Hash[e.key]), s \in Slots : T[b][s] # Free

\* The hashpowers of a new table made for hashpower n: the constructor makes
\* it at least 1, and inserts that overflow may double it.  A table that does
\* not fit in the segment then, which loses items, is not modelled.
AtLeast1(n) == IF n = 0 THEN 1 ELSE n
NewHashpowers(n) ==
  { hp \in 1 .. SegmentHashpower :
      AtLeast1(n) <= hp /\ \A m \in AtLeast1(n) .. hp - 1 : MayOverflow(m) }

\* The paths an insert of thread t's key may cuckoo along, by their length:
\* positions that are occupied, but perhaps for the last, by an item whose
\* other bucket the next one is in.
Beyond(p) == alt_index(hashpower, partial_key(Hash[KeyAt(p)]), p[1])
trails(t) ==
  [d \in 1 .. MAX_BFS_PATH_LEN |->
     { q \in [1 .. d -> Buckets(hashpower) \X Slots] :
         /\ q[1][1] \in {first(t), second(t)}
         /\ \A i \in 1 .. d - 1 : q[i] \in Positions /\ q[i + 1][1] = Beyond(q[i]) }]

\* Those slot_search may find: the shortest that end in a free slot.
FreeTrails(t, d) == { q \in trails(t)[d] : q[d] \notin Positions }
Shortest(t) ==
  UNION { FreeTrails(t, d) : d \in { d \in 1 .. MAX_BFS_PATH_LEN :
                                       \A c \in 1 .. d - 1 : FreeTrails(t, c) = {} } }

\* The search ends without a path, or may have more buckets in its queue than
\* the queue can hold.
SearchMayFail(t) ==
  \/ Shortest(t) = {}
  \/ 2 + Cardinality(UNION { trails(t)[d] : d \in 1 .. MAX_BFS_PATH_LEN - 1 })
       >= MAX_CUCKOO_COUNT - 1

----------------------------------------------------------------------------
(* clear, rehash, reserve and lock_table: all the locks are taken in order.*)

\* The smallest hashpower, at least 1, that has slots for n elements.
reserve_calc(n) ==
  CHOOSE h \in 1 .. n + 1 :
    /\ SlotPerBucket * (2 ^ h) >= n
    /\ \A g \in 1 .. h - 1 : SlotPerBucket * (2 ^ g) < n

target(t) == IF req[t].op = "rehash" THEN req[t].n ELSE reserve_calc(req[t].n)

\* cuckoo_rehash and cuckoo_reserve look at the hashpower before they lock.
ReadHashpower(t) ==
  /\ pc[t] = "resize"
  /\ IF target(t) = hashpower
     THEN Finish(t, <<"false">>) /\ UNCHANGED want
     ELSE Goto(t, "grab") /\ want' = [want EXCEPT ![t] = Locks] /\ UNCHANGED res
  /\ UNCHANGED <<table, req, snap, path, bfs, sum, own>>

Grab(t) ==
  /\ pc[t] = "grab"
  /\ TakeLowest(t)
  /\ IF want'[t] = {} THEN Goto(t, "whole") ELSE UNCHANGED pc
  /\ UNCHANGED <<hashpower, buckets, counter, expansion,
                 req, snap, path, bfs, sum, res, own>>

\* Faulty: the elem_counters are left.
EmptiedUncounted ==
  /\ buckets' = [b \in DOMAIN buckets |-> [s \in Slots |-> Free]]
  /\ UNCHANGED counter

\* cuckoo_clear.
Emptied ==
  /\ buckets' = [b \in DOMAIN buckets |-> [s \in Slots |-> Free]]
  /\ counter' = [l \in Locks |-> 0]

\* cuckoo_expand_simple: the items move to a new table, whose buckets and
\* hashpower the table takes over.  The elem_counters stay as they are.
Rebuilt(t) ==
  \E hp \in NewHashpowers(target(t)) :
    /\ hashpower' = hp
    /\ buckets' \in Tables(hp, Items)

\* The new table cannot be allocated: nothing has changed yet.
NoRoom(t) ==
  /\ SegmentMayFill \/ AtLeast1(target(t)) > SegmentHashpower
  /\ UNCHANGED <<hashpower, buckets>>

Clear(t) ==
  /\ pc[t] = "whole" /\ req[t].op = "clear"
  /\ Emptied
  /\ locks' = Unlocked(t)
  /\ Finish(t, <<"done">>)
  /\ UNCHANGED <<hashpower, expansion, snap, Private, own>>

Resize(t) ==
  /\ pc[t] = "whole" /\ req[t].op \in {"rehash", "reserve"}
  /\ \/ Rebuilt(t) /\ Finish(t, <<"true">>)
     \/ NoRoom(t) /\ Finish(t, <<"throw">>)
  /\ locks' = Unlocked(t)
  /\ UNCHANGED <<counter, expansion, snap, Private, own>>

LockTable(t) ==
  /\ pc[t] = "whole" /\ req[t].op = "lock_table"
  /\ owner' = t
  /\ it' = None
  /\ Finish(t, <<"done">>)
  /\ UNCHANGED <<table, snap, Private>>

WholeStep(t) == ReadHashpower(t) \/ Grab(t) \/ Clear(t) \/ Resize(t) \/ LockTable(t)

----------------------------------------------------------------------------
(* The operations of a locked_table.                                       *)

Owns(t, op) == pc[t] = "owned" /\ req[t].op = op

OwnedFind(t) ==
  /\ Owns(t, "find")
  /\ \/ \E p \in cuckoo_find(t) :
          it' = p /\ Finish(t, <<"found", buckets[p[1]][p[2]].val>>)
     \/ cuckoo_find(t) = {} /\ it' = End /\ Finish(t, <<"false">>)
  /\ UNCHANGED <<table, snap, Private, owner>>

\* del_from_bucket: only iterators to the erased item become invalid.
OwnedErase(t) ==
  /\ Owns(t, "erase")
  /\ \/ \E p \in cuckoo_find(t) :
          /\ Put(p[1], p[2], Free)
          /\ Count(lock_ind(p[1]), -1)
          /\ it' = IF it = p THEN None ELSE it
          /\ Finish(t, <<"true">>)
     \/ /\ cuckoo_find(t) = {}
        /\ Finish(t, <<"false">>)
        /\ UNCHANGED <<buckets, counter, it>>
  /\ UNCHANGED <<hashpower, locks, expansion, snap, Private, owner>>

\* The items along path q move up and leave its first position to the key.
MoveAlong(t, q) ==
  buckets' = [b \in DOMAIN buckets |-> [s \in Slots |->
                IF <<b, s>> = q[1] THEN NewEntry(t)
                ELSE IF \E i \in 2 .. Len(q) : q[i] = <<b, s>>
                     THEN LET i == CHOOSE i \in 2 .. Len(q) : q[i] = <<b, s>>
                          IN  buckets[q[i - 1][1]][q[i - 1][2]]
                ELSE buckets[b][s]]]

\* The iterator insert returns points to the key, wherever it went.
OwnedInsert(t) ==
  /\ Owns(t, "insert")
  /\ \/ /\ it' \in cuckoo_find(t)
        /\ Finish(t, <<"false">>)
        /\ UNCHANGED <<buckets, counter>>
     \/ /\ cuckoo_find(t) = {}
        /\ IF FreePosition(t) # {}
           THEN it' \in FreePosition(t) /\ Put(it'[1], it'[2], NewEntry(t))
           ELSE \E q \in Shortest(t) : it' = q[1] /\ MoveAlong(t, q)
        /\ Count(lock_ind(it'[1]), 1)
        /\ Finish(t, <<"true">>)
  /\ UNCHANGED <<hashpower, locks, expansion, snap, Private, owner>>

\* The insert needs cuckoo_fast_double, which takes the expansion lock too.
MustExpand(t) ==
  /\ Owns(t, "insert")
  /\ cuckoo_find(t) = {} /\ FreePosition(t) = {}
  /\ SearchMayFail(t)

Total == MapThenSumSet(LAMBDA l : counter[l], Locks) % CounterMod

\* cuckoo_fast_double with nobody to let in: all buckets are split at once,
\* and the insert looks for a place again.
OwnedDouble(t) ==
  LET hp == hashpower
      rising == { p \in Positions : p[2] \in Rising(hp, p[1]) }
  IN  /\ MustExpand(t)
      /\ expansion = None
      /\ ~TooFew(Total) /\ bucket_bits < SegmentHashpower
      /\ hashpower' = hp + 1
      /\ buckets' = [b \in Buckets(hp + 1) |->
                       IF hp \in b THEN Risen(hp, b \ {hp}) ELSE LowerHalf(hp, b)]
      /\ counter' = [l \in Locks |->
                       (counter[l] - Cardinality({ p \in rising : lock_ind(p[1]) = l })
                         + Cardinality({ p \in rising : lock_ind(p[1] \cup {hp}) = l }))
                       % CounterMod]
      /\ snap' = [snap EXCEPT ![t] = hp + 1]
      /\ it' = None
      /\ UNCHANGED <<locks, expansion, pc, res, Private, owner>>

OwnedInsertThrows(t) ==
  /\ MustExpand(t)
  /\ expansion = None
  /\ TooFew(Total) \/ SegmentMayFill \/ bucket_bits >= SegmentHashpower
  /\ it' = None
  /\ Finish(t, <<"throw">>)
  /\ UNCHANGED <<table, snap, Private, owner>>

OwnedClear(t) ==
  /\ Owns(t, "clear")
  /\ Emptied
  /\ it' = None
  /\ Finish(t, <<"done">>)
  /\ UNCHANGED <<hashpower, locks, expansion, snap, Private, owner>>

OwnedResize(t) ==
  /\ Owns(t, "rehash") \/ Owns(t, "reserve")
  /\ \/ /\ target(t) = hashpower
        /\ Finish(t, <<"done">>)
        /\ UNCHANGED <<hashpower, buckets, it>>
     \/ target(t) # hashpower /\ Rebuilt(t) /\ it' = None /\ Finish(t, <<"done">>)
     \/ target(t) # hashpower /\ NoRoom(t) /\ Finish(t, <<"throw">>) /\ UNCHANGED it
  /\ UNCHANGED <<locks, counter, expansion, snap, Private, owner>>

OwnedSize(t) ==
  /\ Owns(t, "size")
  /\ Finish(t, <<"size", Total>>)
  /\ UNCHANGED <<table, snap, Private, own>>

unlock(t) ==
  /\ Owns(t, "unlock")
  /\ locks' = Unlocked(t)
  /\ owner' = None
  /\ it' = None
  /\ Finish(t, <<"done">>)
  /\ UNCHANGED <<hashpower, buckets, counter, expansion, snap, Private>>

----------------------------------------------------------------------------
(* Iterators: by bucket index, then by slot.                               *)

\* Faulty: slot_ is not reset at the end of a bucket, which ends all others.
AfterUnreset(i) == { p \in Positions : p[1] = i[1] /\ i[2] < p[2] }
After(i) == { p \in Positions : Before(i, p) }
Till(i) == { p \in Positions : i = End \/ Before(p, i) }

First(P) == IF P = {} THEN End ELSE CHOOSE p \in P : \A q \in P \ {p} : Before(p, q)
Last(P) == CHOOSE p \in P : \A q \in P \ {p} : Before(q, p)

Arrive(t, i) ==
  /\ it' = i
  /\ Finish(t, IF i = End THEN <<"end">> ELSE <<"at", KeyAt(i)>>)

\* What the class leaves undefined is not called: an iterator that is not
\* valid is not used, the end is not advanced nor erased, and there is an
\* item before the one that is moved back.
MayIterate(op) ==
  /\ op \in {"next", "erase_at"} => it \in Positions
  /\ op = "prev" => it # None /\ Till(it) # {}

Iterate(t) ==
  /\ \/ Owns(t, "begin") /\ Arrive(t, First(Positions))
     \/ Owns(t, "next") /\ Arrive(t, First(After(it)))
     \/ Owns(t, "prev") /\ Arrive(t, Last(Till(it)))
  /\ UNCHANGED <<table, snap, Private, owner>>

\* Faulty: the iterator returned is the one that was passed.
EraseAtStays(t) ==
  /\ Owns(t, "erase_at")
  /\ Put(it[1], it[2], Free)
  /\ Count(lock_ind(it[1]), -1)
  /\ Finish(t, <<"end">>)
  /\ UNCHANGED <<hashpower, locks, expansion, snap, Private, own>>

\* Faulty: erased without del_from_bucket.
EraseAtUncounted(t) ==
  /\ Owns(t, "erase_at")
  /\ Put(it[1], it[2], Free)
  /\ Arrive(t, First(After(it)))
  /\ UNCHANGED <<hashpower, locks, counter, expansion, snap, Private, owner>>

\* erase(iterator) returns the iterator to the item after the erased one.
EraseAt(t) ==
  /\ Owns(t, "erase_at")
  /\ Put(it[1], it[2], Free)
  /\ Count(lock_ind(it[1]), -1)
  /\ Arrive(t, First(After(it)))
  /\ UNCHANGED <<hashpower, locks, expansion, snap, Private, owner>>

OwnedStep(t) ==
  \/ OwnedFind(t) \/ OwnedErase(t) \/ OwnedInsert(t) \/ OwnedDouble(t) \/ OwnedInsertThrows(t)
  \/ OwnedClear(t) \/ OwnedResize(t) \/ OwnedSize(t) \/ Iterate(t) \/ EraseAt(t) \/ unlock(t)

----------------------------------------------------------------------------
Calls(t, r) ==
  \/ r \in Requests /\ CallMap(t, r)
  \/ r \in WholeRequests /\ CallWhole(t, r)
  \/ r \in LockedRequests /\ MayIterate(r.op) /\ CallLocked(t, r)

AllRequests == Requests \cup WholeRequests \cup LockedRequests

WholeNext ==
  \E t \in Threads :
    \/ \E r \in AllRequests : Calls(t, r)
    \/ Step(t) /\ UNCHANGED own
    \/ WholeStep(t) \/ OwnedStep(t)

WholeSpec == WholeInit /\ [][WholeNext]_wholeVars

\* Users who keep automatic expansions and resizes by hand apart: the table is
\* not resized, nor is an item inserted through a locked_table, while another
\* thread is in an insert; nor is an insert called while one is resizing.
RunsInsert(t) == owner # t /\ pc[t] # "idle" /\ req[t].op \in {"insert", "upsert"}
RunsResize(t) == owner # t /\ pc[t] # "idle" /\ req[t].op \in {"rehash", "reserve"}

Careful(t, r) ==
  LET others == Threads \ {t}
  IN  /\ r.op \in {"rehash", "reserve"} \/ (owner = t /\ r.op = "insert")
           => \A u \in others : ~RunsInsert(u)
      /\ owner # t /\ r.op \in {"insert", "upsert"} => \A u \in others : ~RunsResize(u)

CarefulNext ==
  \E t \in Threads :
    \/ \E r \in AllRequests : Careful(t, r) /\ Calls(t, r)
    \/ Step(t) /\ UNCHANGED own
    \/ WholeStep(t) \/ OwnedStep(t)

CarefulSpec == WholeInit /\ [][CarefulNext]_wholeVars

----------------------------------------------------------------------------
(* Properties.                                                             *)

\* Every variable has its type; an iterator that is valid points to an item.
WholeTypeOK ==
  /\ hashpower \in Nat
  /\ \A b \in DOMAIN buckets : b \in Word /\ buckets[b] \in [Slots -> Entry \cup {Free}]
  /\ locks \in [Locks -> Threads \cup {None}]
  /\ counter \in [Locks -> Counts]
  /\ expansion \in Threads \cup {None}
  /\ pc \in [Threads -> WholePCs]
  /\ req \in [Threads -> AllRequests \cup {None}]
  /\ snap \in [Threads -> Nat]
  /\ want \in [Threads -> SUBSET Locks]
  /\ PathTypes
  /\ sum \in [Threads -> Counts]
  /\ res \in [Threads -> WholeResults \cup {None}]
  /\ owner \in Threads \cup {None}
  /\ it \in Positions \cup {End, None}

\* "2**hashpower is the number of buckets" (hashpower_): the array and the
\* hashpower change together, whoever resizes the table.
BucketCount == DOMAIN buckets = Buckets(hashpower)

\* Thread t cannot go on before thread u releases a lock.  (lock_one is left
\* out: who waits in it holds no lock.)
WaitsFor(t, u) ==
  \/ pc[t] \in {"lock", "lock_all", "grab"} /\ \E l \in Lowest(want[t]) : locks[l] = u
  \/ (pc[t] = "expand" \/ MustExpand(t)) /\ expansion = u

\* Locks are taken "in order to avoid deadlock" (lock_two): there are no
\* threads that all wait for each other, be it for spinlocks or for the
\* expansion lock.
NoCircle ==
  \A S \in (SUBSET Threads) \ {{}} : \E t \in S : \A u \in S : ~WaitsFor(t, u)

----------------------------------------------------------------------------
(* What the table is for its users.                                        *)

\* The keys in the order iterators visit them, and the iterator's rank in it.
order ==
  IF owner = None THEN <<>>
  ELSE [i \in 1 .. Cardinality(Positions) |->
          KeyAt(CHOOSE p \in Positions : Cardinality(Till(p)) = i - 1)]

at == IF it = None THEN 0 ELSE 1 + Cardinality(Till(it))

Owned == INSTANCE OwnedMap
           WITH call <- req, ret <- res, Unsure <- CountResults,
                NoRequest <- None, NoResult <- None, NoOwner <- None

\* The table is one dictionary that operations change at an instant.  Who has
\* locked it is alone with it: its size is exact then, its iterator visits
\* every item once, and erasing at the iterator goes on with the next item.
OwnedTable == Owned!OwnedSpec
=============================================================================
