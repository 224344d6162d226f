----------------------------- MODULE CuckooMap -----------------------------
(***************************************************************************)
(* The patched libcuckoo hash table (cuckoohash_map.hh) as threads run it: *)
(* every key operation locks the spinlocks of the key's two buckets,       *)
(* an insert that finds both full searches for a cuckoo path and moves     *)
(* items along it, and when there is none doubles the table, letting other *)
(* threads in again lock by lock while it splits the buckets.              *)
(*                                                                         *)
(* A step is what a thread does between two moments another thread can     *)
(* notice: taking one spinlock, the work under the locks with their        *)
(* release, one unlocked read of a shared counter or of the hashpower.     *)
(***************************************************************************)
EXTENDS CuckooIndex, Sequences, FiniteSetsExt

CONSTANTS
  Threads, Keys, Values,
  Hash,              \* key |-> its hash, a Word
  Ops,               \* the operations threads call
  SlotPerBucket,     \* LIBCUCKOO_DEFAULT_SLOT_PER_BUCKET (4 in the code)
  MAX_BFS_PATH_LEN,  \* 5 in the code
  MAX_CUCKOO_COUNT,  \* 256 in the code; the queue is full at one less
  CounterMod,        \* elem_counter is a word: it counts modulo 2^64
  InitHashpower,     \* reserve_calc of the constructor's argument (16 in the code)
  SegmentHashpower,  \* the largest hashpower whose buckets fit in the segment
  MinLoadPercent,    \* minimum_load_factor() (5 in the code)
  SegmentMayFill,    \* may an allocation in the segment throw at any time
  Free,              \* the content of an unoccupied slot
  None

VARIABLES
  hashpower,  \* hashpower_
  buckets,    \* bucket index |-> slot |-> entry or Free
  locks,      \* lock index |-> the thread that holds it or None
  counter,    \* lock index |-> elem_counter
  expansion,  \* the thread that holds expansion_lock_, or None
  pc,         \* what each thread does next
  req,        \* the request each thread executes
  snap,       \* the hashpower each thread computed its buckets with
  want,       \* the locks each thread has still to take, to read or to split
  path,       \* cuckoo_path[0..depth]: its records filled so far
  bfs,        \* the state of slot_search, then its final pathcode
  sum,        \* the sum of the counters read so far
  res         \* what each thread is about to return

table == <<hashpower, buckets, locks, counter, expansion>>
threads == <<pc, req, snap, want, path, bfs, sum, res>>
vars == <<table, threads>>

ASSUME MapAssumption ==
  /\ Hash \in [Keys -> Word]
  /\ SlotPerBucket \in Nat \ {0}
  /\ MAX_BFS_PATH_LEN \in Nat \ {0}
  /\ MAX_CUCKOO_COUNT \in Nat /\ MAX_CUCKOO_COUNT > 3
  /\ CounterMod \in Nat \ {0}
  /\ InitHashpower \in Nat
  /\ SegmentHashpower \in Nat /\ InitHashpower <= SegmentHashpower
  /\ MinLoadPercent \in Nat
  /\ SegmentMayFill \in BOOLEAN
  /\ None \notin Threads

Slots == 0 .. SlotPerBucket - 1
Entry == [key : Keys, val : Values]
ASSUME FreeAssumption == Free \notin Entry

KeyRequests == [op : Ops \cap {"find", "erase"}, key : Keys]
ValRequests == [op : Ops \cap {"update", "upsert", "insert"}, key : Keys, val : Values]
CountRequests == [op : Ops \cap {"size", "empty"}]
Requests == KeyRequests \cup ValRequests \cup CountRequests

Counts == 0 .. CounterMod - 1
CountResults == {<<"true">>, <<"false">>} \cup ({"size"} \X Counts)
Results ==
  {<<"true">>, <<"false">>, <<"throw">>} \cup ({"found"} \X Values) \cup CountResults

ASSUME NoneAssumption == None \notin Requests \cup Results \cup Values

PCs == { "idle", "snapshot", "lock", "critical", "search", "fill", "move", "place",
         "expand", "scan", "load", "check", "lock_all", "double", "split",
         "unlock_new", "return" }

\* A CuckooRecord, and a b_slot: its pathcode's first digit says from which of
\* the two buckets the path starts, the others are the slots it goes through.
CuckooRecord(hp) == [bucket : Buckets(hp), slot : Slots, hash : Word]
b_slot(hp) == [bucket : Buckets(hp), from : {0, 1}, slots : Seq(Slots)]

Init ==
  /\ hashpower = InitHashpower
  /\ buckets = [b \in Buckets(InitHashpower) |-> [s \in Slots |-> Free]]
  /\ locks = [l \in Locks |-> None]
  /\ counter = [l \in Locks |-> 0]
  /\ expansion = None
  /\ pc = [t \in Threads |-> "idle"]
  /\ req = [t \in Threads |-> None]
  /\ snap = [t \in Threads |-> 0]
  /\ want = [t \in Threads |-> {}]
  /\ path = [t \in Threads |-> <<>>]
  /\ bfs = [t \in Threads |-> None]
  /\ sum = [t \in Threads |-> 0]
  /\ res = [t \in Threads |-> None]

----------------------------------------------------------------------------
(* The two buckets of the key a thread works on, and what they hold.       *)

first(t) == index_hash(snap[t], Hash[req[t].key])
second(t) == alt_index(snap[t], partial_key(Hash[req[t].key]), first(t))

LocksOf(B) == { lock_ind(b) : b \in B }
LocksHeld(t) == { l \in Locks : locks[l] = t }

occupied(b, s) == buckets[b][s] # Free
SlotsOf(k, b) == { s \in Slots : occupied(b, s) /\ buckets[b][s].key = k }
FreeSlots(b) == { s \in Slots : ~occupied(b, s) }

\* The position <<bucket, slot>> of the key, as a set that is empty when the
\* key is not there: the first bucket is searched first, from slot 0 on.
cuckoo_find(t) ==
  LET b == IF SlotsOf(req[t].key, first(t)) # {} THEN first(t) ELSE second(t)
      S == SlotsOf(req[t].key, b)
  IN  { p \in {b} \X S : \A s \in S : p[2] <= s }

\* try_find_insert_bucket keeps the last free slot it sees, in the first
\* bucket if it has one and otherwise in the second.
FreePosition(t) ==
  LET b == IF FreeSlots(first(t)) # {} THEN first(t) ELSE second(t)
      S == FreeSlots(b)
  IN  { p \in {b} \X S : \A s \in S : s <= p[2] }

NewEntry(t) == [key |-> req[t].key, val |-> req[t].val]

Put(b, s, e) == buckets' = [buckets EXCEPT ![b][s] = e]

Count(l, d) == counter' = [counter EXCEPT ![l] = (@ + d) % CounterMod]

\* A thread's locks are released by the destructor of the container that
\* owns them (OneBucket, TwoBuckets, AllBuckets).
Unlocked(t) == [l \in Locks |-> IF locks[l] = t THEN None ELSE locks[l]]

Goto(t, label) == pc' = [pc EXCEPT ![t] = label]

Finish(t, result) ==
  /\ Goto(t, "return")
  /\ res' = [res EXCEPT ![t] = result]

----------------------------------------------------------------------------
(* Calls and returns.                                                      *)

Call(t, r) ==
  /\ pc[t] = "idle"
  /\ req' = [req EXCEPT ![t] = r]
  /\ IF r \in CountRequests
     THEN /\ Goto(t, "scan")
          /\ want' = [want EXCEPT ![t] = Locks]
     ELSE /\ Goto(t, "snapshot")
          /\ UNCHANGED want
  /\ UNCHANGED <<table, snap, path, bfs, sum, res>>

Return(t) ==
  /\ pc[t] = "return"
  /\ Goto(t, "idle")
  /\ req' = [req EXCEPT ![t] = None]
  /\ snap' = [snap EXCEPT ![t] = 0]
  /\ want' = [want EXCEPT ![t] = {}]
  /\ path' = [path EXCEPT ![t] = <<>>]
  /\ bfs' = [bfs EXCEPT ![t] = None]
  /\ sum' = [sum EXCEPT ![t] = 0]
  /\ res' = [res EXCEPT ![t] = None]
  /\ UNCHANGED table

----------------------------------------------------------------------------
(* Locking buckets.                                                        *)

\* snapshot_and_lock_two reads the hashpower and computes the two buckets.
Snapshot(t) ==
  /\ pc[t] = "snapshot"
  /\ snap' = [snap EXCEPT ![t] = hashpower]
  /\ want' = [want EXCEPT ![t] = LocksOf(BucketsOf(hashpower, Hash[req[t].key]))]
  /\ path' = [path EXCEPT ![t] = <<>>]
  /\ bfs' = [bfs EXCEPT ![t] = None]
  /\ Goto(t, "lock")
  /\ UNCHANGED <<table, req, sum, res>>

\* spinlock::lock of the least lock that is still to be taken.
TakeLowest(t) ==
  \E l \in Lowest(want[t]) :
    /\ locks[l] = None
    /\ locks' = [locks EXCEPT ![l] = t]
    /\ want' = [want EXCEPT ![t] = @ \ {l}]

\* Faulty: without check_hashpower.
LockBucketUnchecked(t) ==
  /\ pc[t] = "lock"
  /\ TakeLowest(t)
  /\ IF want'[t] # {} THEN UNCHANGED pc
     ELSE Goto(t, IF path[t] = <<>> THEN "critical" ELSE "move")
  /\ UNCHANGED <<hashpower, buckets, counter, expansion,
                 req, snap, path, bfs, sum, res>>

\* lock_two and lock_three take the locks in order and check the hashpower
\* under the first one only.
LockBucket(t) ==
  /\ pc[t] = "lock"
  /\ LocksHeld(t) = {} => hashpower = snap[t]
  /\ TakeLowest(t)
  /\ IF want'[t] # {} THEN UNCHANGED pc
     ELSE Goto(t, IF path[t] = <<>> THEN "critical" ELSE "move")
  /\ UNCHANGED <<hashpower, buckets, counter, expansion,
                 req, snap, path, bfs, sum, res>>

\* The next bucket of the search, and the one whose slot is recorded next.
SearchBucket(t) == bfs[t].x.bucket
FillBucket(t) ==
  IF path[t] = <<>>
  THEN IF bfs[t].from = 0 THEN first(t) ELSE second(t)
  ELSE LET prev == path[t][Len(path[t])]
       IN  alt_index(snap[t], partial_key(prev.hash), prev.bucket)

\* check_hashpower throws hashpower_changed: the first lock is taken and
\* released again, and the operation starts over with a new snapshot.
HashpowerChanged(t) ==
  /\ \/ pc[t] = "lock" /\ LocksHeld(t) = {} /\ \E l \in Lowest(want[t]) : locks[l] = None
     \/ pc[t] = "search" /\ locks[lock_ind(SearchBucket(t))] = None
     \/ pc[t] = "fill" /\ locks[lock_ind(FillBucket(t))] = None
  /\ hashpower # snap[t]
  /\ Goto(t, "snapshot")
  /\ want' = [want EXCEPT ![t] = {}]
  /\ path' = [path EXCEPT ![t] = <<>>]
  /\ bfs' = [bfs EXCEPT ![t] = None]
  /\ UNCHANGED <<table, req, snap, sum, res>>

----------------------------------------------------------------------------
(* The operations, under the locks of the key's two buckets.               *)

InCritical(t, op) == pc[t] = "critical" /\ req[t].op = op

\* find, and SharedDict::Find, whose function copies the value out.
Find(t) ==
  /\ InCritical(t, "find")
  /\ \/ \E p \in cuckoo_find(t) : Finish(t, <<"found", buckets[p[1]][p[2]].val>>)
     \/ cuckoo_find(t) = {} /\ Finish(t, <<"false">>)
  /\ locks' = Unlocked(t)
  /\ UNCHANGED <<hashpower, buckets, counter, expansion,
                 req, snap, want, path, bfs, sum>>

Erase(t) ==
  /\ InCritical(t, "erase")
  /\ \/ \E p \in cuckoo_find(t) :
          /\ Put(p[1], p[2], Free)
          /\ Count(lock_ind(p[1]), -1)
          /\ Finish(t, <<"true">>)
     \/ /\ cuckoo_find(t) = {}
        /\ Finish(t, <<"false">>)
        /\ UNCHANGED <<buckets, counter>>
  /\ locks' = Unlocked(t)
  /\ UNCHANGED <<hashpower, expansion, req, snap, want, path, bfs, sum>>

Update(t) ==
  /\ InCritical(t, "update")
  /\ \/ \E p \in cuckoo_find(t) : Put(p[1], p[2], NewEntry(t)) /\ Finish(t, <<"true">>)
     \/ cuckoo_find(t) = {} /\ UNCHANGED buckets /\ Finish(t, <<"false">>)
  /\ locks' = Unlocked(t)
  /\ UNCHANGED <<hashpower, counter, expansion, req, snap, want, path, bfs, sum>>

\* Faulty: insert assigns the value too.
OnDuplicateAssign(t) ==
  /\ \E p \in cuckoo_find(t) : Put(p[1], p[2], NewEntry(t))
  /\ Finish(t, <<"false">>)
  /\ locks' = Unlocked(t)
  /\ UNCHANGED counter

\* upsert on a key that is there runs the caller's function on its value:
\* SharedDict::Insert assigns it, cuckoohash_map::insert does nothing.
OnDuplicate(t) ==
  /\ \E p \in cuckoo_find(t) :
       IF req[t].op = "upsert" THEN Put(p[1], p[2], NewEntry(t)) ELSE UNCHANGED buckets
  /\ Finish(t, <<"false">>)
  /\ locks' = Unlocked(t)
  /\ UNCHANGED counter

add_to_bucket(t, b, s) ==
  /\ cuckoo_find(t) = {}
  /\ Put(b, s, NewEntry(t))
  /\ Count(lock_ind(b), 1)
  /\ Finish(t, <<"true">>)
  /\ locks' = Unlocked(t)

Inserting(t) == pc[t] = "critical" /\ req[t].op \in {"upsert", "insert"}

\* cuckoo_insert when it need not cuckoo.
Insert(t) ==
  /\ Inserting(t)
  /\ \/ OnDuplicate(t)
     \/ \E p \in FreePosition(t) : add_to_bucket(t, p[1], p[2])
  /\ UNCHANGED <<hashpower, expansion, req, snap, want, path, bfs, sum>>

\* The caller's function, which copies the value out or makes a new one in
\* the segment, throws: the locks are released as the exception passes.
CopyThrows(t) ==
  /\ SegmentMayFill
  /\ pc[t] \in {"critical", "place"}
  /\ req[t].op \in {"find", "update", "upsert"}
  /\ cuckoo_find(t) # {}
  /\ Finish(t, <<"throw">>)
  /\ locks' = Unlocked(t)
  /\ UNCHANGED <<hashpower, buckets, counter, expansion,
                 req, snap, want, path, bfs, sum>>

----------------------------------------------------------------------------
(* run_cuckoo: search a path without holding locks, then move along it.    *)

full(q) == Len(q) = MAX_CUCKOO_COUNT - 1

\* The loop of slot_search: slot i of x is next, or the head of the queue,
\* or the search has failed (None).
SearchOn(x, q, i) ==
  IF full(q) THEN None
  ELSE IF i < SlotPerBucket THEN [x |-> x, q |-> q, i |-> i]
  ELSE IF q = <<>> THEN None
  ELSE [x |-> Head(q), q |-> Tail(q), i |-> 0]

StartSearch(t) ==
  /\ Goto(t, "search")
  /\ path' = [path EXCEPT ![t] = <<>>]
  /\ bfs' = [bfs EXCEPT ![t] =
               [x |-> [bucket |-> first(t), from |-> 0, slots |-> <<>>],
                q |-> <<[bucket |-> second(t), from |-> 1, slots |-> <<>>]>>,
                i |-> 0]]

\* Both buckets are full: the insert lets go of them to search.
RunCuckoo(t) ==
  /\ Inserting(t)
  /\ cuckoo_find(t) = {} /\ FreePosition(t) = {}
  /\ locks' = Unlocked(t)
  /\ StartSearch(t)
  /\ UNCHANGED <<hashpower, buckets, counter, expansion, req, snap, want, sum, res>>

\* The search looks at x's slots from this one on: the pathcode's last digit.
starting_slot(x) == IF x.slots = <<>> THEN x.from % SlotPerBucket ELSE x.slots[Len(x.slots)]

\* Faulty: a path may grow by one record more.
MayExtendDeeper(x) == Len(x.slots) < MAX_BFS_PATH_LEN

\* x has less than the maximum number of path components.
MayExtend(x) == Len(x.slots) < MAX_BFS_PATH_LEN - 1

\* One iteration of slot_search, under lock_one of the bucket it looks at.
SlotSearch(t) ==
  LET x == bfs[t].x
      slot == (starting_slot(x) + bfs[t].i) % SlotPerBucket
      slots == Append(x.slots, slot)
      y == [bucket |-> alt_index(snap[t], partial_key(Hash[buckets[x.bucket][slot].key]),
                                 x.bucket),
            from |-> x.from, slots |-> slots]
      q == IF MayExtend(x) THEN Append(bfs[t].q, y) ELSE bfs[t].q
  IN  /\ pc[t] = "search"
      /\ locks[lock_ind(x.bucket)] = None
      /\ hashpower = snap[t]
      /\ \/ /\ ~occupied(x.bucket, slot)
            /\ bfs' = [bfs EXCEPT ![t] = [from |-> x.from, slots |-> slots]]
            /\ Goto(t, "fill")
         \/ /\ occupied(x.bucket, slot)
            /\ bfs' = [bfs EXCEPT ![t] = SearchOn(x, q, bfs[t].i + 1)]
            /\ IF bfs'[t] = None THEN Goto(t, "expand") ELSE UNCHANGED pc
      /\ UNCHANGED <<table, req, snap, want, path, sum, res>>

\* Faulty: the last move takes only the locks of the insert's two buckets.
MoveLocksOwn(t, p) ==
  LET d == Len(p)
  IN  LocksOf(IF d <= 2 THEN {first(t), second(t)} ELSE {p[d - 1].bucket, p[d].bucket})

\* The locks cuckoopath_move takes for the last move of path p.
MoveLocks(t, p) ==
  LET d == Len(p)
  IN  LocksOf(IF d = 1 THEN {first(t), second(t)}
              ELSE IF d = 2 THEN {first(t), second(t), p[2].bucket}
              ELSE {p[d - 1].bucket, p[d].bucket})

StartMove(t, p) ==
  /\ path' = [path EXCEPT ![t] = p]
  /\ want' = [want EXCEPT ![t] = MoveLocks(t, p)]
  /\ Goto(t, "lock")

\* cuckoopath_search records one more position of the path, under lock_one;
\* the path ends early at a slot that has become free.
Fill(t) ==
  LET b == FillBucket(t)
      slot == bfs[t].slots[Len(path[t]) + 1]
      last == Len(path[t]) + 1 = Len(bfs[t].slots)
      hash == IF occupied(b, slot) THEN Hash[buckets[b][slot].key] ELSE {}
      p == Append(path[t], [bucket |-> b, slot |-> slot, hash |-> hash])
  IN  /\ pc[t] = "fill"
      /\ locks[lock_ind(b)] = None
      /\ hashpower = snap[t]
      /\ IF occupied(b, slot) /\ ~last
         THEN /\ path' = [path EXCEPT ![t] = p]
              /\ UNCHANGED <<pc, want, bfs>>
         ELSE /\ StartMove(t, p)
              /\ bfs' = [bfs EXCEPT ![t] = None]
      /\ UNCHANGED <<table, req, snap, sum, res>>

\* Faulty: an empty path is not looked at again.
StaleIfMoved(p) ==
  LET to == p[Len(p)]
      from == p[Len(p) - 1]
  IN  /\ Len(p) > 1
      /\ \/ occupied(to.bucket, to.slot)
         \/ ~ /\ occupied(from.bucket, from.slot)
              /\ Hash[buckets[from.bucket][from.slot].key] = from.hash

\* What cuckoopath_move finds is no longer what the path says.
Stale(p) ==
  LET to == p[Len(p)]
      from == p[Len(p) - 1]
  IN  \/ occupied(to.bucket, to.slot)
      \/ /\ Len(p) > 1
         /\ ~ /\ occupied(from.bucket, from.slot)
              /\ Hash[buckets[from.bucket][from.slot].key] = from.hash

\* Faulty: searches again with the locks held.
MoveFailsLocked(t) ==
  /\ pc[t] = "move"
  /\ Stale(path[t])
  /\ StartSearch(t)
  /\ UNCHANGED <<table, req, snap, want, sum, res>>

\* The path is stale: search again.
MoveFails(t) ==
  /\ pc[t] = "move"
  /\ Stale(path[t])
  /\ locks' = Unlocked(t)
  /\ StartSearch(t)
  /\ UNCHANGED <<hashpower, buckets, counter, expansion, req, snap, want, sum, res>>

\* Nothing to move: the slot the search ended at is in one of the two buckets.
NothingToMove(t) ==
  /\ pc[t] = "move"
  /\ Len(path[t]) = 1
  /\ ~Stale(path[t])
  /\ Goto(t, "place")
  /\ UNCHANGED <<table, req, snap, want, path, bfs, sum, res>>

\* The last item of the path moves; the elem_counters are not touched.  The
\* last move keeps the locks of the two buckets of the insert.
Move(t) ==
  LET p == path[t]
      d == Len(p)
      keep == IF d = 2 THEN LocksOf({first(t), second(t)}) ELSE {}
      to == p[d]
      from == p[d - 1]
  IN  /\ pc[t] = "move"
      /\ d > 1
      /\ ~Stale(p)
      /\ buckets' = [buckets EXCEPT ![to.bucket][to.slot] = buckets[from.bucket][from.slot],
                                    ![from.bucket][from.slot] = Free]
      /\ locks' = [l \in Locks |-> IF locks[l] = t /\ l \notin keep
                                   THEN None ELSE locks[l]]
      /\ IF d = 2
         THEN /\ path' = [path EXCEPT ![t] = SubSeq(p, 1, 1)]
              /\ Goto(t, "place")
              /\ UNCHANGED want
         ELSE StartMove(t, SubSeq(p, 1, d - 1))
      /\ UNCHANGED <<hashpower, counter, expansion, req, snap, bfs, sum, res>>

\* Faulty: does not look for the key once more.
PlaceUnchecked(t) ==
  /\ pc[t] = "place"
  /\ Put(path[t][1].bucket, path[t][1].slot, NewEntry(t))
  /\ Count(lock_ind(path[t][1].bucket), 1)
  /\ Finish(t, <<"true">>)
  /\ locks' = Unlocked(t)
  /\ UNCHANGED <<hashpower, expansion, req, snap, want, path, bfs, sum>>

\* The slot is free and the locks are held again, but the key may have been
\* inserted in between: cuckoo_insert looks for it once more.
Place(t) ==
  /\ pc[t] = "place"
  /\ \/ OnDuplicate(t)
     \/ add_to_bucket(t, path[t][1].bucket, path[t][1].slot)
  /\ UNCHANGED <<hashpower, expansion, req, snap, want, path, bfs, sum>>

----------------------------------------------------------------------------
(* The counters, read lock by lock without holding any.                    *)

\* empty() stops at the first counter that is not zero, size() and the load
\* factor add them all.
ScanCounter(t) ==
  \E l \in Lowest(want[t]) :
    LET total == (sum[t] + counter[l]) % CounterMod
        done == want[t] = {l} \/ (pc[t] = "scan" /\ req[t].op = "empty" /\ counter[l] # 0)
    IN  /\ pc[t] \in {"scan", "load"}
        /\ want' = [want EXCEPT ![t] = @ \ {l}]
        /\ sum' = [sum EXCEPT ![t] = total]
        /\ IF ~done THEN UNCHANGED <<pc, res>>
           ELSE IF pc[t] = "load" THEN Goto(t, "check") /\ UNCHANGED res
           ELSE Finish(t, IF req[t].op = "size" THEN <<"size", total>>
                          ELSE <<IF counter[l] = 0 THEN "true" ELSE "false">>)
        /\ UNCHANGED <<table, req, snap, path, bfs>>

----------------------------------------------------------------------------
(* cuckoo_fast_double.                                                     *)

LockExpansion(t) ==
  /\ pc[t] = "expand"
  /\ expansion = None
  /\ expansion' = t
  /\ want' = [want EXCEPT ![t] = Locks]
  /\ sum' = [sum EXCEPT ![t] = 0]
  /\ Goto(t, "load")
  /\ UNCHANGED <<hashpower, buckets, locks, counter, req, snap, path, bfs, res>>

TooFew(n) == 100 * n < MinLoadPercent * SlotPerBucket * (2 ^ hashpower)

LoadTooLow(t) == TooFew(sum[t])

\* check_resize_validity: the load factor is judged before the hashpower.
CheckResize(t) ==
  /\ pc[t] = "check"
  /\ \/ /\ LoadTooLow(t)
        /\ Finish(t, <<"throw">>)
        /\ expansion' = None
        /\ UNCHANGED want
     \/ /\ ~LoadTooLow(t)
        /\ hashpower # snap[t]
        /\ Goto(t, "snapshot")
        /\ expansion' = None
        /\ UNCHANGED <<want, res>>
     \/ /\ ~LoadTooLow(t)
        /\ hashpower = snap[t]
        /\ Goto(t, "lock_all")
        /\ want' = [want EXCEPT ![t] = Locks]
        /\ UNCHANGED <<expansion, res>>
  /\ sum' = [sum EXCEPT ![t] = 0]
  /\ UNCHANGED <<hashpower, buckets, locks, counter, req, snap, path, bfs>>

\* snapshot_and_lock_all takes every lock in order.
LockAll(t) ==
  /\ pc[t] = "lock_all"
  /\ TakeLowest(t)
  /\ IF want'[t] = {} THEN Goto(t, "double") ELSE UNCHANGED pc
  /\ UNCHANGED <<hashpower, buckets, counter, expansion,
                 req, snap, path, bfs, sum, res>>

\* Faulty: locks that only new buckets use are split and unlocked as well.
all_locks_to_move(hp) == Locks

\* The locks of the old buckets: min(locks_.size(), hashsize(current_hp)).
locks_to_move(hp) == { l \in Locks : l \subseteq hashmask(hp) }

\* log2 of buckets_.size(), which is not read off the hashpower.
bucket_bits == Cardinality(UNION DOMAIN buckets)

\* A bucket array twice as long, the old buckets moved to its lower half.
Doubled ==
  [b \in Buckets(bucket_bits + 1) |->
     IF b \in DOMAIN buckets THEN buckets[b] ELSE [s \in Slots |-> Free]]

\* Faulty: without set_hashpower.
DoubleUnset(t) ==
  /\ pc[t] = "double"
  /\ bucket_bits < SegmentHashpower
  /\ buckets' = Doubled
  /\ want' = [want EXCEPT ![t] = locks_to_move(snap[t])]
  /\ Goto(t, "split")
  /\ UNCHANGED <<hashpower, locks, counter, expansion, req, snap, path, bfs, sum, res>>

\* The new array has twice the old one's size, the new hashpower is one more
\* than the hashpower the insert has seen before it took the locks.
Double(t) ==
  /\ pc[t] = "double"
  /\ bucket_bits < SegmentHashpower
  /\ hashpower' = snap[t] + 1
  /\ buckets' = Doubled
  /\ want' = [want EXCEPT ![t] = locks_to_move(snap[t])]
  /\ Goto(t, "split")
  /\ UNCHANGED <<locks, counter, expansion, req, snap, path, bfs, sum, res>>

\* The new array does not fit in the segment: nothing has changed yet.
DoubleThrows(t) ==
  /\ pc[t] = "double"
  /\ SegmentMayFill \/ bucket_bits >= SegmentHashpower
  /\ locks' = Unlocked(t)
  /\ expansion' = None
  /\ Finish(t, <<"throw">>)
  /\ UNCHANGED <<hashpower, buckets, counter, req, snap, want, path, bfs, sum>>

\* The slots of the old bucket b whose items go to the bucket
\* hashsize(current_hp) later: their index or alternate index grew there.
Rising(hp, b) ==
  { s \in Slots :
      /\ occupied(b, s)
      /\ LET hv == Hash[buckets[b][s].key]
             tag == partial_key(hv)
             old_ihash == index_hash(hp, hv)
             new_ihash == index_hash(hp + 1, hv)
         IN  \/ old_ihash = b /\ new_ihash = b \cup {hp}
             \/ /\ alt_index(hp, tag, old_ihash) = b
                /\ alt_index(hp + 1, tag, new_ihash) = b \cup {hp} }

\* The old buckets of lock l, and the items of theirs that move.
OldBuckets(hp, l) == { b \in Buckets(hp) : lock_ind(b) = l }
RisingItems(hp, l) == { m \in OldBuckets(hp, l) \X Slots : m[2] \in Rising(hp, m[1]) }

\* Faulty: moved without being erased from the old bucket.
LowerHalfKeeps(hp, b) == buckets[b]
LowerHalf(hp, b) == [s \in Slots |-> IF s \in Rising(hp, b) THEN Free ELSE buckets[b][s]]

\* The items that move, in the slots they get: the new bucket is filled from
\* slot 0 on (new_bucket_slot++).
RisenShifted(hp, b) ==  \* Faulty: ++new_bucket_slot
  [i \in Slots |->
     LET ranked == { s \in Rising(hp, b) : Cardinality({ r \in Rising(hp, b) : r <= s }) = i }
     IN  IF ranked # {} THEN buckets[b][CHOOSE s \in ranked : TRUE] ELSE Free]
Risen(hp, b) ==
  [i \in Slots |->
     LET ranked == { s \in Rising(hp, b) : Cardinality({ r \in Rising(hp, b) : r < s }) = i }
     IN  IF ranked # {} THEN buckets[b][CHOOSE s \in ranked : TRUE] ELSE Free]

UpperHalf(hp, b) ==
  [i \in Slots |-> IF Risen(hp, b)[i] # Free THEN Risen(hp, b)[i]
                   ELSE buckets[b \cup {hp}][i]]

\* n items of lock l are counted by lock new from now on.
RecountTwice(l, new, n) ==  \* Faulty: not subtracted where they were
  counter' = [counter EXCEPT ![new] = (@ + n) % CounterMod]
Recount(l, new, n) ==
  LET fewer == [counter EXCEPT ![l] = (@ - n) % CounterMod]
  IN  counter' = [fewer EXCEPT ![new] = (@ + n) % CounterMod]

\* move_buckets for one lock: its old buckets are split, the counters follow
\* the items, and the lock is released.
SplitLock(hp, l) ==
  LET n == Cardinality(RisingItems(hp, l))
      new == lock_ind(l \cup {hp})
  IN  /\ buckets' = [b \in DOMAIN buckets |->
                       IF b \in OldBuckets(hp, l) THEN LowerHalf(hp, b)
                       ELSE IF hp \in b /\ b \ {hp} \in OldBuckets(hp, l)
                            THEN UpperHalf(hp, b \ {hp})
                       ELSE buckets[b]]
      /\ Recount(l, new, n)
      /\ locks' = [locks EXCEPT ![l] = None]

\* Threads of parallel_exec split the locks' buckets in parallel.
MoveBuckets(t) ==
  /\ pc[t] = "split"
  /\ \E l \in want[t] :
       /\ SplitLock(snap[t], l)
       /\ want' = [want EXCEPT ![t] = @ \ {l}]
  /\ IF want'[t] = {} THEN Goto(t, "unlock_new") ELSE UNCHANGED pc
  /\ UNCHANGED <<hashpower, expansion, req, snap, path, bfs, sum, res>>

\* The second parallel_exec releases the locks that only new buckets use.
UnlockNew(t) ==
  /\ pc[t] = "unlock_new"
  /\ \E l \in Locks \ locks_to_move(snap[t]) :
       /\ locks[l] = t
       /\ locks' = [locks EXCEPT ![l] = None]
  /\ UNCHANGED <<hashpower, buckets, counter, expansion, threads>>

\* The insert that doubled the table starts over.
Expanded(t) ==
  /\ pc[t] = "unlock_new"
  /\ LocksHeld(t) = {}
  /\ expansion' = None
  /\ Goto(t, "snapshot")
  /\ UNCHANGED <<hashpower, buckets, locks, counter,
                 req, snap, want, path, bfs, sum, res>>

\* The first std::thread of either parallel_exec cannot be created: the
\* exception runs the unlocker, which releases every lock there is.
SpawnFails(t) ==
  /\ \/ pc[t] = "split" /\ want[t] = locks_to_move(snap[t])
     \/ pc[t] = "unlock_new" /\ \A l \in Locks \ locks_to_move(snap[t]) : locks[l] = t
  /\ locks' = [l \in Locks |-> None]
  /\ expansion' = None
  /\ Finish(t, <<"throw">>)
  /\ UNCHANGED <<hashpower, buckets, counter, req, snap, want, path, bfs, sum>>

----------------------------------------------------------------------------
Operate(t) ==
  \/ Find(t) \/ Erase(t) \/ Update(t) \/ Insert(t) \/ CopyThrows(t)

Cuckoo(t) ==
  \/ RunCuckoo(t) \/ SlotSearch(t) \/ Fill(t)
  \/ MoveFails(t) \/ NothingToMove(t) \/ Move(t) \/ Place(t)

Expand(t) ==
  \/ LockExpansion(t) \/ CheckResize(t) \/ LockAll(t) \/ Double(t) \/ DoubleThrows(t)
  \/ MoveBuckets(t) \/ UnlockNew(t) \/ Expanded(t)

\* What a thread does once it has been called.
Step(t) ==
  \/ Snapshot(t) \/ LockBucket(t) \/ HashpowerChanged(t)
  \/ Operate(t) \/ Cuckoo(t) \/ ScanCounter(t) \/ Expand(t) \/ Return(t)

Next ==
  \E t \in Threads : (\E r \in Requests : Call(t, r)) \/ Step(t)

Spec == Init /\ [][Next]_vars

\* The same table where creating a thread may fail.
SpecSpawn == Init /\ [][Next \/ \E t \in Threads : SpawnFails(t)]_vars

----------------------------------------------------------------------------
(* Types.                                                                  *)

\* A search in progress, and what it found: the pathcode of a free slot.
Search(hp) == [x : b_slot(hp), q : Seq(b_slot(hp)), i : Slots]
Pathcode == [from : {0, 1}, slots : Seq(Slots)]

PathTypes ==
  /\ DOMAIN path = Threads /\ DOMAIN bfs = Threads
  /\ \A t \in Threads :
       /\ path[t] \in Seq(CuckooRecord(snap[t]))
       /\ bfs[t] \in {None} \cup Search(snap[t]) \cup Pathcode

\* Every variable has its type; the bucket array always has 2^hashpower
\* buckets (cuckoohash_map.hh: hashpower_, buckets_, locks_).
TypeOK ==
  /\ hashpower \in Nat
  /\ buckets \in [Buckets(hashpower) -> [Slots -> Entry \cup {Free}]]
  /\ locks \in [Locks -> Threads \cup {None}]
  /\ counter \in [Locks -> Counts]
  /\ expansion \in Threads \cup {None}
  /\ pc \in [Threads -> PCs]
  /\ req \in [Threads -> Requests \cup {None}]
  /\ snap \in [Threads -> Nat]
  /\ want \in [Threads -> SUBSET Locks]
  /\ PathTypes
  /\ sum \in [Threads -> Counts]
  /\ res \in [Threads -> Results \cup {None}]

----------------------------------------------------------------------------
(* Properties.                                                             *)

\* The locks the thread works under, or is taking.
LocksWanted(t) ==
  IF path[t] = <<>> THEN LocksOf({first(t), second(t)}) ELSE MoveLocks(t, path[t])

\* As long as a thread that works on buckets holds a lock, the hashpower is
\* the one it computed its bucket indices with, although lock_two checks it
\* under the first lock only; and it holds exactly the locks its work needs.
LocksPinHashpower ==
  \A t \in Threads :
    /\ pc[t] \in {"lock", "critical", "move", "place"} /\ LocksHeld(t) # {}
         => snap[t] = hashpower
    /\ pc[t] \in {"critical", "move", "place"} => LocksHeld(t) = LocksWanted(t)

Expanding == {"load", "check", "lock_all", "double", "split", "unlock_new"}
Lockless ==
  {"idle", "snapshot", "search", "fill", "expand", "scan", "load", "check", "return"}

\* What a thread has asked for, and what run_cuckoo keeps between its steps.
RequestOK(t) ==
  /\ pc[t] # "idle" => req[t] \in Requests
  /\ pc[t] = "scan" => req[t] \in CountRequests
  /\ pc[t] \in {"snapshot", "lock", "critical"} => req[t] \in KeyRequests \cup ValRequests
  /\ path[t] # <<>> \/ pc[t] \in {"search", "fill", "move", "place", "expand"} \cup Expanding
       => req[t] \in ValRequests
  /\ pc[t] = "search" => path[t] = <<>> /\ bfs[t] \in Search(snap[t])
  /\ pc[t] = "fill" => bfs[t] \in Pathcode /\ Len(path[t]) < Len(bfs[t].slots)
  /\ pc[t] \in {"idle", "critical"} => path[t] = <<>>
  /\ pc[t] = "move" => path[t] # <<>>
  /\ pc[t] = "place" => Len(path[t]) = 1
  /\ path[t] # <<>> => path[t][1].bucket \in {first(t), second(t)}

\* The locks still to be taken come after the ones that are held.
InOrder(t) == \A l \in want[t], h \in LocksHeld(t) : Below(h, l)

\* The locks a thread holds and has still to take.
HoldingOK(t) ==
  /\ pc[t] \in Lockless => LocksHeld(t) = {}
  /\ pc[t] = "lock" => want[t] # {} /\ LocksHeld(t) \cup want[t] = LocksWanted(t)
  /\ pc[t] \in {"critical", "move", "place"} => LocksHeld(t) = LocksWanted(t)
  /\ pc[t] \in {"lock", "critical", "move", "place"} /\ LocksHeld(t) # {}
       => snap[t] = hashpower
  /\ pc[t] \in {"lock", "lock_all"} => InOrder(t)

\* The thread that holds the expansion lock.
ExpansionOK(t) ==
  /\ pc[t] \in Expanding <=> expansion = t
  /\ pc[t] = "lock_all" => want[t] # {} /\ LocksHeld(t) \cup want[t] = Locks
  /\ pc[t] = "double" => LocksHeld(t) = Locks
  /\ pc[t] \in {"lock_all", "double"} => snap[t] = hashpower
  /\ pc[t] \in {"split", "unlock_new"} => hashpower = snap[t] + 1
  /\ pc[t] = "split" =>
       /\ want[t] # {} /\ want[t] \subseteq locks_to_move(snap[t])
       /\ want[t] \cup (Locks \ locks_to_move(snap[t])) \subseteq LocksHeld(t)

\* Inductive: what LocksPinHashpower and WritesAreLocked rest on.
IndInv == TypeOK /\ \A t \in Threads : RequestOK(t) /\ HoldingOK(t) /\ ExpansionOK(t)

\* Every bucket and counter a step changes is under a lock that the thread
\* taking the step holds: no two threads race on them (the counters are
\* plain words, and only their unlocked reads may be out of date).
WritesAreLocked ==
  [][\E t \in Threads :
       /\ \A b \in DOMAIN buckets : buckets'[b] # buckets[b] => locks[lock_ind(b)] = t
       /\ \A l \in Locks : counter'[l] # counter[l] => locks[l] = t]_vars

\* Threads take locks in increasing order, so that none waits in a circle
\* (lock_two, lock_three, snapshot_and_lock_all).
LockOrder == \A t \in Threads : pc[t] \in {"lock", "lock_all"} => InOrder(t)

Positions == { p \in Buckets(hashpower) \X Slots : occupied(p[1], p[2]) }
KeyAt(p) == buckets[p[1]][p[2]].key

\* The old bucket b has not been split yet since the table was doubled.
Unsplit(b) == \E t \in Threads : pc[t] = "split" /\ lock_ind(b) \in want[t]

\* Every item is in one of the two buckets a find would look in; in a bucket
\* that is still to be split, one of the two of the table before doubling.
Placement ==
  \A p \in Positions :
    p[1] \in BucketsOf(IF Unsplit(p[1]) THEN hashpower - 1 ELSE hashpower, Hash[KeyAt(p)])

\* No key is in the table twice, although an insert that cuckoos lets go of
\* the buckets it has searched for the key (comment of run_cuckoo).
NoDuplicates == \A p, q \in Positions : KeyAt(p) = KeyAt(q) => p = q

\* The elem_counters always add up to the number of items, although moves
\* along a cuckoo path leave them behind and some wrap below zero.
SizeExact ==
  MapThenSumSet(LAMBDA l : counter[l], Locks) % CounterMod = Cardinality(Positions) % CounterMod

\* The assertions of cuckoo_insert and run_cuckoo on a freed slot, and the
\* one of cuckoopath_search on the path, which others change as it is built.
CuckooAsserts ==
  \A t \in Threads :
    /\ pc[t] = "place" =>
         /\ path[t][1].bucket \in {first(t), second(t)}
         /\ ~occupied(path[t][1].bucket, path[t][1].slot)
    /\ \A i \in 1 .. Len(path[t]) - 1 :
         /\ path[t][i].bucket \in BucketsOf(snap[t], path[t][i].hash)
         /\ path[t][i + 1].bucket \in BucketsOf(snap[t], path[t][i].hash)

\* A search never writes beyond its fixed-size arrays, however often others
\* change what it looks at: CuckooRecords has room for every path (b_slot's
\* assert on its depth), and the queue for one more b_slot (b_queue::enqueue's).
FitsRecords(x) == Len(x.slots) < MAX_BFS_PATH_LEN
PathsFit ==
  \A t \in Threads :
    /\ pc[t] = "search" =>
         /\ Len(bfs[t].q) < MAX_CUCKOO_COUNT - 1
         /\ FitsRecords(bfs[t].x)
         /\ \A i \in 1 .. Len(bfs[t].q) : FitsRecords(bfs[t].q[i])
    /\ pc[t] = "fill" => Len(bfs[t].slots) <= MAX_BFS_PATH_LEN
    /\ Len(path[t]) <= MAX_BFS_PATH_LEN

\* What cuckoopath_search has recorded: the bucket of each record but the last
\* is one of the two of the item that was there, and the next record's bucket
\* is the other one.  The slot a path has freed stays free.
PathOK(t) ==
  /\ \A i \in 1 .. Len(path[t]) :
       i < Len(path[t]) \/ pc[t] = "fill"
         => path[t][i].bucket \in BucketsOf(snap[t], path[t][i].hash)
  /\ \A i \in 1 .. Len(path[t]) - 1 :
       path[t][i + 1].bucket =
         alt_index(snap[t], partial_key(path[t][i].hash), path[t][i].bucket)
  /\ pc[t] = "place" => ~occupied(path[t][1].bucket, path[t][1].slot)

\* A new bucket is empty until the old bucket its items come from is split.
NewAreEmpty(t) ==
  pc[t] = "split" =>
    \A b \in Buckets(snap[t]), s \in Slots :
      lock_ind(b) \in want[t] => ~occupied(b \cup {snap[t]}, s)

\* Inductive together with IndInv: where items are, while any number of
\* threads move, insert and erase them and one splits the buckets.
DataInv == Placement /\ NoDuplicates /\ \A t \in Threads : PathOK(t) /\ NewAreEmpty(t)

\* A thread has a request while it is not idle and a result when it returns,
\* and only an insert or upsert searches for a path or doubles the table.
CallOK(t) ==
  /\ pc[t] = "idle" <=> req[t] = None
  /\ pc[t] = "return" <=> res[t] # None
  /\ path[t] # <<>> \/ pc[t] \in {"search", "fill", "move", "place", "expand"} \cup Expanding
       => req[t].op \in {"upsert", "insert"}
CallsOK == \A t \in Threads : CallOK(t)

Idle == \A t \in Threads : pc[t] = "idle"

\* empty() "returns whether the table is empty or not": when no operation is
\* running, the counters are all zero exactly if there are no items.
EmptyIsExact == Idle => ((\A l \in Locks : counter[l] = 0) <=> Positions = {})

\* When no operation is running, every item is in a bucket a find looks in.
Findable == Idle => \A p \in Positions : p[1] \in BucketsOf(hashpower, Hash[KeyAt(p)])

----------------------------------------------------------------------------
(* The dictionary the table stands for, and its abstract specification.    *)

Absent == None

dict ==
  LET Taken == Positions
  IN  [k \in Keys |-> IF \E p \in Taken : KeyAt(p) = k
                      THEN LET p == CHOOSE p \in Taken : KeyAt(p) = k
                           IN  buckets[p[1]][p[2]].val
                      ELSE Absent]

Atomic == INSTANCE AtomicMap
            WITH call <- req, ret <- res, Unsure <- CountResults,
                 NoRequest <- None, NoResult <- None

\* Every operation takes effect on the dictionary at one instant between its
\* call and its return, whatever moves or splits go on around it.
Linearizable == Atomic!Spec
=============================================================================
