# A TLA+ model of jakilid

jakilid is `SharedDict` (`src/jakilid.hpp`): a dictionary that several processes
share, built from a serializer, boost's managed shared memory and a patched copy
of libcuckoo's concurrent cuckoo hash table (`src/libcuckoo`). This directory
models the program in TLA+, checks the models with TLC on small instances, and
proves with TLAPS, for instances of every size, that the table is linearizable
and loses no item, also while it is cleared, resized or locked as a whole, that
a dictionary is one for all the processes that name it and use it by stated
rules, that the lock array keeps its blocks, and that what is read back is what
was written.

## 1. The system

| component | source | state it keeps | operations |
| --- | --- | --- | --- |
| hash table | `libcuckoo/cuckoohash_map.hh` | `hashpower_`, `buckets_`, `locks_` with their `elem_counter`s, `expansion_lock_`, minimum load factor, maximum hashpower | `find`, `find_fn`, `contains`, `update`, `update_fn`, `upsert`, `insert`, `erase`, `erase_fn`, `size`, `empty`, `load_factor`, `rehash`, `reserve`, `clear`, `lock_table` |
| cuckoo search | same file, `run_cuckoo` and below | a queue of `b_slot`s and a path of `CuckooRecord`s per insert | `slot_search`, `cuckoopath_search`, `cuckoopath_move` |
| expansion | same file, `cuckoo_fast_double` and below | the old and the new bucket array, which locks' buckets are split | `check_resize_validity`, `snapshot_and_lock_all`, `move_buckets`, `parallel_exec`, `cuckoo_expand_simple` |
| lock array | `libcuckoo/libcuckoo_lazy_array.hh` | `segments_`, `allocated_segments_` | construct, `resize`, `clear`, `operator[]`, move |
| locked table | `cuckoohash_map.hh`, `locked_table` | all locks of the table, iterators | `insert`, `find`, `erase` by key and by iterator, `clear`, `rehash`, `reserve`, `size`, iteration, `unlock` |
| dictionary | `jakilid.hpp` | `hash_map_` per handle, `segment_` per thread, named maps in the segment | construct, `Find`, `FindRaw`, `Contains`, `Insert`, `Erase`, `Empty`, `Size`, `Drop` |
| serializer | `serializer.hpp`, `traits.hpp` | none: two header bytes that name a type, then the value's bytes | `Serialize`, `Deserialize`, `raise_for_type` |
| Python binding | `py.cpp`, `mp.hpp` | none | `insert` by overload, `find` by header |
| segment | boost::interprocess (external) | named objects, memory | `find_or_construct`, `destroy`, allocate |

How they interact. A `SharedDict` handle opens the segment once per thread and
looks its map up by name, creating it if need be. Every operation serializes
its key (and value) into strings that live in the segment and calls the map.
Threads of many processes are inside the map at the same time. They meet at the
spinlocks of `locks_` (one per bucket index modulo the size of the array), at
`expansion_lock_`, and at the unlocked reads of `hashpower_` and of the
counters.

What is hard about it:

* *Interleaving.* An insert lets go of its locks to search for a cuckoo path,
  so the key may be inserted by another thread, the path may become stale, and
  the table may be doubled while it looks. While a table is being doubled,
  buckets are handed out lock by lock.
* *Stale state.* Bucket indices are computed from a hashpower read without a
  lock and checked under one lock; the load factor is a sum of counters read
  one by one.
* *Partial failure.* Memory of the segment runs out, a thread cannot be
  created, with all locks held.
* *Liveness.* Spinlocks, retry loops without a bound.
* *Sharing.* Pointers are kept per handle, mappings per thread, objects per
  segment; dropping a map concerns all of them.

What makes each component correct:

* locked table: its owner is alone with the dictionary, an iterator visits
  every item once, and nobody waits for ever because of it.
* table: it behaves as one dictionary whose operations happen at an instant
  (linearizable); every item is where a find looks; no key is there twice; the
  counters add up; nobody writes without the lock; locks are taken in order;
  every call returns.
* lock array: what is indexed is allocated, nothing is lost.
* dictionary: all handles of a name reach the same map, and none uses a map or
  a mapping that is gone.
* serializer: what is read back with the type it was written with is what was
  written, and any other type is refused.

## 2. Modules

| module | models |
| --- | --- |
| `CuckooIndex` | hash, partial key, the two bucket indices, the lock index |
| `CuckooMap` | the table as threads run it: every step of the operations `SharedDict` calls |
| `AtomicMap` | what the table promises: a dictionary with atomic operations |
| `WholeTable` | the operations on the table as a whole, and the `locked_table` |
| `OwnedMap` | what they promise: the dictionary of `AtomicMap`, which a thread may own and iterate over |
| `CuckooMapMC`, `TwinKeysMC`, `WholeTableMC` | hash functions for TLC and the symmetries of threads and of keys with one hash |
| `CuckooMapLive` | a budget of calls and fairness |
| `CuckooMap_proofs` | the proofs about the locks of `CuckooMap`: who holds which, in what order, and who may write |
| `CuckooDict_proofs` | the proofs about the items: where they are, that none is lost or twice there, the refinement of `AtomicMap`, and the counters |
| `WholeTable_proofs` | the proofs about the locks of `WholeTable` |
| `WholeDict_proofs` | the proofs about the items while the table is worked on as a whole |
| `FiniteSums` | induction over finite sets, and sums over them, for those proofs |
| `LazyArray` | the segmented array the spinlocks live in |
| `LazyArrayMC` | the symmetry of places and blocks |
| `LazyArray_proofs` | the proofs about `LazyArray` |
| `SharedDict` | `SharedDict` handles of threads of several processes on one segment |
| `NamedDicts` | what they promise: one dictionary per name |
| `SharedDictMC` | which thread uses which handle, and which process it is of |
| `SharedDict_proofs` | the proofs about `SharedDict`, with the refinement of `NamedDicts` |
| `Serializer` | the typed headers of keys and values, in C++ and in Python |
| `SerializerMC` | typed values for TLC |
| `Serializer_proofs` | the proofs about `Serializer` |

`SharedDict` takes the map behind a handle for a dictionary with atomic
operations. That is what `CuckooMap` implements (`Linearizable`, proved), so the two
fit together without being checked in one state space. `Serializer` justifies
in the same way that keys and values are plain members of a set in the others.

### CuckooIndex

A machine word is the *set of positions of its one bits*. XOR is symmetric
difference and masking is intersection, so that the facts about the index
functions are set algebra and hold for words of any width. `Mix` stands for the
multiplication by MurmurHash's constant; it is a constant of the module, any
function of the tag will do. TLC uses the low byte of the real multiplier.
`Below` is the numeric order of words, in which locks are taken.

### CuckooMap

A step is what a thread does between two moments another thread can notice.
Three reductions make the steps larger than the instructions:

* An acquisition of a spinlock and the check of the hashpower under it are one
  step: the hashpower changes only while all locks are held (it is pinned:
  `LocksPinHashpower`, proved).
* The work under the locks and their release are one step: nobody else touches
  what the locks protect (`WritesAreLocked`, proved), and a release can be
  moved forward over the steps of others.
* `lock_one`, the look at one slot and the release are one step, enabled when
  the lock is free.

`pc[t]` says what thread `t` does next:

| `pc` | code |
| --- | --- |
| `idle`, `return` | outside, and at the `return` of the operation |
| `snapshot`, `lock` | `snapshot_and_lock_two`; the locks of `lock_two` and `lock_three` one by one |
| `critical` | the body of the operation under the two locks |
| `search` | one iteration of `slot_search` |
| `fill` | one iteration of `cuckoopath_search` |
| `move`, `place` | `cuckoopath_move` with its locks held, and `cuckoo_insert` after it |
| `scan`, `load` | `size`, `empty` and `load_factor`, counter by counter |
| `expand`, `check` | `expansion_lock_`, `check_resize_validity` |
| `lock_all`, `double`, `split`, `unlock_new` | `cuckoo_fast_double` |

A slot is `Free` or an entry; whether its stored partial key equals the key's
is left out, because the partial key is a function of the hash. `elem_counter`
counts modulo `CounterMod`, as the word of the code does modulo 2^64. The
splits of different locks by the threads of `parallel_exec` happen in any
order. Within one lock the two counter updates of an item are one step, so
that a sum read in the middle of them is not among the behaviours; `size` and
`empty` are unconstrained in `AtomicMap` anyway. Scratch state of a thread is
reset when it is dead (`sum` in `CheckResize`, the rest in `Return`), which
keeps the state space small.

Memory of the segment ends in two ways: `SegmentHashpower` is the largest
bucket array that fits, and `SegmentMayFill` lets any allocation fail.
Creating a `std::thread` may fail only in `SpecSpawn`.

`AtomicMap` is the table's promise: between call and return an operation takes
effect on a dictionary in one step; `size` and `empty`, which the code calls
unsynchronised, return anything. An insert may throw without effect.

### WholeTable

`WholeTable` extends `CuckooMap` by what works on all buckets: `clear`,
`rehash`, `reserve`, `lock_table`, and the methods of the `locked_table` that
`lock_table` returns. `owner` is the thread whose `locked_table` is active; `it`
is one iterator of it, a position, `End`, or `None` when the class says that it
is not valid any more.

| `pc` | code |
| --- | --- |
| `resize` | `cuckoo_rehash` and `cuckoo_reserve`, the look at the hashpower before any lock is taken |
| `grab` | `snapshot_and_lock_all`, lock by lock |
| `whole` | `cuckoo_clear`, `cuckoo_expand_simple`, or the end of `lock_table`, under all locks |
| `owned` | a method of the `locked_table`: `locking_inactive`, so it takes no spinlock |

* What happens under all locks is one step, by the argument of `CuckooMap`.
  An insert of the owner is the exception: it may have to double the table,
  for which it needs `expansion_lock_` (`MustExpand`, then `OwnedDouble` or
  `OwnedInsertThrows`).
* `cuckoo_expand_simple` inserts the items into a new map from several
  threads. `Tables(hp, E)` is every table of hashpower `hp` that holds the items
  `E`, each in one of its two buckets, and `NewHashpowers` the sizes the new map
  may end with, which grows when an insert into it finds both buckets full.
  That has more outcomes than the code for a given schedule and no fewer. The
  `elem_counter`s of the table stay as they are, as in the code, which swaps the
  buckets and not the locks.
* An insert of the owner that cuckoos has nobody in its way, so that its whole
  search and all moves are one step along a shortest path (`Shortest`,
  `MoveAlong`). `SearchMayFail` lets it fail whenever the queue could be full:
  again more outcomes, because the order of the slots is left out.
* The order of iteration is bucket by bucket, slot by slot (`Before`).
* What the class leaves undefined is not called (`MayIterate`), nor does a
  thread with an active `locked_table` call the map itself, which would wait for
  its own locks (`CallMap`).

`CarefulSpec` adds a precondition that the classes do not state: nobody
resizes the table by hand, nor inserts through a `locked_table`, while another
thread is in an insert that may expand it. Section 6 shows what happens
otherwise (`rehash_during_double`, `locked_insert_deadlock`).

`OwnedMap` is the promise: the atomic dictionary, which `lock_table` gives to
one thread. Until `unlock` nobody else has an effect on it; its keys stand in
some order that only the owner's inserts and resizes shuffle; an iterator is a
rank in that order. `next`, `prev` and `erase_at` move the rank, and `size` is
exact. In the refinement the order is that of the positions.

### LazyArray

`arrays` holds the array objects: the pointers of `segments_` and the count
`allocated_segments_`. `heap` holds the blocks allocated. `resize` with
`create_array` failing in the middle is one disjunct of `Resized`: the blocks
before the failure are allocated, and not counted. `Next` is the use
`cuckoohash_map` makes of the array: `resize` to more elements or to fewer (an
insert that doubles a table which a `rehash` made smaller before asks for fewer
locks than there are), and `clear()` by the destructor alone. `Shrinks` tells
the resizes to fewer elements from the others: the doc says that there are none,
and what they lose is not counted against `GrowthLosesNothing`.

### SharedDict

`segment_` is kept per thread (it is `thread_local`), `hash_map_` per handle;
`named` and `objects` are the segment. A pointer is a record of the address of
the mapping it was computed in and the offset of the object. Objects live at
offsets, so that a pointer of another process, or of a mapping that was closed,
does not lead to its object by accident.

| `pc` | code |
| --- | --- |
| `open` | `open()` up to the result of `find_or_construct` |
| `assign` | the assignment of that result to `hash_map_` |
| `use` | `manager()`, the serialization and the operation of the map |
| `drop`, `destroy` | the two statements of `Drop` |
| `return` | the return to the caller |

`Next` is any use of the class that compiles, copies of handles aside. A handle
may be dropped while others of its name are open, and a thread may end before
its handles. Two history variables remember whom that concerns: `lost`, the
handles whose map another's `Drop` has destroyed, and `left`, those a thread has
left behind. They are not in the code, where nothing tells such a handle from a
good one. `CarefulNext` adds the rules by which the tests and the command line
client keep, whose handles serve one call or drop the name before they use it:

* `DropsApart`: no `Drop` overlaps a call on its name through another handle;
* `NotStale`: of a `lost` handle the next call is a `Drop`, which makes it good
  again, or it is destructed; a `left` one is only destructed.

Nothing in the class enforces either rule, nor that a handle has one user
(`OneUser`, which the instance of `dict_processes` has); section 6 says what
happens without them. A process may end between any two steps (`Crash`).

`NamedDicts` is the promise: one dictionary per name, which comes into being
with its first use and outlives its users.

### Serializer

A serialized value is the header and the *units* of the value, a unit being
the bytes of one number or character. `type_char` gives the headers;
`raise_for_type` compares them; `Deserialize` returns the set of results the
code may have, which has more than one member where a wide character is read
from an empty text (beyond the terminator). `PythonFind` chooses among the
types Python has by the header.

## 3. What the runs check

| run | shows | instance |
| --- | --- | --- |
| `doubling` | while a table doubles from 1 to 2 to 4 buckets, moves items along cuckoo paths and runs out of memory, the locking protocol, the place of items, the counters and the code's assertions hold, and finds, updates, upserts and erases are those of an atomic dictionary | 2 threads, 3 keys of which 2 have one hash, 1 slot, 2 locks |
| `operations` | finds, inserts, upserts, erases, `size` and `empty`, with `clear`, `rehash` up and down and `lock_table` by another thread: atomic, no circle of waiting, nothing confused by a hashpower that changed and changed back | 2 threads, 2 keys, 2 values, 4 to 8 buckets |
| `locked_table` | the owner of the table is alone with it, its iterator visits every item once, its inserts and erases keep the counters; with inserts that expand the table and `reserve` around it | 2 threads, 3 keys, 2 slots, 2 to 4 buckets |
| `returns` | every call returns, unless two threads find their cuckoo paths stale for ever; locks are taken in one order, up to three of them; paths fit their array; items move under the locks of both buckets | 5 inserts, 2 threads, 5 keys, paths of 3 |
| `dict_processes` | handles of two processes that keep to the rules of `CarefulNext` implement one dictionary per name, whoever drops it; no call uses a map or a mapping that is gone | 2 processes, 3 handles, 2 names |
| `lock_array` | every index leads to a segment of its own, that does not move while it is counted; growth, moves and destruction lose nothing, also after a shrink or a failure | 2 arrays of 2 segments, 5 blocks |
| `typing` | what is read is what was written, or is refused; Python reads its types | 22 types, texts of up to 2 units, 3 keys |
| `rehash_during_double`, `locked_insert_deadlock`, `spawn_fails`, `moves_miscount`, `dict_shared_handle` | disagreements, section 6 | as above |

Why the bounds are enough to see something:

* `doubling` starts with one bucket, so that two doublings happen: the first has a
  lock that only the new bucket uses (`UnlockNew`), the second has two buckets
  under each lock. Key 2 and the two *twins*, which have the same hash (15), may be
  in both buckets of the table of two, and in buckets 1 and 2, and 2 and 3, of the
  table of four. So every operation takes two locks, in the order of locks and not
  of buckets; in the second doubling it may find the bucket under one lock split,
  that under the other not, and it waits for the thread that splits it while it
  holds the first. The third key makes the table double, items rise and are
  counted by another lock, and then an insert moves key 2 out of the way of a
  twin, or a twin out of that of key 2: a cuckoo path, which inserts of the same
  key and erases make stale, and finds and updates cross.
* `operations` has two keys that both want bucket 2, of which one can also be in
  another, under the other lock: paths arise and are outrun by `rehash` between
  hashpowers 2 and 3. Every pair of operations runs at once (`update` is in
  `doubling`). The minimum load factor is 1 and the counters, which go up to 2,
  never add up to the number of slots, so that no automatic expansion mixes with
  the resizes by hand (see `CarefulSpec`).
* `locked_table` has three keys that share bucket 0 of two slots at hashpower
  1: the third insert doubles the table, be it an ordinary one or the owner's. All
  that is there rises to bucket 2 and is packed into its slots; keys 14 and 30,
  which have one hash, may go back to bucket 0, so an owner's insert of key 6
  cuckoos, and iterators cross slots, buckets and empty buckets. `reserve` for 4
  asks for a table that is too small for three such keys and has to grow while
  it is built.
* `returns` has the chain of buckets for paths of three positions, of which two
  inserts move the last item at the same time, under the locks of two buckets and,
  for the first, of a third. A circle of two such moves waiting for each other's
  locks would be a call that does not return. Of `PathsFit` the run exercises the
  bound on the length of paths; the bound on the queue follows from the code's
  test that it is not full, by the theorem `SearchesFit`.
* `CounterMod` is as small as the number of items allows; moves along paths
  take counters below zero, which is the case of interest.
* `MAX_CUCKOO_COUNT` is 4 to 8 instead of 256: the queue of a search is full
  when it has three to seven entries. `MinLoadPercent` is the code's 5, except in
  `operations` (100, the largest `minimum_load_factor` takes).
* `dict_processes` has two handles of one thread with different names, and
  one in another process with the name of the first: the smallest setting in
  which a name is shared and one is not. Each of the two handles of the shared
  name may drop it while the other is open, and the dictionary is made anew at the
  offset of the old one or at another. Two addresses let two processes
  map the segment apart or at the same place.
* `lock_array` has targets from 0 to one more than the capacity; five blocks
  are one more than the two arrays can own.

`Permutations` are sound as symmetries where they are used: threads, values,
offsets, addresses, places and blocks are only compared for equality, and so are
the twin keys, because the hash does not tell one from the other. The run with
fairness has none.

Fault operators (marked `Faulty` in the modules) are plausible mistakes. With
one of them in place of the operator it stands beside, the property it is
recorded with in `PROJECT.json` is violated, so that no property holds because
the model could not break it.

## 4. Fairness and liveness

`CuckooMapLive` assumes weak fairness of `Step(t)` for each thread: a thread
that can go on is given a processor some time. It assumes nothing about the
order in which spinlocks are won. The spinlock is an `atomic_flag` without a
queue, so that without a bound on calls one thread could lose every race; the
run therefore has `MaxCalls` calls in all. `expansion_lock_` is taken for a
mutex that wakes its waiters.

Even so, not every call returns. `run_cuckoo` has no bound on retries: with
keys 0, 1 and 10 in place and inserts of 12 and 6 at the same time (one slot
per bucket, hashpower 2), each of the two keeps moving an item that makes the
other's path stale, and TLC shows a cycle that is fair to both (check
`EveryCallReturns` in the instance of `returns`). The property
`ReturnsUnlessMovesFail` says that this is the only way: every call returns
unless two threads each take infinitely many steps in which `cuckoopath_move`
gives up (`MoveFails`). Two inserts that waited for each other's spinlocks, with
their paths in hand, would take no such step and violate it. In practice the
timing of two inserts that undo each other's moves does not stay in step.

## 5. What is proved

Everything here holds for every value of the constants that the named
assumptions admit, so for any number of threads, keys, slots, locks and
buckets, any widths and any hash function.

### The table: locks

`CuckooMap_proofs` proves:

* `Protocol`: `Spec => []IndInv`. `IndInv` says of every thread which locks it
  holds at which point (`HoldingOK`), what it has asked for and recorded
  (`RequestOK`), and where the thread with `expansion_lock_` is in the
  doubling (`ExpansionOK`).
* `TypeCorrect`, `LocksPin`, `LocksInOrder`: `TypeOK`, `LocksPinHashpower` and
  `LockOrder` follow from it.
* `NoRaces`: `Spec => WritesAreLocked`, from the invariant and the actions.

Why the strengthening is needed: that the hashpower is pinned under a single
lock is true only because whoever doubles the table holds *all* locks, and goes
on holding those of unsplit buckets afterwards. So the invariant has to follow
the expander through `lock_all`, `double`, `split` and `unlock_new`, and every
other thread through each set of locks it takes, in order. The argument is
rely-guarantee: `OthersKeep` says that a step of one thread that neither gives
nor takes another's locks, and changes the hashpower only when the other holds
none, keeps the other's part of the invariant; `StepKeeps` reduces every action
to the acting thread; then there is one lemma per action.

### The table: items

`CuckooDict_proofs` proves `DataInvariant`: `Spec => []DataInv`, and from it
`PlacementHolds`, `NoDuplicatesHold`, `AssertionsHold` (`CuckooAsserts`) and
`ItemsAreFindable` (`Findable`). `SearchesFit` (`PathsFit`, which is inductive
together with `IndInv`) says that a path of a search has at most
`MAX_BFS_PATH_LEN` positions and the circular queue never holds as many as it
has places, for every value of the two constants.

`DataInv` is `Placement` and `NoDuplicates` with two more conjuncts, without
which neither is inductive:

* `PathOK`: the bucket of a record of a cuckoo path is one of the two of the
  item the record was made from, and the next record's bucket is the other one.
  A move checks under the locks only that an item with *that hash* is still in
  the slot. That this makes the other bucket right for it, although its key may be
  another by now, is what `PathOK` gives. It also says that the slot freed by the
  first move stays free until the insert uses it, between which steps the locks
  are held.
* `NewAreEmpty`: a new bucket has no items until the old bucket under it is split,
  so that `move_bucket` packs into an empty one and overwrites nothing.

The index lemmas behind it are set algebra: the alternate index is its own
inverse (`AltInverse`), and at a doubling both indices stay or grow by one bit.
`NoDuplicates` rests on `IndInv` as well: an insert that comes back from a
cuckoo search looks for its key again under the locks of both buckets, and any
other copy would have to be in one of them.

`Findable` says that nothing is left in a bucket to be split once no operation
runs. It is true for `Spec` and false for `SpecSpawn` (`spawn_fails`): the proof
needs that the expander leaves `split` only with `want = {}`.

### The table: the dictionary

The second part of `CuckooDict_proofs` proves `Implements`: `Spec =>
Linearizable`, the refinement of `AtomicMap` under the mapping that the module
states (`dict` read off the buckets). The invariant is `LinInv`, which adds
`CallsOK` to the two above: a call has a result just when it returns, and only
an insert or upsert is ever on a path or in a doubling. Each action is shown to
be a `Call`, an effect, a `Return` or a stutter: a find, update or erase takes
effect under its two locks, an insert at `critical` or at `place`; moves along a
path and splits change where entries are and not `Items`, the set of entries, so
they stutter (`ItemsAfterMove`, `ItemsAfterSplit`).

`SizeIsExact`: `Spec => []SizeExact`. The strengthening `CountOK` is the same fact
about `Items` instead of positions (no duplicates: they are in bijection); the
sum of the counters is the number of items modulo `CounterMod`. A split changes
a whole set of slots and two counters at a time, so the proof counts the
items that rise (`FiniteSums`: sums over finite sets under a change of one or two
terms, and the number of elements of disjoint unions, by well-founded induction
over subsets).

### The table as a whole: locks

`WholeTable_proofs` proves, of `CarefulSpec`, `WholeProtocol`: `[]WholeInv`, and
from it `BucketsAreCounted` (`BucketCount`), `NoDeadlocks` (`NoCircle`) and
`WholeTypesHold` (`WholeTypeOK`).

`WholeTable` has all steps of `CuckooMap`, so the proof uses those of
`CuckooMap_proofs` instead of repeating them. A thread is *away* (`Away`) while
it is in an operation on the whole table or owns it. `Map` is an instance of
`CuckooDict_proofs` on the *table seen*, in which a thread that is away is idle
and the locks it has are free (`pcSeen`, `locksSeen` and so on; the table
itself is the same). `WholeInv` is

* `SeenInv`: the table seen satisfies `IndInv` and `CallsOK`, and of each
  thread that is away `AwayOK` says which locks it has at which place: in order while it
  takes them, all of them at `whole` and `owned`;
* `CarefulOK`: what `Careful` buys. No thread is in an insert while another is
  resizing or inserting as the owner.

A step of a thread that is there is a step of the table seen, because a lock
it finds free is free (`SeenStep`). A step of a thread that is away is either a
stutter there, or it changes the table under all locks (`Unseen`). Then nobody
else has a lock, and what `IndInv` says of the others is that they have
none; only a thread that has `expansion_lock_` has a stake in the hashpower without any
spinlock, and `CarefulOK` excludes it. This is where `rehash_during_double`
fails without `Careful`. `NoCircle` is proved from an order: in a circle, take the
highest spinlock anybody waits for. The thread that has it takes spinlocks in order, so
it does not wait for a lower one; and who waits for `expansion_lock_` while another
thread has it has no spinlock (`ExpansionWaiter`: an owner that doubles the table could,
which `Careful` excludes). Without spinlocks, a circle would need who has
`expansion_lock_` to wait for it, and it does not (`ExpansionHolder`).

### The table as a whole: items

`WholeDict_proofs` proves, of `CarefulSpec`, `WholeItems`: `[](WholeInv /\ ItemsInv)`,
and from it `WholePlacement` (`Placement` and `NoDuplicates`), `WholeSizeIsExact`
(`SizeExact`), `WholeAssertionsHold` (`CuckooAsserts`) and `WholeLocksPin`
(`LocksPinHashpower`).

`ItemsInv` is `DataInv` and `CountOK` of the table seen. For the steps that
are seen, `CuckooDict_proofs` says that it is kept. Who changes the table
as a whole has all locks, so nobody is on a path or in a split: every item is
in one of its buckets (`Placed`, without the exception for unsplit buckets), and
`TableOK` adds that none is there twice and that the counters add up. Each
step leaves it so, by a lemma on the items after it:

* `EmptiedData` and `RebuiltData`: after `clear` there are none, and after
  `rehash` and `reserve` the same ones, whatever the order in which the
  threads of `cuckoo_expand_simple` move them (`Places`: an injective placing
  of the items in buckets of theirs).
* `StoredData`, `RemovedData`: the owner's insert into a free slot, and its
  erases.
* `MovedData`: the owner's insert along a path. A path that is *shortest* visits
  no position twice (`ShortestTrail`): otherwise leaving out the part
  between the two visits made a shorter one. That is why all its moves in
  one step lose no item. Two keys on the path with one other bucket are the case
  a test would hardly build.
* `SplitData`: the owner's doubling. Items rise or stay as their hash says
  (`SplitsFrom`, `SplitsTo`, one for each direction), and the sum of the counters stays
  what it was (`DoubledCounts`), lock by lock: items are counted by the lock
  they leave and the one they get (`SumOfFibres` of `FiniteSums`).

### The lock array

`LazyArray_proofs` proves `ArrayInvariant` (`Spec => []ArrayInv`) and from it
`ArrayTypes`, `IndicesAreAllocated` (`IndexedIsAllocated`), `LocksStayInPlace`
(`GrowsInPlace`) and `BlocksAreKept` (`GrowthLosesNothing`). The inductive form
`SegmentsOK` compares segments index by index, over all arrays that live: that no
block is owned twice is otherwise not kept by a move or by a resize that makes
new segments after a smaller one has forgotten some.

### The dictionary of a name

`SharedDict_proofs` proves, of `CarefulSpec`, so with the rules `DropsApart` and
`NotStale`, and if `OneUser` (a handle is used by one thread only):

* `DictInvariant`: `[]DictInv`.
* `StringsArePortable`, `ManagerIsOpen`, `MapStaysOpen`: the safety properties
  `Portable`, `SegmentIsOpen` and `MapIsOpen`, from it.
* `OneDictPerName`: the refinement `SharedByName` of `NamedDicts`. Its
  invariant is `RefineInv`, which adds that a call has a result just when it is
  about to return.

The three conditions are on the user; the code guarantees none of them. What is
proved is that they are enough: that handles may then be dropped, lose their map
to a namesake's `Drop`, be left behind, made anew and looked up again in any
order, with offsets and addresses that are used again for other things, and
with processes that end anywhere.

`MapIsOpen` speaks of the moment of use, but whether it holds is decided
earlier, when the name was looked up, and by others, who may drop the name or
unmap the segment in between. So `DictInv` says of each open handle that its
pointer is what its name means *now*, through the mapping its user has *now*,
unless the handle is among those that the history variables name
(`HandleOK`), and of each call what it has got hold of (`CallOK`): that its handle
is not one of those, unless it is about to drop, and that while a call to `Drop` is
on its way no other handle of the name is in a call. `NamesAreObjects`, that
names and objects are one to one, is a part of it and follows from boost alone.
`StepKeeps` again reduces a step to the acting thread and its handle.
Without `OneUser` the theorems are false; `dict_shared_handle` shows it.

### The serializer

`Serializer_proofs` proves `ReadsAreFaithful` (`ReadsWhatWasWritten`) and
`PythonReadsAreFaithful` (`PythonReadsItsTypes`), with the invariant `ReadInv`. Its
part `StoredOK` relates what is stored under a serialized key to what was
written last under a key of that *meaning*; it holds because two keys have the
same serialized form only if they mean the same: the header is two units
long and tells the types apart, which is a fact about the table `type_char` that the
provers check case by case.

### Assumptions

All are named, evaluated by TLC in the runs, and hold in the code:

* `IndexAssumption`: widths are numbers, `Mix` is a function to words.
* `MapAssumption`, `SharedAssumption`, `ArrayAssumption`: sizes are positive, the
  search's queue has room for more than two positions, a handle is used within
  one process.
* `FreeAssumption` and the `NoneAssumption`s: the marks for "nothing" (`Free`,
  `None`, `Null`) are not among the things there may be. In the code they
  are a flag, a null pointer, or being at another place.
* `PowerAssumption` of `LazyArray`: 2^n is positive and 2^(m+n) = 2^m 2^n. They are
  laws of arithmetic, which this prover has no means to prove.
* `WholeAssumption`: the arguments of `rehash` and `reserve` are numbers, and the
  index of a bucket in the largest array that fits in the segment is a word. It
  is: a word has 64 bits, and memory less than 2^64 bytes.
* `TypedAssumption` of `Serializer`: keys and values are typed values, of which a
  text is any sequence of units and everything else is one unit.

Creation of threads is taken to succeed, as in `Spec`.

### Only model-checked

The refinement `OwnedTable`: which order the owner's iterator visits items in,
and that an operation on the whole table takes effect at an instant. For
`WholeSpec` without `Careful` nothing is proved, since little of it is true.
`ReturnsUnlessMovesFail`: liveness, fairness and `ENABLED` are out of the
prover's reach, as is what a definition by recursion computes for all inputs.

## 6. Where the code and what is said of it disagree

* `moves_miscount`: a move along a cuckoo path changes the lock an item is counted
  by and neither counter. Their sum stays right (`SizeExact`), but `empty()`
  looks at each by itself: after everything was erased one may be 1 and another
  2^64 - 1, and `empty()` says `false`.
* `rehash_during_double`: an insert that expands the table checks the hashpower
  under `expansion_lock_` and then takes the spinlocks. `rehash` and `reserve`
  take the spinlocks alone, so they may resize the table in between; the insert
  then doubles an array of another size than it believes, sets the hashpower to
  one more than the old one, and `buckets_` has not 2^`hashpower_` elements.
* `locked_insert_deadlock`: an insert into a `locked_table` that has to expand
  waits for `expansion_lock_` with all spinlocks held; an ordinary insert takes
  the two in the other order. They wait for each other for ever.
* `spawn_fails`: if `std::thread` throws in the first `parallel_exec` of
  `cuckoo_fast_double`, all locks are released with the buckets not split.
  Items are where no find looks for them.
* `dict_shared_handle`: a handle that one thread has opened does not map the
  segment in another: `manager()` dereferences a null `segment_`.

Seen while modelling, without a run of their own:

* `check_resize_validity` judges the load (`:1719`) before it looks whether
  somebody else has doubled the table (`:1722`). An insert that lost that race
  throws `libcuckoo_load_factor_too_low`, although the doc (`:1105`) has it thrown
  if expansion is necessary, and it had only to try again.
* When an insert into the new map throws in the middle of `cuckoo_expand_simple`
  (the segment is full), the items already moved are lost: the old buckets hold
  what is left of them. The comment of `cuckoo_fast_double` (`:1593`) calls it the
  one that "provides a strong exception guarantee".
* `rehash` and `reserve` answer whether `cuckoo_expand_simple` ran, which is not
  "true if the table changed size" (`:480`, `:491`): `rehash(0)` of a table of
  hashpower 1 rebuilds it at hashpower 1 and returns true, and so may a shrink
  that does not fit.
* After `rehash` the `elem_counter`s count items by locks they have left, so
  that `empty()` is wrong as in `moves_miscount`; `locked_table::empty()` too.
* `maximum_hashpower` compares the limit with a hashpower that may grow before
  the limit is stored (`:261`).
* A `locked_table` insert that cuckoos fails the assertions of `cuckoo_insert`
  that the locks are taken, in a build with assertions: `try_lock` with
  `locking_inactive` returns true (`:628`).
* A handle that two threads use after each has opened the segment by other
  handles stores strings that were allocated through one mapping in a map that is
  reached through another; their offset pointers are then wrong for everybody
  else (`Portable` fails for such users).
* `Drop` (`jakilid.hpp:28-31`) forgets the pointer of its own handle only. Other
  handles of the name, in this process or another, keep `hash_map_` pointing at a
  map that was destroyed, whose place another object may have taken, and every
  method but `Drop` goes on to use it: `open()` asks only whether the pointer is
  null (`:113`). The same happens when a `Drop` comes between `open()` and the use
  of the pointer in another call. In `SharedDict`, `MapIsOpen` is violated as
  soon as one of the rules `DropsApart` and `NotStale` is left out of
  `CarefulNext`.
* When a thread ends, its `segment_` (`:159`, `thread_local`) is unmapped. Handles
  that it has opened and that live on keep pointers into what is no longer
  mapped; another thread that calls `Drop` on such a handle without having
  opened the segment dereferences a null `segment_` (`:30`). `MapIsOpen` and
  `SegmentIsOpen` are violated without the part of `NotStale` about `left`.
* `cuckoopath_move` reads `fb.key(fs)` (`:1444`) before `occupied` is tested in the
  same condition. Another thread may have emptied the slot, so that the key read is
  one whose lifetime has ended. The result of the comparison does not matter,
  since `occupied` is false then; the model has the outcome and not the read.
* `libcuckoo_lazy_array::resize` to fewer elements sets the count to the
  smaller number (`:149`), although the doc (`:136`) says that under no
  circumstance the array is shrunk; the segments beyond are lost, and the next
  resize makes new locks in their place. `GrowthLosesNothing` therefore leaves out
  the steps that are `Shrinks`, and would be violated with them.
  With `LIBCUCKOO_LOCK_ARRAY_GRANULARITY` 0, as configured, there is one
  segment, and it does not happen.
* `libcuckoo_lazy_array::clear` leaves the count (`:89-94`).
* `expansion_lock_` is a `std::mutex` in memory shared by processes.
* A process that dies inside the map leaves its spinlocks set.
* `long double` keys are compared with their padding.

## 7. What is not modelled

* Exceptions in the middle of the move of `cuckoo_expand_simple`, and new maps
  that do not fit in the segment while it fills them: `Rebuilt` succeeds or
  nothing happens (`NoRoom`). The loss is described in section 6.
* `maximum_hashpower` and its check: `SharedDict` sets no limit. The setter of the
  minimum load factor: the factor is a constant.
* Comparing two `locked_table`s, which needs two tables, and moving the object,
  which renames its owner. A second `locked_table` is taken after the first is
  released, or waits.
* Memory order. A lock orders what is under it, and `hashpower_` is atomic;
  the model takes every step as visible to all at once.
* The bytes of values, the formatting of the client, build files, `mp.hpp`
  (compile-time only).
* pybind11's choice among overloads; Python's `find` is modelled from the
  header on.
* Copies of a `SharedDict`, which have the name and the pointer of the original
  and are handles like others from then on; and values that go through
  `ToByteArray` and `FromByteArray` (`jakilid.hpp:137-154`), templates that
  `serializer.hpp` declares (`:20-22`) and leaves to the user's types; no header
  goes with them.
* boost::interprocess is modelled by what `jakilid.hpp` relies on: names, an atomic
  `find_or_construct` and `destroy`, mappings at any address.

## 8. Plan

Done, in this order: `CuckooIndex`, `CuckooMap`, `AtomicMap`, `CuckooMapLive`,
the proofs of the locking protocol, `SharedDict` and `NamedDicts`,
`LazyArray`, `Serializer`, the proofs about `SharedDict`, `WholeTable` and
`OwnedMap`; the proofs about the items and the dictionary of `CuckooMap`,
about `LazyArray` and `Serializer`, and the refinement `SharedByName`; then the
proofs about the locks and the items of `WholeTable`.

To do: the refinement `OwnedTable`. For the operations on one key, those steps of
`CuckooDict_proofs` that show `Implements`; for the others the lemmas on the
items after them (`RebuiltData`, `StoredData` and so on) give the dictionary.
What is new is the order: that the ranks `Cardinality(Till(p))` number the
positions, and that erasing one moves those behind it down by one. It needs `Without`
of `OwnedMap` stated without `SelectSeq`, whose definition is recursive, and the
assumption that a counter can count every slot of the largest array.
