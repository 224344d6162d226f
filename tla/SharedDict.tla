----------------------------- MODULE SharedDict -----------------------------
(***************************************************************************)
(* jakilid.hpp: dictionaries that processes share, by name, in one segment *)
(* of managed shared memory.                                               *)
(*                                                                         *)
(* The segment knows its objects by offset.  Every thread maps the segment *)
(* at an address of its own (segment_ is thread_local), while a SharedDict *)
(* object (a handle) keeps a plain pointer to its map, which is an address *)
(* and an offset.  The map itself is AtomicMap: one operation, one step.   *)
(***************************************************************************)
EXTENDS Naturals, FiniteSets

CONSTANTS
  Threads, Processes, ProcessOf,  \* thread |-> its process
  Handles, Users,    \* handle |-> the threads that call its methods
  Names, NameOf,     \* handle |-> name
  Keys, Values,
  Addresses,         \* where the segment can be mapped
  Offsets,           \* where an object can be in the segment
  SegmentMayFill,    \* find_or_construct and the operations may throw
  Free,              \* the entry of a key that is not in a map
  Null,              \* nullptr
  None

ASSUME SharedAssumption ==
  /\ ProcessOf \in [Threads -> Processes]
  /\ Users \in [Handles -> SUBSET Threads]
  /\ \A h \in Handles : \A t, u \in Users[h] : ProcessOf[t] = ProcessOf[u]
  /\ NameOf \in [Handles -> Names]
  /\ SegmentMayFill \in BOOLEAN
  /\ None \notin Addresses \cup Offsets

VARIABLES
  segment_,   \* thread |-> the address where it has mapped the segment, or None
  hash_map_,  \* handle |-> the pointer it keeps, or None if there is no handle
  named,      \* name |-> the offset of its object, or None
  objects,    \* offset |-> the map that is there, or None
  pc,         \* thread |-> what it does next
  call,       \* thread |-> the request it is executing, or None
  found,      \* thread |-> what find_or_construct has returned, or None
  res,        \* thread |-> the result of the call, or None
  \* History variables, which the code does not have:
  lost,       \* the handles whose map was destroyed by the Drop of another
  left        \* the handles that a thread which used them has left at its end

past == <<lost, left>>
vars == <<segment_, hash_map_, named, objects, pc, call, found, res, past>>

Pointers == [map : Addresses, at : Offsets]
\* An entry's strings are found through offset pointers from the map to their
\* bytes, which are right in every mapping if both were reached through one.
Entries == [val : Values, relative : BOOLEAN]
Requests ==
  [h : Handles, op : {"construct", "find", "erase", "size", "drop"}, key : Keys, val : {None}]
  \cup [h : Handles, op : {"insert"}, key : Keys, val : Values]

Results ==
  {<<"done">>, <<"true">>, <<"false">>, <<"throw">>} \cup { <<"found", v>> : v \in Values }

\* The call of a handle's method, as one of the dictionary of that name.
ByName(r) == [name |-> NameOf[r.h], op |-> r.op, key |-> r.key, val |-> r.val]

EmptyMap == [k \in Keys |-> Free]

ASSUME NoneAssumption ==
  /\ Null # None /\ {Null, None} \cap Pointers = {}
  /\ None \notin Requests \cup Results /\ \A r \in Requests : None # ByName(r)
  /\ Free \notin Entries \cup Values
  /\ None \notin [Keys -> Entries \cup {Free}] \cup [Keys -> Values \cup {Free}]

Init ==
  /\ segment_ = [t \in Threads |-> None]
  /\ hash_map_ = [h \in Handles |-> None]
  /\ named = [n \in Names |-> None]
  /\ objects = [o \in Offsets |-> None]
  /\ pc = [t \in Threads |-> "idle"]
  /\ call = [t \in Threads |-> None]
  /\ found = [t \in Threads |-> None]
  /\ res = [t \in Threads |-> None]
  /\ lost = {} /\ left = {}

Goto(t, l) == pc' = [pc EXCEPT ![t] = l]
Finish(t, r) == Goto(t, "return") /\ res' = [res EXCEPT ![t] = r]

Calling(h) == { t \in Threads : call[t] # None /\ call[t].h = h }

\* "size" stands for Empty and Size, "find" for Find, FindRaw and Contains.
\* A handle is called while it exists.
Call(t, r) ==
  /\ pc[t] = "idle"
  /\ t \in Users[r.h]
  /\ IF r.op = "construct"
     THEN /\ hash_map_[r.h] = None
          /\ hash_map_' = [hash_map_ EXCEPT ![r.h] = Null]
          /\ lost' = lost \ {r.h} /\ left' = left \ {r.h}
     ELSE /\ hash_map_[r.h] # None
          /\ \A u \in Calling(r.h) : call[u].op # "construct"
          /\ UNCHANGED <<hash_map_, past>>
  /\ call' = [call EXCEPT ![t] = r]
  /\ Goto(t, IF r.op = "drop" THEN "drop" ELSE "open")
  /\ UNCHANGED <<segment_, named, objects, found, res>>

\* The caller has the result.
Return(t) ==
  /\ pc[t] = "return"
  /\ Goto(t, "idle")
  /\ call' = [call EXCEPT ![t] = None]
  /\ found' = [found EXCEPT ![t] = None]
  /\ res' = [res EXCEPT ![t] = None]
  /\ UNCHANGED <<segment_, hash_map_, named, objects, past>>

\* Addresses not in use by a mapping of the process.
FreeAddresses(t) ==
  Addresses \ { segment_[u] : u \in { v \in Threads : ProcessOf[v] = ProcessOf[t] } }

OpenManagerNever(t) ==  \* Faulty: takes the segment for mapped.
  UNCHANGED segment_

\* The constructor of managed_shared_memory maps the segment anywhere.
OpenManager(t) ==
  IF segment_[t] # None THEN UNCHANGED segment_
  ELSE \E a \in FreeAddresses(t) : segment_' = [segment_ EXCEPT ![t] = a]

ConstructAnyway(t, n) ==  \* Faulty: makes a new map for a name that has one.
  \E o \in Offsets :
    /\ objects[o] = None
    /\ named' = [named EXCEPT ![n] = o]
    /\ objects' = [objects EXCEPT ![o] = EmptyMap]
    /\ found' = [found EXCEPT ![t] = o]

\* find_or_construct, which the segment's own lock makes one step.
FindOrConstruct(t, n) ==
  \E o \in Offsets :
    /\ \/ named[n] = o /\ UNCHANGED <<named, objects>>
       \/ /\ named[n] = None
          /\ objects[o] = None
          /\ named' = [named EXCEPT ![n] = o]
          /\ objects' = [objects EXCEPT ![o] = EmptyMap]
    /\ found' = [found EXCEPT ![t] = o]

\* open() with a map that is open already, or not: the segment is mapped and
\* the map looked up; the pointer to it is assigned in the next step.
Open(t) ==
  /\ pc[t] = "open"
  /\ IF hash_map_[call[t].h] # Null
     THEN Goto(t, "use") /\ UNCHANGED <<segment_, named, objects, found>>
     ELSE OpenManager(t) /\ FindOrConstruct(t, NameOf[call[t].h]) /\ Goto(t, "assign")
  /\ UNCHANGED <<hash_map_, call, res, past>>

\* find_or_construct throws bad_alloc; a handle under construction is gone.
OpenThrows(t) ==
  /\ SegmentMayFill
  /\ pc[t] = "open"
  /\ hash_map_[call[t].h] = Null
  /\ named[NameOf[call[t].h]] = None
  /\ OpenManager(t)
  /\ Finish(t, <<"throw">>)
  /\ hash_map_' = IF call[t].op = "construct"
                   THEN [hash_map_ EXCEPT ![call[t].h] = None] ELSE hash_map_
  /\ UNCHANGED <<named, objects, call, found, past>>

Assign(t) ==
  /\ pc[t] = "assign"
  /\ hash_map_' = [hash_map_ EXCEPT ![call[t].h] = [map |-> segment_[t], at |-> found[t]]]
  /\ Goto(t, "use")
  /\ UNCHANGED <<segment_, named, objects, call, found, res, past>>

Mapped(p) == { segment_[t] : t \in { u \in Threads : ProcessOf[u] = p } } \ {None}

\* The pointer of a call, where a dereference of it finds the object it means.
Pointer(t) == hash_map_[call[t].h]
PointsToItsMap(t) ==
  /\ Pointer(t) \notin {Null, None}
  /\ Pointer(t).map \in Mapped(ProcessOf[t])
  /\ named[NameOf[call[t].h]] = Pointer(t).at

manager_cached(t) ==  \* Faulty: remembers one mapping for good.
  CHOOSE a \in Addresses : TRUE

\* Keys and values are serialized into memory that manager() gives out.
NeedsManager(op) == op \in {"find", "insert", "erase"}
manager(t) == segment_[t]

\* One operation on the map.  A dereference of a pointer to nothing has no
\* next step here; SegmentIsOpen and MapIsOpen say that there is none.
Use(t) ==
  LET r == call[t]
      at == Pointer(t).at
      entry == objects[at][r.key]
      Becomes(e) == objects' = [objects EXCEPT ![at][r.key] = e]
  IN  /\ pc[t] = "use"
      /\ NeedsManager(r.op) => manager(t) # None
      /\ r.op # "construct" => PointsToItsMap(t)
      /\ \/ /\ r.op \in {"construct", "size"}
            /\ Finish(t, <<"done">>)
            /\ UNCHANGED objects
         \/ /\ r.op = "find" /\ entry = Free
            /\ Finish(t, <<"false">>)
            /\ UNCHANGED objects
         \/ /\ r.op = "find" /\ entry # Free
            /\ \E v \in IF entry.relative THEN {entry.val} ELSE Values :
                 Finish(t, <<"found", v>>)
            /\ UNCHANGED objects
         \/ /\ r.op = "insert"
            /\ Finish(t, <<IF entry = Free THEN "true" ELSE "false">>)
            /\ Becomes([val |-> r.val, relative |-> Pointer(t).map = manager(t)])
         \/ /\ r.op = "erase"
            /\ Finish(t, <<IF entry = Free THEN "false" ELSE "true">>)
            /\ Becomes(Free)
         \/ /\ SegmentMayFill /\ NeedsManager(r.op)
            /\ Finish(t, <<"throw">>)
            /\ UNCHANGED objects
      /\ UNCHANGED <<segment_, hash_map_, named, call, found, past>>

DropKeeps(t) ==  \* Faulty: keeps the pointer to the map.
  /\ pc[t] = "drop"
  /\ Goto(t, "destroy")
  /\ lost' = lost \ {call[t].h}
  /\ UNCHANGED <<segment_, hash_map_, named, objects, call, found, res, left>>

\* Drop forgets the map, and then destroys the object of that name, if any.
Drop(t) ==
  /\ pc[t] = "drop"
  /\ hash_map_' = [hash_map_ EXCEPT ![call[t].h] = Null]
  /\ lost' = lost \ {call[t].h}
  /\ Goto(t, "destroy")
  /\ UNCHANGED <<segment_, named, objects, call, found, res, left>>

Namesakes(h) == { g \in Handles \ {h} : NameOf[g] = NameOf[h] }

\* Other handles of the name keep their pointers to what is no longer there.
Destroy(t) ==
  LET n == NameOf[call[t].h]
  IN  /\ pc[t] = "destroy"
      /\ segment_[t] # None
      /\ named' = [named EXCEPT ![n] = None]
      /\ objects' = [o \in Offsets |-> IF named[n] = o THEN None ELSE objects[o]]
      /\ lost' = lost \cup { g \in Namesakes(call[t].h) : hash_map_[g] \notin {Null, None} }
      /\ Finish(t, <<IF named[n] = None THEN "false" ELSE "true">>)
      /\ UNCHANGED <<segment_, hash_map_, call, found, left>>

\* The implicit destructor of a handle leaves the segment alone.
Destruct(t, h) ==
  /\ pc[t] = "idle"
  /\ t \in Users[h]
  /\ hash_map_[h] # None
  /\ Calling(h) = {}
  /\ hash_map_' = [hash_map_ EXCEPT ![h] = None]
  /\ UNCHANGED <<segment_, named, objects, pc, call, found, res, past>>

\* A thread ends, its thread_local segment_ is unmapped, and another starts.
ThreadExit(t) ==
  /\ pc[t] = "idle"
  /\ segment_[t] # None
  /\ segment_' = [segment_ EXCEPT ![t] = None]
  /\ left' = left \cup { h \in Handles : t \in Users[h] /\ hash_map_[h] # None }
  /\ UNCHANGED <<hash_map_, named, objects, pc, call, found, res, lost>>

\* A process exits or is killed, wherever its threads are, and starts again.
\* (What it leaves locked inside a map is not modelled.)
Crash(p) ==
  LET Dead == { t \in Threads : ProcessOf[t] = p }
      Forget(f) == [t \in Threads |-> IF t \in Dead THEN None ELSE f[t]]
  IN  /\ segment_' = Forget(segment_)
      /\ call' = Forget(call)
      /\ found' = Forget(found)
      /\ res' = Forget(res)
      /\ pc' = [t \in Threads |-> IF t \in Dead THEN "idle" ELSE pc[t]]
      /\ hash_map_' = [h \in Handles |-> IF Users[h] \cap Dead # {} THEN None ELSE hash_map_[h]]
      /\ UNCHANGED <<named, objects, past>>

Step(t) ==
  \/ Open(t)
  \/ OpenThrows(t)
  \/ Assign(t)
  \/ Use(t)
  \/ Drop(t)
  \/ Destroy(t)
  \/ Return(t)

\* Any use of the class that C++ allows.
Next ==
  \/ \E t \in Threads :
       \/ \E r \in Requests : Call(t, r)
       \/ Step(t)
       \/ \E h \in Handles : Destruct(t, h)
       \/ ThreadExit(t)
  \/ \E p \in Processes : Crash(p)

Spec == Init /\ [][Next]_vars

-----------------------------------------------------------------------------
(* The use that the class is made for, which nothing in it enforces.       *)

\* No Drop while another handle's call on the dictionary goes on.
DropsApart(r) ==
  \A g \in Namesakes(r.h) : \A u \in Calling(g) : r.op # "drop" /\ call[u].op # "drop"

\* Of a handle whose map another has dropped the next call is a Drop, if any, and
\* one that a thread has left behind is only destructed.
NotStale(r) ==
  r.op # "construct" => r.h \notin left /\ (r.h \in lost => r.op = "drop")

CarefulNext ==
  \/ \E t \in Threads :
       \/ \E r \in Requests : DropsApart(r) /\ NotStale(r) /\ Call(t, r)
       \/ Step(t)
       \/ \E h \in Handles : Destruct(t, h)
       \/ ThreadExit(t)
  \/ \E p \in Processes : Crash(p)

CarefulSpec == Init /\ [][CarefulNext]_vars

-----------------------------------------------------------------------------
(* Properties.                                                             *)

TypeOK ==
  /\ segment_ \in [Threads -> Addresses \cup {None}]
  /\ hash_map_ \in [Handles -> Pointers \cup {Null, None}]
  /\ named \in [Names -> Offsets \cup {None}]
  /\ objects \in [Offsets -> [Keys -> Entries \cup {Free}] \cup {None}]
  /\ pc \in [Threads -> {"idle", "open", "assign", "use", "drop", "destroy", "return"}]
  /\ call \in [Threads -> Requests \cup {None}]
  /\ found \in [Threads -> Offsets \cup {None}]
  /\ lost \subseteq Handles /\ left \subseteq Handles

\* A thread that serializes into the segment, or destroys in it, has mapped it:
\* manager() and segment_->destroy dereference no null pointer.
SegmentIsOpen ==
  \A t \in Threads :
    \/ pc[t] = "destroy"
    \/ pc[t] = "use" /\ NeedsManager(call[t].op)
    => segment_[t] # None

\* All the time a thread may be inside hash_map_'s methods, the pointer of its
\* handle leads, through a mapping that is still there, to the map that has
\* the handle's name now, though handles drop it, lose it to the Drop of others
\* and open it again, in any order, at offsets and addresses that are reused.
MapIsOpen ==
  \A t \in Threads :
    pc[t] = "use" /\ call[t].op # "construct" => PointsToItsMap(t)

\* Every name means one map and every map has a name.
NamesAreObjects ==
  /\ \A n \in Names : named[n] # None => objects[named[n]] # None
  /\ \A m, n \in Names : m # n /\ named[m] # None => named[m] # named[n]
  /\ \A o \in Offsets : objects[o] # None => \E n \in Names : named[n] = o

\* Every stored string can be read by any process: none was allocated through
\* another mapping than that of the map it is stored in.
Portable ==
  \A o \in Offsets : objects[o] # None =>
    \A k \in Keys : objects[o][k] # Free => objects[o][k].relative

\* What a call of t has got hold of.
CallOK(t) ==
  LET h == call[t].h
  IN  /\ pc[t] = "idle" <=> call[t] = None
      /\ call[t] # None => t \in Users[h]
      /\ pc[t] \in {"open", "assign", "use"} => call[t].op # "drop" /\ hash_map_[h] # None
      /\ pc[t] \in {"drop", "destroy"} => call[t].op = "drop" /\ hash_map_[h] # None
      /\ pc[t] = "assign" =>
           /\ hash_map_[h] = Null /\ segment_[t] # None
           /\ found[t] # None /\ named[NameOf[h]] = found[t]
      /\ pc[t] = "use" => hash_map_[h] # Null
      /\ pc[t] = "destroy" => hash_map_[h] = Null
      /\ call[t] # None => h \notin left /\ (h \in lost => call[t].op = "drop")
      /\ call[t] # None /\ call[t].op = "drop" => \A g \in Namesakes(h) : Calling(g) = {}

Constructing(t, h) == pc[t] = "open" /\ call[t].h = h /\ call[t].op = "construct"

\* A handle, and the one thread t that uses it.
HandleOK(h, t) ==
  /\ hash_map_[h] # None /\ h \notin left => segment_[t] # None \/ Constructing(t, h)
  /\ hash_map_[h] \notin {Null, None} /\ h \notin lost \cup left =>
       hash_map_[h].map = segment_[t] /\ named[NameOf[h]] = hash_map_[h].at

\* Inductive for CarefulNext, if every handle has one user: what the other
\* properties rest on.
DictInv ==
  /\ TypeOK
  /\ NamesAreObjects
  /\ Portable
  /\ \A t \in Threads : CallOK(t)
  /\ \A h \in Handles : \A t \in Users[h] : HandleOK(h, t)

\* The handles of all threads and processes implement one dictionary per name:
\* also while several race to create it, after any of them has dropped it and
\* another makes it anew, and wherever processes crash.
Contents(o) == [k \in Keys |-> IF objects[o][k] = Free THEN Free ELSE objects[o][k].val]

Dicts == INSTANCE NamedDicts WITH
  Absent <- Free,
  dicts <- [n \in Names |-> IF named[n] = None THEN None ELSE Contents(named[n])],
  call <- [t \in Threads |-> IF call[t] = None THEN None ELSE ByName(call[t])],
  ret <- res

SharedByName == Dicts!Spec
=============================================================================
