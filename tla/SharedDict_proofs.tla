-------------------------- MODULE SharedDict_proofs --------------------------
(***************************************************************************)
(* Proofs about SharedDict in the use that it is made for (CarefulNext), and *)
(* where one thread uses each handle (OneUser): no call uses a map or a     *)
(* mapping that is gone, and the handles of a name are one dictionary, for  *)
(* any number of processes, threads, handles and names.                     *)
(***************************************************************************)
EXTENDS SharedDict, TLAPS

\* A handle is used in one thread only.
OneUser == \A h \in Handles : \A t, u \in Users[h] : t = u

LEMMA InitHolds == ASSUME Init PROVE DictInv
<1> USE SharedAssumption, NoneAssumption DEF Init
<1>1. TypeOK
  BY DEF TypeOK
<1>2. NamesAreObjects /\ Portable
  BY DEF NamesAreObjects, Portable
<1>3. \A t \in Threads : CallOK(t)
  BY DEF CallOK
<1>4. \A h \in Handles : \A t \in Users[h] : HandleOK(h, t)
  BY DEF HandleOK
<1> QED
  BY <1>1, <1>2, <1>3, <1>4 DEF DictInv

\* The handle of a call, and what its fields are.
LEMMA CallTypes ==
  ASSUME DictInv, NEW t \in Threads, pc[t] # "idle"
  PROVE  /\ call[t] \in Requests /\ call[t] # None
         /\ call[t].h \in Handles /\ t \in Users[call[t].h]
         /\ NameOf[call[t].h] \in Names
         /\ call[t].op # "insert" => call[t].val = None
         /\ call[t].op = "insert" => call[t].val \in Values
         /\ call[t].key \in Keys
BY SharedAssumption, NoneAssumption DEF DictInv, CallOK, TypeOK, Requests

\* Calls of different threads are calls of different handles.
LEMMA OwnHandle ==
  ASSUME OneUser, DictInv, NEW t \in Threads, NEW u \in Threads, t # u, pc[u] # "idle",
         NEW h \in Handles, t \in Users[h]
  PROVE  call[u].h # h
BY CallTypes DEF OneUser

\* Calls end: nobody calls a handle that was not called before.
LEMMA CallingShrinks ==
  ASSUME \A u \in Threads : call'[u] \in {call[u], None}
  PROVE  \A g \in Handles : Calling(g)' \subseteq Calling(g)
BY DEF Calling

LEMMA CallKeeps ==
  ASSUME OneUser, DictInv,
         NEW t \in Threads, NEW r \in Requests, DropsApart(r), NotStale(r), Call(t, r)
  PROVE  DictInv'
<1>1. /\ pc[t] = "idle" /\ call[t] = None
      /\ r # None /\ r.h \in Handles /\ t \in Users[r.h]
      /\ call'[t] = r /\ pc'[t] = IF r.op = "drop" THEN "drop" ELSE "open"
      /\ hash_map_'[r.h] # None
      /\ r.op = "construct" => hash_map_'[r.h] = Null
      /\ r.op # "construct" => hash_map_'[r.h] = hash_map_[r.h]
      /\ UNCHANGED <<segment_, named, objects, found, res>>
  BY NoneAssumption DEF Call, DictInv, CallOK, Goto, TypeOK, Requests
<1>2. TypeOK'
  BY DEF Call, DictInv, TypeOK, Goto, past
<1>3. NamesAreObjects' /\ Portable'
  BY <1>1 DEF DictInv, NamesAreObjects, Portable
<1>4. \A g \in Handles : g # r.h => /\ hash_map_'[g] = hash_map_[g]
                                    /\ g \in lost' <=> g \in lost
                                    /\ g \in left' <=> g \in left
  BY DEF Call, DictInv, TypeOK, past
<1>5. \A u \in Threads : u # t => pc'[u] = pc[u] /\ call'[u] = call[u]
  BY DEF Call, DictInv, TypeOK, Goto
<1>6. /\ r.op = "construct" => r.h \notin lost' \cup left'
      /\ r.op # "construct" => UNCHANGED <<lost, left>>
      /\ r.h \notin left' /\ (r.h \in lost' => r.op = "drop")
  BY DEF Call, NotStale, past
<1>7. ASSUME NEW u \in Threads PROVE CallOK(u)'
  <2>1. CASE u = t
    <3>1. r.op = "drop" => \A g \in Namesakes(r.h) : Calling(g)' = {}
      <4>1. SUFFICES ASSUME r.op = "drop", NEW g \in Namesakes(r.h), NEW v \in Calling(g)'
                     PROVE  FALSE
        OBVIOUS
      <4>2. v \in Threads /\ call'[v] # None /\ call'[v].h = g /\ g # r.h
        BY <4>1 DEF Calling, Namesakes
      <4>3. v \in Calling(g)
        BY <1>1, <1>5, <4>2 DEF Calling
      <4> QED
        BY <4>1, <4>3 DEF DropsApart
    <3> QED
      BY <1>1, <1>6, <2>1, <3>1 DEF CallOK
  <2>2. CASE u # t /\ pc[u] = "idle"
    BY <1>1, <1>5, <2>2 DEF CallOK, DictInv
  <2>3. CASE u # t /\ pc[u] # "idle"
    <3>1. call[u].h # r.h /\ call[u].h \in Handles /\ call[u] # None
      BY <1>1, <2>3, OwnHandle, CallTypes
    <3>2. call[u].op = "drop" => r.h \notin Namesakes(call[u].h)
      <4>1. SUFFICES ASSUME r.h \in Namesakes(call[u].h) PROVE call[u].op # "drop"
        OBVIOUS
      <4>2. call[u].h \in Namesakes(r.h) /\ u \in Calling(call[u].h)
        BY <3>1, <4>1 DEF Namesakes, Calling
      <4> QED
        BY <4>2 DEF DropsApart
    <3>3. /\ CallOK(u) /\ hash_map_'[call[u].h] = hash_map_[call[u].h]
          /\ call[u].h \in lost' <=> call[u].h \in lost
          /\ call[u].h \in left' <=> call[u].h \in left
      BY <1>4, <3>1 DEF DictInv
    <3>4. call[u].op = "drop" => \A g \in Namesakes(call[u].h) : Calling(g)' = {}
      <4>1. SUFFICES ASSUME call[u].op = "drop", NEW g \in Namesakes(call[u].h),
                            NEW v \in Calling(g)'
                     PROVE  FALSE
        OBVIOUS
      <4>2. v \in Threads /\ call'[v] # None /\ call'[v].h = g /\ g # r.h
        BY <3>2, <4>1 DEF Calling
      <4>3. v \in Calling(g)
        BY <1>1, <1>5, <4>2 DEF Calling
      <4> QED
        BY <3>1, <3>3, <4>1, <4>3 DEF CallOK
    <3> QED
      BY <1>1, <1>5, <2>3, <3>3, <3>4 DEF CallOK
  <2> QED
    BY <2>1, <2>2, <2>3
<1>8. ASSUME NEW h \in Handles, NEW u \in Users[h] PROVE HandleOK(h, u)'
  <2>0. u \in Threads /\ HandleOK(h, u)
    BY SharedAssumption DEF DictInv
  <2>1. CASE h = r.h
    <3>1. u = t
      BY <1>1, <2>1 DEF OneUser
    <3> QED
      BY <1>1, <1>6, <2>0, <2>1, <3>1 DEF HandleOK, Constructing
  <2>2. CASE h # r.h
    BY <1>1, <1>4, <1>5, <2>0, <2>2 DEF HandleOK, Constructing
  <2> QED
    BY <2>1, <2>2
<1> QED
  BY <1>2, <1>3, <1>7, <1>8 DEF DictInv

\* A step of t within a call leaves the threads and the handles of other calls
\* alone, and the maps they have opened, but for those it drops.
OnlyOwn(t) ==
  /\ \A u \in Threads \ {t} :
       pc'[u] = pc[u] /\ call'[u] = call[u] /\ found'[u] = found[u] /\ segment_'[u] = segment_[u]
  /\ segment_[t] # None => segment_'[t] = segment_[t]
  /\ call'[t] \in {call[t], None}
  /\ left' = left
  /\ \A g \in Handles \ {call[t].h} :
       /\ hash_map_'[g] = hash_map_[g]
       /\ g \in lost => g \in lost'
       /\ Calling(g) # {} => g \notin lost' \ lost
       /\ named[NameOf[g]] # None
          /\ (Calling(g) # {} \/ (hash_map_[g] \notin {Null, None} /\ g \notin lost'))
            => named'[NameOf[g]] = named[NameOf[g]]

\* Most steps drop nothing.
LEMMA OnlyOwnQuiet ==
  ASSUME NEW t \in Threads, NEW h, h = call[t].h,
         \A u \in Threads \ {t} :
           pc'[u] = pc[u] /\ call'[u] = call[u] /\ found'[u] = found[u] /\ segment_'[u] = segment_[u],
         segment_[t] # None => segment_'[t] = segment_[t],
         call'[t] \in {call[t], None}, left' = left,
         \A g \in Handles \ {h} : hash_map_'[g] = hash_map_[g] /\ (g \in lost' <=> g \in lost),
         \A n \in Names : named[n] # None => named'[n] = named[n]
  PROVE  OnlyOwn(t)
BY SharedAssumption DEF OnlyOwn

LEMMA StepKeeps ==
  ASSUME OneUser, DictInv, NEW t \in Threads, NEW h \in Handles,
         pc[t] # "idle", call[t].h = h, OnlyOwn(t),
         TypeOK', NamesAreObjects', Portable', CallOK(t)', HandleOK(h, t)'
  PROVE  DictInv'
<1>1. ASSUME NEW u \in Threads, u # t PROVE CallOK(u)'
  <2>1. CASE pc[u] = "idle"
    BY <1>1, <2>1 DEF OnlyOwn, CallOK, DictInv
  <2>2. CASE pc[u] # "idle"
    <3>1. call[u].h \in Handles /\ call[u].h # call[t].h /\ call[u] # None
      BY <1>1, <2>2, CallTypes, OwnHandle
    <3>2. CallOK(u) /\ Calling(call[u].h) # {}
      BY <3>1 DEF DictInv, Calling
    <3>3. /\ hash_map_'[call[u].h] = hash_map_[call[u].h] /\ left' = left
          /\ call[u].h \in lost' => call[u].h \in lost
          /\ pc[u] = "assign" => named'[NameOf[call[u].h]] = found[u]
      BY <3>1, <3>2 DEF OnlyOwn, CallOK
    <3>4. call[u].op = "drop" => \A g \in Namesakes(call[u].h) : Calling(g)' = {}
      <4>1. \A g \in Handles : Calling(g)' \subseteq Calling(g)
        <5>1. \A v \in Threads : call'[v] \in {call[v], None}
          BY DEF OnlyOwn
        <5> QED
          BY <5>1, CallingShrinks
      <4> QED
        BY <3>1, <3>2, <4>1 DEF CallOK, Namesakes
    <3>5. pc'[u] = pc[u] /\ call'[u] = call[u] /\ found'[u] = found[u] /\ segment_'[u] = segment_[u]
      BY <1>1 DEF OnlyOwn
    <3> QED
      BY <3>1, <3>2, <3>3, <3>4, <3>5 DEF CallOK
  <2> QED
    BY <2>1, <2>2
<1>2. ASSUME NEW g \in Handles, NEW u \in Users[g] PROVE HandleOK(g, u)'
  <2>1. u \in Threads /\ HandleOK(g, u)
    BY SharedAssumption DEF DictInv
  <2>2. CASE g = h
    BY <2>2, CallTypes DEF OneUser
  <2>3. CASE g # h
    <3>1. hash_map_'[g] = hash_map_[g] /\ left' = left /\ (g \in lost => g \in lost')
      BY <2>3 DEF OnlyOwn
    <3>2. hash_map_[g] # None /\ g \notin left => segment_'[u] # None \/ Constructing(u, g)'
      BY <2>1, <2>3 DEF OnlyOwn, HandleOK, Constructing
    <3>3. hash_map_[g] \notin {Null, None} /\ g \notin lost' \cup left =>
            hash_map_[g].map = segment_'[u] /\ named'[NameOf[g]] = hash_map_[g].at
      <4>1. SUFFICES ASSUME hash_map_[g] \notin {Null, None}, g \notin lost' \cup left
                     PROVE  hash_map_[g].map = segment_'[u] /\ named'[NameOf[g]] = hash_map_[g].at
        OBVIOUS
      <4>2. hash_map_[g].map \in Addresses /\ hash_map_[g].at \in Offsets
        BY <4>1 DEF DictInv, TypeOK, Pointers
      <4>3. /\ hash_map_[g].map = segment_[u] /\ segment_[u] # None
            /\ named[NameOf[g]] = hash_map_[g].at /\ named[NameOf[g]] # None
        BY <2>1, <3>1, <4>1, <4>2, SharedAssumption DEF HandleOK
      <4> QED
        BY <2>1, <2>3, <4>1, <4>3 DEF OnlyOwn
    <3> QED
      BY <3>1, <3>2, <3>3 DEF HandleOK
  <2> QED
    BY <2>2, <2>3
<1> QED
  BY <1>1, <1>2 DEF DictInv

LEMMA OpenKeeps ==
  ASSUME OneUser, DictInv, NEW t \in Threads, Open(t)
  PROVE  DictInv'
<1>0. PICK h \in Handles : h = call[t].h
  BY CallTypes DEF Open
<1> DEFINE n == NameOf[h]
<1>1. /\ pc[t] = "open" /\ h = call[t].h /\ t \in Users[h] /\ n \in Names
      /\ call[t] \in Requests /\ call[t] # None /\ call[t].op # "drop" /\ hash_map_[h] # None
      /\ HandleOK(h, t) /\ h \notin left /\ h \notin lost
  BY <1>0, CallTypes DEF Open, DictInv, CallOK
<1>2. UNCHANGED <<hash_map_, call, res, lost, left>>
  BY DEF Open, past
<1>3. CASE hash_map_[h] # Null
  <2>1. /\ pc' = [pc EXCEPT ![t] = "use"]
        /\ UNCHANGED <<segment_, named, objects, found>>
    BY <1>1, <1>3 DEF Open, Goto
  <2>2. TypeOK' /\ NamesAreObjects' /\ Portable' /\ pc'[t] = "use"
    BY <1>2, <2>1 DEF DictInv, TypeOK, NamesAreObjects, Portable
  <2>3. OnlyOwn(t)
    BY <1>1, <1>2, <2>1, OnlyOwnQuiet DEF DictInv, TypeOK
  <2>4. CallOK(t)'
    BY <1>1, <1>2, <1>3, <2>2 DEF CallOK
  <2>5. segment_[t] # None
    <3>1. hash_map_[h].map \in Addresses
      BY <1>1, <1>3 DEF DictInv, TypeOK, Pointers
    <3>2. h \notin left /\ h \notin lost
      BY <1>1
    <3> QED
      BY <1>1, <1>3, <3>1, <3>2, SharedAssumption DEF HandleOK
  <2>6. HandleOK(h, t)'
    BY <1>1, <1>2, <2>1, <2>5 DEF HandleOK
  <2> QED
    BY <1>1, <2>2, <2>3, <2>4, <2>6, StepKeeps
<1>4. CASE hash_map_[h] = Null
  <2>1. OpenManager(t) /\ FindOrConstruct(t, n) /\ pc' = [pc EXCEPT ![t] = "assign"]
    BY <1>1, <1>4 DEF Open, Goto
  <2>2. /\ segment_'[t] \in Addresses /\ segment_'[t] # None
        /\ segment_' \in [Threads -> Addresses \cup {None}]
        /\ \A u \in Threads \ {t} : segment_'[u] = segment_[u]
        /\ segment_[t] # None => segment_'[t] = segment_[t]
    BY <2>1, SharedAssumption DEF OpenManager, FreeAddresses, DictInv, TypeOK
  <2>3. PICK o \in Offsets :
          /\ \/ named[n] = o /\ UNCHANGED <<named, objects>>
             \/ /\ named[n] = None
                /\ objects[o] = None
                /\ named' = [named EXCEPT ![n] = o]
                /\ objects' = [objects EXCEPT ![o] = EmptyMap]
          /\ found' = [found EXCEPT ![t] = o]
    BY <2>1 DEF FindOrConstruct
  <2>4. /\ named'[n] = o /\ found'[t] = o /\ o # None
        /\ \A m \in Names : named[m] # None => named'[m] = named[m]
        /\ \A u \in Threads \ {t} : found'[u] = found[u]
    BY <1>1, <2>3, SharedAssumption DEF DictInv, TypeOK
  <2>5. TypeOK'
    <3>1. objects' \in [Offsets -> [Keys -> Entries \cup {Free}] \cup {None}]
      BY <2>3 DEF DictInv, TypeOK, EmptyMap
    <3> QED
      BY <1>2, <2>1, <2>2, <2>3, <3>1 DEF DictInv, TypeOK
  <2>6. NamesAreObjects'
    <3>1. CASE UNCHANGED <<named, objects>>
      BY <3>1 DEF NamesAreObjects, DictInv
    <3>2. CASE /\ named[n] = None /\ objects[o] = None
               /\ named' = [named EXCEPT ![n] = o]
               /\ objects' = [objects EXCEPT ![o] = EmptyMap]
      <4>1. EmptyMap # None
        BY NoneAssumption DEF EmptyMap
      <4>2. named \in [Names -> Offsets \cup {None}] /\ DOMAIN objects = Offsets
        BY DEF DictInv, TypeOK
      <4>3. \A m \in Names : named[m] # o
        BY <2>4, <3>2 DEF DictInv, NamesAreObjects
      <4>4. /\ named'[n] = o /\ \A m \in Names \ {n} : named'[m] = named[m]
            /\ objects'[o] # None /\ \A p \in Offsets \ {o} : objects'[p] = objects[p]
        BY <1>1, <3>2, <4>1, <4>2
      <4>5. \A m \in Names : named'[m] # None => objects'[named'[m]] # None
        BY <4>2, <4>3, <4>4 DEF DictInv, NamesAreObjects
      <4>6. \A l, m \in Names : l # m /\ named'[l] # None => named'[l] # named'[m]
        BY <4>3, <4>4 DEF DictInv, NamesAreObjects
      <4>7. \A p \in Offsets : objects'[p] # None => \E m \in Names : named'[m] = p
        <5>1. SUFFICES ASSUME NEW p \in Offsets, objects'[p] # None
                       PROVE  \E m \in Names : named'[m] = p
          OBVIOUS
        <5>2. CASE p = o
          BY <1>1, <4>4, <5>2
        <5>3. CASE p # o
          <6>1. PICK m \in Names : named[m] = p
            BY <4>4, <5>1, <5>3 DEF DictInv, NamesAreObjects
          <6>2. m # n
            BY <3>2, <6>1, SharedAssumption
          <6> QED
            BY <4>4, <6>1, <6>2
        <5> QED
          BY <5>2, <5>3
      <4> QED
        BY <4>5, <4>6, <4>7 DEF NamesAreObjects
    <3> QED
      BY <2>3, <3>1, <3>2
  <2>7. Portable'
    BY <2>3, NoneAssumption DEF DictInv, TypeOK, Portable, EmptyMap
  <2>8. OnlyOwn(t)
    <3>1. \A u \in Threads \ {t} : pc'[u] = pc[u]
      BY <2>1 DEF DictInv, TypeOK
    <3> QED
      BY <1>1, <1>2, <2>2, <2>4, <3>1, OnlyOwnQuiet
  <2>9. pc'[t] = "assign"
    BY <2>1 DEF DictInv, TypeOK
  <2>10. CallOK(t)'
    BY <1>1, <1>2, <1>4, <2>2, <2>4, <2>9, SharedAssumption DEF CallOK
  <2>11. HandleOK(h, t)'
    BY <1>2, <1>4, <2>2 DEF HandleOK
  <2> QED
    BY <1>1, <2>5, <2>6, <2>7, <2>8, <2>10, <2>11, StepKeeps
<1> QED
  BY <1>3, <1>4

LEMMA OpenThrowsKeeps ==
  ASSUME OneUser, DictInv, NEW t \in Threads, OpenThrows(t)
  PROVE  DictInv'
<1>0. PICK h \in Handles : h = call[t].h
  BY CallTypes DEF OpenThrows
<1>1. /\ pc[t] = "open" /\ h = call[t].h /\ t \in Users[h] /\ HandleOK(h, t)
      /\ call[t] # None /\ call[t].op # "drop" /\ hash_map_[h] = Null
      /\ hash_map_ \in [Handles -> Pointers \cup {Null, None}]
      /\ h \notin left /\ h \notin lost
  BY <1>0, CallTypes DEF OpenThrows, DictInv, CallOK, TypeOK
<1>2. /\ UNCHANGED <<named, objects, call, found, lost, left>>
      /\ pc' = [pc EXCEPT ![t] = "return"]
  BY DEF OpenThrows, Finish, Goto, past
<1>3. /\ segment_'[t] \in Addresses /\ segment_'[t] # None
      /\ segment_' \in [Threads -> Addresses \cup {None}]
      /\ \A u \in Threads \ {t} : segment_'[u] = segment_[u]
      /\ segment_[t] # None => segment_'[t] = segment_[t]
  BY SharedAssumption DEF OpenThrows, OpenManager, FreeAddresses, DictInv, TypeOK
<1>4. /\ hash_map_' \in [Handles -> Pointers \cup {Null, None}]
      /\ hash_map_'[h] \in {Null, None}
      /\ \A g \in Handles \ {h} : hash_map_'[g] = hash_map_[g]
  BY <1>1 DEF OpenThrows
<1>5. TypeOK'
  BY <1>2, <1>3, <1>4 DEF DictInv, TypeOK
<1>6. NamesAreObjects' /\ Portable' /\ pc'[t] = "return"
  BY <1>2 DEF DictInv, TypeOK, NamesAreObjects, Portable
<1>7. OnlyOwn(t)
  <2>1. \A u \in Threads \ {t} : pc'[u] = pc[u]
    BY <1>2 DEF DictInv, TypeOK
  <2> QED
    BY <1>1, <1>2, <1>3, <1>4, <2>1, OnlyOwnQuiet
<1>8. CallOK(t)'
  BY <1>1, <1>2, <1>6 DEF CallOK
<1>9. HandleOK(h, t)'
  BY <1>3, <1>4 DEF HandleOK
<1> QED
  BY <1>1, <1>5, <1>6, <1>7, <1>8, <1>9, StepKeeps

LEMMA AssignKeeps ==
  ASSUME OneUser, DictInv, NEW t \in Threads, Assign(t)
  PROVE  DictInv'
<1>0. PICK h \in Handles : h = call[t].h
  BY CallTypes DEF Assign
<1> DEFINE p == [map |-> segment_[t], at |-> found[t]]
<1>1. /\ pc[t] = "assign" /\ h = call[t].h /\ t \in Users[h]
      /\ call[t] # None /\ call[t].op # "drop" /\ hash_map_[h] = Null
      /\ segment_[t] # None /\ found[t] # None /\ named[NameOf[h]] = found[t]
      /\ h \notin left /\ h \notin lost
  BY <1>0, CallTypes DEF Assign, DictInv, CallOK
<1>2. /\ UNCHANGED <<segment_, named, objects, call, found, res, lost, left>>
      /\ pc' = [pc EXCEPT ![t] = "use"] /\ hash_map_' = [hash_map_ EXCEPT ![h] = p]
  BY <1>1 DEF Assign, Goto, past
<1>3. p \in Pointers /\ p # Null /\ p # None
  BY <1>1, NoneAssumption DEF Pointers, DictInv, TypeOK
<1>4. TypeOK'
  BY <1>2, <1>3 DEF DictInv, TypeOK
<1>5. /\ NamesAreObjects' /\ Portable' /\ pc'[t] = "use" /\ hash_map_'[h] = p
      /\ \A g \in Handles \ {h} : hash_map_'[g] = hash_map_[g]
  BY <1>2 DEF DictInv, TypeOK, NamesAreObjects, Portable
<1>6. OnlyOwn(t)
  <2>1. \A u \in Threads \ {t} : pc'[u] = pc[u]
    BY <1>2 DEF DictInv, TypeOK
  <2> QED
    BY <1>1, <1>2, <1>5, <2>1, OnlyOwnQuiet
<1>7. CallOK(t)'
  BY <1>1, <1>2, <1>3, <1>5 DEF CallOK
<1>8. HandleOK(h, t)'
  BY <1>1, <1>2, <1>3, <1>5 DEF HandleOK
<1> QED
  BY <1>1, <1>4, <1>5, <1>6, <1>7, <1>8, StepKeeps

\* A call that is about to use its map has a pointer that leads to it.
LEMMA UseLeadsToMap ==
  ASSUME DictInv, NEW t \in Threads, pc[t] = "use"
  PROVE  /\ segment_[t] \in Addresses /\ PointsToItsMap(t)
         /\ Pointer(t) \in Pointers /\ Pointer(t).map = segment_[t]
         /\ objects[Pointer(t).at] \in [Keys -> Entries \cup {Free}]
<1>1. /\ call[t].h \in Handles /\ t \in Users[call[t].h] /\ NameOf[call[t].h] \in Names
      /\ CallOK(t) /\ HandleOK(call[t].h, t)
  BY CallTypes DEF DictInv
<1>2. Pointer(t) \in Pointers \ {Null, None}
  BY <1>1 DEF Pointer, CallOK, DictInv, TypeOK
<1>3. Pointer(t).map \in Addresses /\ Pointer(t).at \in Offsets
  BY <1>2 DEF Pointers
<1>4. Pointer(t).map = segment_[t] /\ named[NameOf[call[t].h]] = Pointer(t).at
  BY <1>1, <1>2 DEF HandleOK, CallOK, Pointer
<1>5. Pointer(t).map \in Mapped(ProcessOf[t])
  BY <1>3, <1>4, SharedAssumption DEF Mapped
<1>6. objects[Pointer(t).at] # None
  BY <1>1, <1>3, <1>4, SharedAssumption DEF DictInv, NamesAreObjects
<1>7. objects[Pointer(t).at] \in [Keys -> Entries \cup {Free}]
  BY <1>3, <1>6 DEF DictInv, TypeOK
<1> QED
  BY <1>2, <1>3, <1>4, <1>5, <1>7 DEF PointsToItsMap

LEMMA UseKeeps ==
  ASSUME OneUser, DictInv, NEW t \in Threads, Use(t)
  PROVE  DictInv'
<1>0. PICK h \in Handles : h = call[t].h
  BY CallTypes DEF Use
<1> DEFINE at == hash_map_[h].at
           k == call[t].key
<1>1. /\ pc[t] = "use" /\ h = call[t].h /\ t \in Users[h] /\ HandleOK(h, t) /\ CallOK(t)
      /\ k \in Keys
      /\ call[t].op = "insert" => call[t].val \in Values
      /\ at \in Offsets /\ hash_map_[h].map = segment_[t]
      /\ objects[at] \in [Keys -> Entries \cup {Free}]
  BY <1>0, CallTypes, UseLeadsToMap DEF Use, DictInv, Pointer, Pointers
<1>2. /\ UNCHANGED <<segment_, hash_map_, named, call, found, lost, left>>
      /\ pc' = [pc EXCEPT ![t] = "return"]
  BY DEF Use, Finish, Goto, past
<1>3. \/ UNCHANGED objects
      \/ \E e \in Entries \cup {Free} :
           /\ e # Free => e.relative
           /\ objects' = [objects EXCEPT ![at] = [objects[at] EXCEPT ![k] = e]]
  <2>1. CASE UNCHANGED objects
    BY <2>1
  <2>2. CASE call[t].op = "insert" /\ ~ UNCHANGED objects
    <3>1. objects' = [objects EXCEPT ![at][k] =
                        [val |-> call[t].val, relative |-> hash_map_[h].map = segment_[t]]]
      BY <1>1, <2>2 DEF Use, Pointer, manager
    <3> DEFINE e == [val |-> call[t].val, relative |-> TRUE]
    <3>2. e \in Entries /\ e.relative
      <4>1. call[t].val \in Values
        BY <1>1, <2>2
      <4>2. \A v \in Values, b \in BOOLEAN : [val |-> v, relative |-> b] \in Entries
        BY DEF Entries
      <4> QED
        BY <4>1, <4>2
    <3>3. objects' = [objects EXCEPT ![at] = [objects[at] EXCEPT ![k] = e]]
      BY <1>1, <3>1
    <3> QED
      BY <3>2, <3>3
  <2>3. CASE call[t].op # "insert" /\ ~ UNCHANGED objects
    <3>1. objects' = [objects EXCEPT ![at][k] = Free]
      BY <1>1, <2>3 DEF Use, Pointer
    <3>2. objects' = [objects EXCEPT ![at] = [objects[at] EXCEPT ![k] = Free]]
      BY <3>1
    <3> QED
      BY <3>2
  <2> QED
    BY <2>1, <2>2, <2>3
<1>4. objects' \in [Offsets -> [Keys -> Entries \cup {Free}] \cup {None}]
  <2>1. objects \in [Offsets -> [Keys -> Entries \cup {Free}] \cup {None}]
    BY DEF DictInv, TypeOK
  <2>2. \A e \in Entries \cup {Free} : [objects[at] EXCEPT ![k] = e] \in [Keys -> Entries \cup {Free}]
    BY <1>1
  <2> QED
    BY <1>1, <1>3, <2>1, <2>2
<1>5. TypeOK'
  BY <1>2, <1>4 DEF DictInv, TypeOK
<1>6. \A o \in Offsets : objects'[o] # None <=> objects[o] # None
  <2>1. objects[at] # None
    BY <1>1, NoneAssumption
  <2>2. \A e \in Entries \cup {Free} : [objects[at] EXCEPT ![k] = e] \in [Keys -> Entries \cup {Free}]
    BY <1>1
  <2>3. \A e \in Entries \cup {Free} : [objects[at] EXCEPT ![k] = e] # None
    BY <2>2, NoneAssumption
  <2> QED
    BY <1>1, <1>3, <2>1, <2>3 DEF DictInv, TypeOK
<1>7. NamesAreObjects'
  BY <1>2, <1>6, SharedAssumption DEF DictInv, NamesAreObjects, TypeOK
<1>8. Portable'
  <2>1. CASE UNCHANGED objects
    BY <2>1 DEF DictInv, Portable
  <2>2. CASE ~ UNCHANGED objects
    <3>1. PICK e \in Entries \cup {Free} :
            /\ e # Free => e.relative
            /\ objects' = [objects EXCEPT ![at] = [objects[at] EXCEPT ![k] = e]]
      BY <1>3, <2>2
    <3>2. ASSUME NEW o \in Offsets, NEW l \in Keys, objects'[o] # None, objects'[o][l] # Free
          PROVE  objects'[o][l].relative
      <4>1. objects[o] # None
        BY <1>6, <3>2
      <4>2. CASE o = at /\ l = k
        BY <1>1, <3>1, <3>2, <4>2 DEF DictInv, TypeOK
      <4>3. CASE ~ (o = at /\ l = k)
        <5>1. objects'[o][l] = objects[o][l]
          BY <1>1, <3>1, <4>3 DEF DictInv, TypeOK
        <5> QED
          BY <3>2, <4>1, <5>1 DEF DictInv, Portable
      <4> QED
        BY <4>2, <4>3
    <3> QED
      BY <3>2 DEF Portable
  <2> QED
    BY <2>1, <2>2
<1>9. pc'[t] = "return" /\ \A u \in Threads \ {t} : pc'[u] = pc[u]
  BY <1>2 DEF DictInv, TypeOK
<1>10. OnlyOwn(t)
  BY <1>1, <1>2, <1>9, OnlyOwnQuiet
<1>11. CallOK(t)' /\ HandleOK(h, t)'
  BY <1>1, <1>2, <1>9 DEF CallOK, HandleOK, Constructing
<1> QED
  BY <1>1, <1>5, <1>7, <1>8, <1>10, <1>11, StepKeeps

LEMMA DropStepKeeps ==
  ASSUME OneUser, DictInv, NEW t \in Threads, Drop(t)
  PROVE  DictInv'
<1>0. PICK h \in Handles : h = call[t].h
  BY CallTypes DEF Drop
<1>1. /\ pc[t] = "drop" /\ h = call[t].h /\ t \in Users[h] /\ HandleOK(h, t) /\ CallOK(t)
      /\ call[t] # None /\ call[t].op = "drop" /\ hash_map_[h] # None
  BY <1>0, CallTypes DEF Drop, DictInv, CallOK
<1>2. /\ UNCHANGED <<segment_, named, objects, call, found, res, left>>
      /\ pc' = [pc EXCEPT ![t] = "destroy"] /\ hash_map_' = [hash_map_ EXCEPT ![h] = Null]
      /\ lost' = lost \ {h}
  BY <1>1 DEF Drop, Goto
<1>3. TypeOK'
  BY <1>2 DEF DictInv, TypeOK
<1>4. /\ NamesAreObjects' /\ Portable' /\ pc'[t] = "destroy" /\ hash_map_'[h] = Null
      /\ \A u \in Threads \ {t} : pc'[u] = pc[u]
      /\ \A g \in Handles \ {h} : hash_map_'[g] = hash_map_[g]
  BY <1>2 DEF DictInv, TypeOK, NamesAreObjects, Portable
<1>5. OnlyOwn(t)
  BY <1>1, <1>2, <1>4, OnlyOwnQuiet
<1>6. CallOK(t)'
  BY <1>1, <1>2, <1>4, NoneAssumption DEF CallOK, Calling
<1>7. HandleOK(h, t)'
  BY <1>1, <1>2, <1>4 DEF HandleOK, Constructing
<1> QED
  BY <1>1, <1>3, <1>4, <1>5, <1>6, <1>7, StepKeeps

\* What Destroy frees is in nobody's call, and open handles of it are lost.
LEMMA DestroyKeeps ==
  ASSUME OneUser, DictInv, NEW t \in Threads, Destroy(t)
  PROVE  DictInv'
<1>0. PICK h \in Handles : h = call[t].h
  BY CallTypes DEF Destroy
<1> DEFINE n == NameOf[h]
<1>1. /\ pc[t] = "destroy" /\ h = call[t].h /\ t \in Users[h] /\ n \in Names
      /\ HandleOK(h, t) /\ CallOK(t) /\ call[t] # None /\ call[t].op = "drop"
      /\ hash_map_[h] = Null /\ segment_[t] # None
      /\ \A g \in Namesakes(h) : Calling(g) = {}
  BY <1>0, CallTypes DEF Destroy, DictInv, CallOK
<1>2. /\ UNCHANGED <<segment_, hash_map_, call, found, left>>
      /\ pc' = [pc EXCEPT ![t] = "return"]
      /\ lost' = lost \cup { g \in Namesakes(h) : hash_map_[g] \notin {Null, None} }
      /\ named' = [named EXCEPT ![n] = None]
      /\ objects' = [o \in Offsets |-> IF named[n] = o THEN None ELSE objects[o]]
  BY <1>1 DEF Destroy, Finish, Goto
<1>3. TypeOK'
  BY <1>2 DEF DictInv, TypeOK, Namesakes
<1>4. /\ pc'[t] = "return" /\ \A u \in Threads \ {t} : pc'[u] = pc[u]
      /\ named'[n] = None /\ \A m \in Names \ {n} : named'[m] = named[m]
      /\ \A o \in Offsets : objects'[o] = IF named[n] = o THEN None ELSE objects[o]
  BY <1>1, <1>2 DEF DictInv, TypeOK
<1>5. NamesAreObjects'
  <2>1. ASSUME NEW m \in Names, named'[m] # None PROVE objects'[named'[m]] # None
    <3>1. m # n /\ named'[m] = named[m] /\ named[m] \in Offsets
      BY <1>4, <2>1 DEF DictInv, TypeOK
    <3>2. named[n] # named[m] /\ objects[named[m]] # None
      BY <1>1, <1>4, <2>1, <3>1 DEF DictInv, NamesAreObjects
    <3> QED
      BY <1>4, <3>1, <3>2
  <2>2. ASSUME NEW l \in Names, NEW m \in Names, l # m, named'[l] # None
        PROVE  named'[l] # named'[m]
    BY <1>4, <2>2 DEF DictInv, NamesAreObjects
  <2>3. ASSUME NEW o \in Offsets, objects'[o] # None PROVE \E m \in Names : named'[m] = o
    <3>1. named[n] # o /\ objects[o] # None
      BY <1>4, <2>3
    <3>2. PICK m \in Names : named[m] = o
      BY <3>1 DEF DictInv, NamesAreObjects
    <3> QED
      BY <1>4, <3>1, <3>2
  <2> QED
    BY <2>1, <2>2, <2>3 DEF NamesAreObjects
<1>6. Portable'
  BY <1>4 DEF DictInv, Portable
<1>7. OnlyOwn(t)
  <2>1. ASSUME NEW g \in Handles \ {h}
        PROVE  /\ hash_map_'[g] = hash_map_[g]
               /\ g \in lost => g \in lost'
               /\ Calling(g) # {} => g \notin lost' \ lost
               /\ named[NameOf[g]] # None
                  /\ (Calling(g) # {} \/ (hash_map_[g] \notin {Null, None} /\ g \notin lost'))
                    => named'[NameOf[g]] = named[NameOf[g]]
    <3>1. g \in Namesakes(h) => Calling(g) = {}
      BY <1>1
    <3>2. g \in Namesakes(h) <=> NameOf[g] = n
      BY <2>1 DEF Namesakes
    <3>3. NameOf[g] \in Names
      BY <2>1, SharedAssumption
    <3> QED
      BY <1>2, <1>4, <3>1, <3>2, <3>3
  <2> QED
    BY <1>1, <1>2, <1>4, <2>1 DEF OnlyOwn
<1>8. CallOK(t)' /\ HandleOK(h, t)'
  <2>1. \A g : Calling(g)' = Calling(g)
    BY <1>2 DEF Calling
  <2>2. h \notin Namesakes(h)
    BY DEF Namesakes
  <2> QED
    BY <1>1, <1>2, <1>4, <2>1, <2>2 DEF CallOK, HandleOK, Constructing
<1> QED
  BY <1>1, <1>3, <1>5, <1>6, <1>7, <1>8, StepKeeps

LEMMA ReturnKeeps ==
  ASSUME OneUser, DictInv, NEW t \in Threads, Return(t)
  PROVE  DictInv'
<1>0. PICK h \in Handles : h = call[t].h
  BY CallTypes DEF Return
<1>1. /\ pc[t] = "return" /\ h = call[t].h /\ t \in Users[h] /\ HandleOK(h, t)
  BY <1>0, CallTypes DEF Return, DictInv
<1>2. /\ UNCHANGED <<segment_, hash_map_, named, objects, lost, left>>
      /\ pc' = [pc EXCEPT ![t] = "idle"] /\ call' = [call EXCEPT ![t] = None]
      /\ found' = [found EXCEPT ![t] = None]
  BY DEF Return, Goto, past
<1>3. TypeOK'
  BY <1>2 DEF DictInv, TypeOK
<1>4. /\ NamesAreObjects' /\ Portable' /\ pc'[t] = "idle" /\ call'[t] = None
      /\ \A u \in Threads \ {t} : pc'[u] = pc[u] /\ call'[u] = call[u] /\ found'[u] = found[u]
  BY <1>2 DEF DictInv, TypeOK, NamesAreObjects, Portable
<1>5. OnlyOwn(t)
  BY <1>1, <1>2, <1>4, OnlyOwnQuiet
<1>6. CallOK(t)'
  BY <1>4 DEF CallOK
<1>7. HandleOK(h, t)'
  BY <1>1, <1>2, <1>4 DEF HandleOK, Constructing
<1> QED
  BY <1>1, <1>3, <1>4, <1>5, <1>6, <1>7, StepKeeps

LEMMA StepOfCallKeeps ==
  ASSUME OneUser, DictInv, NEW t \in Threads, Step(t)
  PROVE  DictInv'
BY OpenKeeps, OpenThrowsKeeps, AssignKeeps, UseKeeps, DropStepKeeps, DestroyKeeps, ReturnKeeps
DEF Step

LEMMA DestructKeeps ==
  ASSUME OneUser, DictInv, NEW t \in Threads, NEW h \in Handles, Destruct(t, h)
  PROVE  DictInv'
<1>1. /\ UNCHANGED <<segment_, named, objects, pc, call, found, res, lost, left>>
      /\ hash_map_' = [hash_map_ EXCEPT ![h] = None]
      /\ \A u \in Threads : call[u] # None => call[u].h # h
  BY DEF Destruct, Calling, past
<1>2. /\ TypeOK' /\ NamesAreObjects' /\ Portable' /\ hash_map_'[h] = None
      /\ \A g \in Handles \ {h} : hash_map_'[g] = hash_map_[g]
  BY <1>1 DEF DictInv, TypeOK, NamesAreObjects, Portable
<1>3. ASSUME NEW u \in Threads PROVE CallOK(u)'
  <2>1. CASE pc[u] = "idle"
    BY <1>1, <2>1 DEF CallOK, DictInv
  <2>2. CASE pc[u] # "idle"
    <3>1. call[u] # None /\ call[u].h \in Handles \ {h}
      BY <1>1, <2>2, CallTypes
    <3>2. hash_map_'[call[u].h] = hash_map_[call[u].h] /\ CallOK(u)
      BY <1>2, <3>1 DEF DictInv
    <3>3. \A g : Calling(g)' = Calling(g)
      BY <1>1 DEF Calling
    <3> QED
      BY <1>1, <2>2, <3>1, <3>2, <3>3 DEF CallOK
  <2> QED
    BY <2>1, <2>2
<1>4. \A g \in Handles : \A u \in Users[g] : HandleOK(g, u)'
  BY <1>1, <1>2 DEF DictInv, HandleOK, Constructing
<1> QED
  BY <1>2, <1>3, <1>4 DEF DictInv

\* A thread that ends leaves its handles to be destructed.
LEMMA ThreadExitKeeps ==
  ASSUME OneUser, DictInv, NEW t \in Threads, ThreadExit(t)
  PROVE  DictInv'
<1>1. /\ UNCHANGED <<hash_map_, named, objects, pc, call, found, res, lost>>
      /\ pc[t] = "idle" /\ segment_' = [segment_ EXCEPT ![t] = None]
      /\ left' = left \cup { h \in Handles : t \in Users[h] /\ hash_map_[h] # None }
  BY DEF ThreadExit
<1>2. /\ TypeOK' /\ NamesAreObjects' /\ Portable'
      /\ \A u \in Threads \ {t} : segment_'[u] = segment_[u]
  BY <1>1 DEF DictInv, TypeOK, NamesAreObjects, Portable
<1>3. ASSUME NEW u \in Threads PROVE CallOK(u)'
  <2>1. \A g : Calling(g)' = Calling(g)
    BY <1>1 DEF Calling
  <2>2. CASE pc[u] = "idle"
    BY <1>1, <2>2 DEF CallOK, DictInv
  <2>3. CASE pc[u] # "idle"
    <3>1. u # t /\ call[u].h \in Handles /\ u \in Users[call[u].h] /\ CallOK(u)
      BY <1>1, <2>3, CallTypes DEF DictInv
    <3>2. t \notin Users[call[u].h]
      BY <3>1 DEF OneUser
    <3>3. call[u].h \in left' <=> call[u].h \in left
      BY <1>1, <3>1, <3>2
    <3>4. segment_'[u] = segment_[u]
      BY <1>2, <3>1
    <3> QED
      BY <1>1, <2>1, <3>1, <3>3, <3>4 DEF CallOK
  <2> QED
    BY <2>2, <2>3
<1>4. ASSUME NEW g \in Handles, NEW u \in Users[g] PROVE HandleOK(g, u)'
  <2>1. u \in Threads /\ HandleOK(g, u) /\ (u = t /\ hash_map_[g] # None => g \in left')
    BY <1>1, SharedAssumption DEF DictInv
  <2> QED
    BY <1>1, <1>2, <2>1 DEF HandleOK, Constructing
<1> QED
  BY <1>2, <1>3, <1>4 DEF DictInv

\* A process takes its threads, their calls and their handles along.
LEMMA CrashKeeps ==
  ASSUME OneUser, DictInv, NEW p \in Processes, Crash(p)
  PROVE  DictInv'
<1> DEFINE Dead == { t \in Threads : ProcessOf[t] = p }
<1>1. /\ UNCHANGED <<named, objects, lost, left>>
      /\ segment_' = [t \in Threads |-> IF t \in Dead THEN None ELSE segment_[t]]
      /\ call' = [t \in Threads |-> IF t \in Dead THEN None ELSE call[t]]
      /\ found' = [t \in Threads |-> IF t \in Dead THEN None ELSE found[t]]
      /\ pc' = [t \in Threads |-> IF t \in Dead THEN "idle" ELSE pc[t]]
      /\ hash_map_' = [h \in Handles |-> IF Users[h] \cap Dead # {} THEN None ELSE hash_map_[h]]
  BY DEF Crash, past
<1>2. TypeOK' /\ NamesAreObjects' /\ Portable'
  BY <1>1 DEF DictInv, TypeOK, NamesAreObjects, Portable
<1>3. /\ \A t \in Dead : segment_'[t] = None /\ call'[t] = None /\ pc'[t] = "idle"
      /\ \A t \in Threads \ Dead : /\ segment_'[t] = segment_[t] /\ call'[t] = call[t]
                                   /\ found'[t] = found[t] /\ pc'[t] = pc[t]
      /\ \A h \in Handles : hash_map_'[h] = IF Users[h] \cap Dead # {} THEN None ELSE hash_map_[h]
  BY <1>1
<1> HIDE DEF Dead
<1>4. ASSUME NEW h \in Handles, NEW t \in Users[h]
      PROVE  hash_map_'[h] = IF t \in Dead THEN None ELSE hash_map_[h]
  BY <1>3 DEF OneUser
<1>5. ASSUME NEW t \in Threads PROVE CallOK(t)'
  <2>1. CASE t \in Dead
    BY <1>3, <2>1 DEF CallOK
  <2>2. CASE t \notin Dead /\ pc[t] = "idle"
    BY <1>3, <2>2 DEF CallOK, DictInv
  <2>3. CASE t \notin Dead /\ pc[t] # "idle"
    <3>1. call[t] # None /\ call[t].h \in Handles /\ t \in Users[call[t].h] /\ CallOK(t)
      BY <2>3, CallTypes DEF DictInv
    <3>2. hash_map_'[call[t].h] = hash_map_[call[t].h]
      BY <1>4, <2>3, <3>1
    <3>3. \A g \in Handles : Calling(g)' \subseteq Calling(g)
      <4>1. \A u \in Threads : call'[u] \in {call[u], None}
        BY <1>3
      <4> QED
        BY <4>1, CallingShrinks
    <3>4. call[t].op = "drop" => \A g \in Namesakes(call[t].h) : Calling(g)' = {}
      BY <3>1, <3>3 DEF CallOK, Namesakes
    <3> QED
      BY <1>1, <1>3, <2>3, <3>1, <3>2, <3>4 DEF CallOK
  <2> QED
    BY <2>1, <2>2, <2>3
<1>6. ASSUME NEW h \in Handles, NEW t \in Users[h] PROVE HandleOK(h, t)'
  <2>1. t \in Threads /\ HandleOK(h, t)
    BY SharedAssumption DEF DictInv
  <2> QED
    BY <1>1, <1>3, <1>4, <2>1 DEF HandleOK, Constructing
<1> QED
  BY <1>2, <1>5, <1>6 DEF DictInv

LEMMA NextKeeps ==
  ASSUME OneUser
  PROVE  DictInv /\ [CarefulNext]_vars => DictInv'
<1> SUFFICES ASSUME DictInv, [CarefulNext]_vars PROVE DictInv'
  OBVIOUS
<1>1. CASE UNCHANGED vars
  <2> USE <1>1 DEF vars, past, DictInv
  <2>1. TypeOK' /\ NamesAreObjects' /\ Portable'
    BY DEF TypeOK, NamesAreObjects, Portable
  <2>2. \A u \in Threads : CallOK(u)'
    <3>1. \A g : Calling(g)' = Calling(g)
      BY DEF Calling
    <3> QED
      BY <3>1 DEF CallOK
  <2>3. \A h \in Handles : \A u \in Users[h] : HandleOK(h, u)'
    BY DEF HandleOK, Constructing
  <2> QED
    BY <2>1, <2>2, <2>3
<1>2. ASSUME NEW t \in Threads, NEW r \in Requests, DropsApart(r), NotStale(r), Call(t, r)
      PROVE  DictInv'
  BY <1>2, CallKeeps
<1>3. ASSUME NEW t \in Threads, Step(t) PROVE DictInv'
  BY <1>3, StepOfCallKeeps
<1>4. ASSUME NEW t \in Threads, NEW h \in Handles, Destruct(t, h) PROVE DictInv'
  BY <1>4, DestructKeeps
<1>5. ASSUME NEW t \in Threads, ThreadExit(t) PROVE DictInv'
  BY <1>5, ThreadExitKeeps
<1>6. ASSUME NEW p \in Processes, Crash(p) PROVE DictInv'
  BY <1>6, CrashKeeps
<1> QED
  BY <1>1, <1>2, <1>3, <1>4, <1>5, <1>6 DEF CarefulNext

\* The inductive invariant: handles are made, used, dropped and destructed,
\* threads end and processes crash anywhere, and every open handle keeps to its
\* name's map, unless another's Drop or the end of its thread has made it stale.
\* The conditions: one thread uses each handle, a Drop overlaps no call on the
\* same name, and a stale handle is dropped or destructed before its next use.
THEOREM DictInvariant == ASSUME OneUser PROVE CarefulSpec => []DictInv
<1>1. DictInv /\ [CarefulNext]_vars => DictInv'
  BY NextKeeps
<1> QED
  BY <1>1, InitHolds, PTL DEF CarefulSpec

\* Under the same conditions, every stored string was allocated through the
\* mapping that its map was reached by, so that any process can read it.
THEOREM StringsArePortable == ASSUME OneUser PROVE CarefulSpec => []Portable
<1>1. DictInv => Portable
  BY DEF DictInv
<1> QED
  BY <1>1, DictInvariant, PTL

\* Under the same conditions, serializing into the segment and destroying in it
\* never go through a null segment_: open() has mapped the segment in the thread
\* that calls manager(), and a handle whose thread has ended is not called.
THEOREM ManagerIsOpen == ASSUME OneUser PROVE CarefulSpec => []SegmentIsOpen
<1>1. DictInv => SegmentIsOpen
  <2> SUFFICES ASSUME DictInv, NEW t \in Threads, pc[t] \in {"destroy", "use"}
               PROVE  segment_[t] # None
    BY DEF SegmentIsOpen
  <2>1. CASE pc[t] = "use"
    BY <2>1, UseLeadsToMap, SharedAssumption
  <2>2. CASE pc[t] = "destroy"
    <3>1. /\ call[t].h \in Handles /\ t \in Users[call[t].h]
          /\ HandleOK(call[t].h, t) /\ hash_map_[call[t].h] # None
          /\ call[t].h \notin left
      BY <2>2, CallTypes DEF DictInv, CallOK
    <3> QED
      BY <2>2, <3>1 DEF HandleOK, Constructing
  <2> QED
    BY <2>1, <2>2
<1> QED
  BY <1>1, DictInvariant, PTL

\* If each handle has one user, no Drop overlaps a call on its name and a handle
\* made stale by another's Drop or by the end of its thread is dropped or
\* destructed first, then whatever handles are dropped and made again, by whom and
\* in whichever order, and wherever processes crash, a call is in hash_map_'s
\* methods only with a pointer that leads through a live mapping to the map that
\* has the handle's name now.  The class enforces none of the three conditions.
THEOREM MapStaysOpen == ASSUME OneUser PROVE CarefulSpec => []MapIsOpen
<1>1. DictInv => MapIsOpen
  BY UseLeadsToMap DEF MapIsOpen
<1> QED
  BY <1>1, DictInvariant, PTL

----------------------------------------------------------------------------
(* The handles implement one dictionary per name: every step of a handle is *)
(* a step of NamedDicts, or none.                                          *)

\* What NamedDicts sees: the dictionaries and the calls, by name.
DictsNow == [n \in Names |-> IF named[n] = None THEN None ELSE Contents(named[n])]
CallsNow == [t \in Threads |-> IF call[t] = None THEN None ELSE ByName(call[t])]

\* A call has a result just when it is about to return.
ResultsOK ==
  /\ res \in [Threads -> Results \cup {None}]
  /\ \A t \in Threads : pc[t] = "return" <=> res[t] # None

RefineInv == DictInv /\ ResultsOK

LEMMA SameDicts == UNCHANGED <<named, objects>> => DictsNow' = DictsNow
BY DEF DictsNow, Contents

LEMMA SameCalls == UNCHANGED call => CallsNow' = CallsNow
BY DEF CallsNow

LEMMA ContentsType ==
  ASSUME TypeOK, NEW n \in Names, named[n] # None, objects[named[n]] # None
  PROVE  /\ Contents(named[n]) \in [Keys -> Values \cup {Free}]
         /\ \A k \in Keys : Contents(named[n])[k] = Free <=> objects[named[n]][k] = Free
<1> DEFINE m == objects[named[n]]
<1>1. m \in [Keys -> Entries \cup {Free}]
  BY DEF TypeOK
<1>2. \A k \in Keys : m[k] # Free => m[k].val \in Values /\ m[k].val # Free
  BY <1>1, NoneAssumption DEF Entries
<1>3. Contents(named[n]) = [k \in Keys |-> IF m[k] = Free THEN Free ELSE m[k].val]
  BY DEF Contents
<1> HIDE DEF m
<1>4. \A k \in Keys : Contents(named[n])[k] = Free <=> m[k] = Free
  BY <1>2, <1>3
<1> QED
  BY <1>2, <1>3, <1>4 DEF m

\* A name has a dictionary just when it has an object.
LEMMA DictExists ==
  ASSUME DictInv, NEW n \in Names
  PROVE  /\ DictsNow[n] = None <=> named[n] = None
         /\ named[n] # None => objects[named[n]] # None /\ DictsNow[n] = Contents(named[n])
<1>1. named[n] # None => objects[named[n]] # None /\ TypeOK
  BY DEF DictInv, NamesAreObjects
<1>2. named[n] # None => Contents(named[n]) # None
  BY <1>1, ContentsType, NoneAssumption
<1> QED
  BY <1>1, <1>2 DEF DictsNow

LEMMA InCall ==
  ASSUME RefineInv, NEW t \in Threads, pc[t] # "idle"
  PROVE  /\ call[t] \in Requests /\ call[t] # None /\ CallsNow[t] = ByName(call[t])
         /\ CallsNow[t] # None /\ CallsNow[t].name \in Names
         /\ CallsNow[t].name = NameOf[call[t].h] /\ CallsNow[t].op = call[t].op
         /\ CallsNow[t].key = call[t].key /\ CallsNow[t].val = call[t].val
         /\ pc[t] # "return" => res[t] = None
BY CallTypes, NoneAssumption DEF RefineInv, ResultsOK, CallsNow, ByName

LEMMA RefinesCall ==
  ASSUME RefineInv, NEW t \in Threads, NEW r \in Requests, Call(t, r)
  PROVE  Dicts!Next
<1> DEFINE q == ByName(r)
<1>1. q \in Dicts!Requests
  BY SharedAssumption DEF Dicts!Requests, Requests, ByName
<1>2. call[t] = None /\ r # None /\ call' = [call EXCEPT ![t] = r]
  BY NoneAssumption DEF Call, RefineInv, DictInv, CallOK
<1>3. CallsNow[t] = None
  BY <1>2 DEF CallsNow
<1>4. CallsNow' = [CallsNow EXCEPT ![t] = q]
  BY <1>2 DEF CallsNow, RefineInv, DictInv, TypeOK
<1>5. DictsNow' = DictsNow /\ res' = res
  BY SameDicts DEF Call
<1>6. Dicts!Call(t, q)
  BY <1>3, <1>4, <1>5 DEF Dicts!Call, DictsNow, CallsNow
<1> QED
  BY <1>1, <1>6 DEF Dicts!Next

LEMMA RefinesReturn ==
  ASSUME RefineInv, NEW t \in Threads, Return(t)
  PROVE  Dicts!Next
<1>1. res[t] # None /\ DictsNow' = DictsNow
  BY SameDicts DEF Return, RefineInv, ResultsOK
<1>2. CallsNow' = [CallsNow EXCEPT ![t] = None] /\ res' = [res EXCEPT ![t] = None]
  BY DEF Return, CallsNow, RefineInv, DictInv, TypeOK
<1>3. Dicts!Return(t)
  BY <1>1, <1>2 DEF Dicts!Return, DictsNow, CallsNow
<1> QED
  BY <1>3 DEF Dicts!Next

\* A step that makes a call's result is one Perform of NamedDicts.
LEMMA Performs ==
  ASSUME RefineInv, NEW t \in Threads, pc[t] \notin {"idle", "return"}, call' = call,
         Dicts!Drop(t) \/ Dicts!Operate(t) \/ Dicts!Fail(t)
  PROVE  Dicts!Next
<1>1. CallsNow' = CallsNow /\ CallsNow[t] # None /\ res[t] = None
  BY SameCalls, InCall
<1>2. Dicts!Perform(t)
  BY <1>1 DEF Dicts!Perform, CallsNow
<1> QED
  BY <1>2 DEF Dicts!Next

LEMMA RefinesOpen ==
  ASSUME RefineInv, NEW t \in Threads, Open(t)
  PROVE  Dicts!Next \/ UNCHANGED <<DictsNow, CallsNow, res>>
<1> DEFINE n == NameOf[call[t].h]
<1>1. /\ pc[t] = "open" /\ call' = call /\ res' = res /\ n \in Names
      /\ CallsNow[t] # None /\ CallsNow[t].name = n /\ res[t] = None /\ CallsNow' = CallsNow
  BY InCall, CallTypes, SameCalls DEF Open, RefineInv
<1>2. CASE UNCHANGED <<named, objects>>
  BY <1>1, <1>2, SameDicts
<1>3. ASSUME NEW o \in Offsets, named[n] = None, objects[o] = None,
             named' = [named EXCEPT ![n] = o], objects' = [objects EXCEPT ![o] = EmptyMap]
      PROVE  Dicts!Next
  <2>1. /\ named \in [Names -> Offsets \cup {None}] /\ DOMAIN objects = Offsets
        /\ o # None /\ \A m \in Names : named[m] # o
    BY <1>3, SharedAssumption DEF RefineInv, DictInv, TypeOK, NamesAreObjects
  <2>2. /\ named'[n] = o /\ objects'[o] = EmptyMap
        /\ \A m \in Names \ {n} : named'[m] = named[m]
        /\ \A p \in Offsets \ {o} : objects'[p] = objects[p]
    BY <1>1, <1>3, <2>1
  <2>3. DictsNow[n] = None
    BY <1>1, <1>3 DEF DictsNow
  <2>4. DictsNow'[n] = [k \in Keys |-> Free]
    BY <1>1, <2>1, <2>2 DEF DictsNow, Contents, EmptyMap
  <2>5. \A m \in Names \ {n} : DictsNow'[m] = DictsNow[m]
    BY <2>1, <2>2 DEF DictsNow, Contents
  <2>6. DictsNow' = [DictsNow EXCEPT ![n] = [k \in Keys |-> Free]]
    BY <1>1, <2>4, <2>5 DEF DictsNow
  <2>7. Dicts!Create(t)
    BY <1>1, <2>3, <2>6 DEF Dicts!Create, DictsNow, CallsNow
  <2> QED
    BY <2>7 DEF Dicts!Next
<1> QED
  BY <1>2, <1>3 DEF Open, FindOrConstruct

LEMMA RefinesOpenThrows ==
  ASSUME RefineInv, NEW t \in Threads, OpenThrows(t)
  PROVE  Dicts!Next
<1>1. pc[t] = "open" /\ call' = call /\ res' = [res EXCEPT ![t] = <<"throw">>]
  BY DEF OpenThrows, Finish
<1>2. DictsNow' = DictsNow
  BY SameDicts DEF OpenThrows
<1>3. Dicts!Fail(t)
  BY <1>1, <1>2 DEF Dicts!Fail, DictsNow
<1> QED
  BY <1>1, <1>3, Performs

\* The map that an operation works on is the dictionary of the name.
LEMMA OwnMap ==
  ASSUME OneUser, RefineInv, NEW t \in Threads, pc[t] = "use"
  PROVE  LET n == NameOf[call[t].h]
         IN  /\ n \in Names /\ named[n] # None /\ named[n] = Pointer(t).at
             /\ Pointer(t).map = segment_[t]
<1>1. /\ call[t].h \in Handles /\ t \in Users[call[t].h] /\ NameOf[call[t].h] \in Names
      /\ HandleOK(call[t].h, t) /\ hash_map_[call[t].h] \notin {Null, None}
      /\ hash_map_[call[t].h] \in Pointers /\ call[t].h \notin lost \cup left
  BY CallTypes DEF RefineInv, DictInv, CallOK, TypeOK
<1>2. hash_map_[call[t].h].at # None
  BY <1>1, SharedAssumption DEF Pointers
<1> QED
  BY <1>1, <1>2 DEF HandleOK, Pointer

\* An entry of one map changes: so does an entry of one dictionary.
EntryBecomes(n, k, e) == named' = named /\ objects' = [objects EXCEPT ![named[n]][k] = e]
ValueBecomes(n, k, v) == DictsNow' = [DictsNow EXCEPT ![n][k] = v]

LEMMA EntryChanges ==
  ASSUME RefineInv, NEW n \in Names, NEW k \in Keys, NEW e, NEW v,
         named[n] # None, e \in Entries \cup {Free},
         v = IF e = Free THEN Free ELSE e.val, EntryBecomes(n, k, e)
  PROVE  ValueBecomes(n, k, v)
<1> USE DEF EntryBecomes
<1> DEFINE at == named[n]
           m == objects[at]
           m2 == [m EXCEPT ![k] = e]
<1>1. /\ at \in Offsets /\ objects \in [Offsets -> [Keys -> Entries \cup {Free}] \cup {None}]
      /\ m # None /\ \A l \in Names \ {n} : named[l] # at
  BY DEF RefineInv, DictInv, TypeOK, NamesAreObjects
<1>2. m \in [Keys -> Entries \cup {Free}]
  BY <1>1
<1>3. objects' = [objects EXCEPT ![at] = m2]
  BY <1>1
<1> HIDE DEF m, m2
<1>4. objects'[at] = m2 /\ \A p \in Offsets \ {at} : objects'[p] = objects[p]
  BY <1>1, <1>3
<1>5. m2[k] = e /\ \A l \in Keys \ {k} : m2[l] = m[l]
  BY <1>2 DEF m2
<1>6. DictsNow[n] = [l \in Keys |-> IF m[l] = Free THEN Free ELSE m[l].val]
  BY <1>1 DEF DictsNow, Contents, m
<1>7. DictsNow'[n] = [l \in Keys |-> IF m2[l] = Free THEN Free ELSE m2[l].val]
  <2>1. DictsNow'[n] = Contents(at)'
    BY DEF DictsNow
  <2>2. Contents(at)' = [l \in Keys |-> IF objects'[at][l] = Free THEN Free ELSE objects'[at][l].val]
    BY DEF Contents
  <2> QED
    BY <2>1, <2>2, <1>4
<1>8. DictsNow'[n] = [DictsNow[n] EXCEPT ![k] = v]
  BY <1>5, <1>6, <1>7
<1>9. \A l \in Names \ {n} : DictsNow'[l] = DictsNow[l]
  <2> TAKE l \in Names \ {n}
  <2>1. named[l] = None \/ named[l] \in Offsets \ {at}
    BY <1>1 DEF RefineInv, DictInv, TypeOK
  <2> QED
    BY <1>4, <2>1 DEF DictsNow, Contents
<1>10. DictsNow' = [l \in Names |-> IF l = n THEN [DictsNow[n] EXCEPT ![k] = v] ELSE DictsNow[l]]
  BY <1>8, <1>9 DEF DictsNow
<1> QED
  BY <1>10 DEF DictsNow, ValueBecomes

LEMMA RefinesUse ==
  ASSUME OneUser, RefineInv, NEW t \in Threads, Use(t)
  PROVE  Dicts!Next
<1> DEFINE r == call[t]
           n == NameOf[r.h]
           at == Pointer(t).at
           entry == objects[at][r.key]
           d == DictsNow[n]
<1>1. /\ pc[t] = "use" /\ call' = call /\ named' = named
      /\ n \in Names /\ named[n] = at /\ at # None /\ r.key \in Keys
      /\ Pointer(t).map = manager(t)
      /\ r.op = "insert" => r.val \in Values
  BY OwnMap, CallTypes DEF Use, RefineInv, manager
<1>2. /\ CallsNow[t].name = n /\ CallsNow[t].op = r.op
      /\ CallsNow[t].key = r.key /\ CallsNow[t].val = r.val
  BY <1>1, InCall
<1>3. /\ d # None /\ d = Contents(at) /\ objects[at] # None
      /\ d[r.key] = Free <=> entry = Free
      /\ entry # Free => d[r.key] = entry.val /\ entry.relative
  <2>1. d = Contents(named[n]) /\ d # None /\ objects[named[n]] # None
    BY <1>1, DictExists DEF RefineInv
  <2>2. d[r.key] = Free <=> entry = Free
    BY <1>1, <2>1, ContentsType DEF RefineInv, DictInv
  <2>3. entry # Free => entry.relative
    BY <1>1, <2>1 DEF RefineInv, DictInv, Portable, TypeOK
  <2>4. entry # Free => d[r.key] = entry.val
    BY <1>1, <2>1 DEF Contents
  <2> QED
    BY <1>1, <2>1, <2>2, <2>3, <2>4
<1>4. UNCHANGED objects => DictsNow' = DictsNow
  BY <1>1, SameDicts
<1>5. ASSUME NEW e \in Entries \cup {Free}, NEW v, v = IF e = Free THEN Free ELSE e.val,
             objects' = [objects EXCEPT ![at][r.key] = e]
      PROVE  ValueBecomes(n, r.key, v)
  <2>1. PICK k \in Keys : k = r.key
    BY <1>1
  <2>2. PICK l \in Names : l = n
    BY <1>1
  <2>3. named[l] # None /\ EntryBecomes(l, k, e)
    BY <1>1, <1>5, <2>1, <2>2 DEF EntryBecomes
  <2>4. ValueBecomes(l, k, v)
    BY <1>5, <2>3, EntryChanges
  <2>5. DictsNow' = [DictsNow EXCEPT ![l] = [DictsNow[l] EXCEPT ![k] = v]]
    BY <2>4 DEF ValueBecomes
  <2>6. DictsNow' = [DictsNow EXCEPT ![n] = [DictsNow[n] EXCEPT ![k] = v]]
    BY ONLY <2>5, <2>2
  <2>7. DictsNow' = [DictsNow EXCEPT ![n] = [DictsNow[n] EXCEPT ![r.key] = v]]
    BY ONLY <2>6, <2>1
  <2> QED
    BY <2>7 DEF ValueBecomes
<1>6. CASE r.op \in {"construct", "size"} /\ Finish(t, <<"done">>) /\ UNCHANGED objects
  <2>1. Dicts!Operate(t)
    BY <1>2, <1>3, <1>4, <1>6 DEF Dicts!Operate, DictsNow, CallsNow, Finish
  <2> QED
    BY <1>1, <2>1, Performs
<1>7. CASE r.op = "find" /\ entry = Free /\ Finish(t, <<"false">>) /\ UNCHANGED objects
  <2>1. Dicts!Operate(t)
    BY <1>2, <1>3, <1>4, <1>7 DEF Dicts!Operate, DictsNow, CallsNow, Finish
  <2> QED
    BY <1>1, <2>1, Performs
<1>8. CASE /\ r.op = "find" /\ entry # Free /\ UNCHANGED objects
           /\ \E v \in IF entry.relative THEN {entry.val} ELSE Values : Finish(t, <<"found", v>>)
  <2> DEFINE c == CallsNow[t]
             x == IF DictsNow[c.name][c.key] = Free
                  THEN <<"false">> ELSE <<"found", DictsNow[c.name][c.key]>>
  <2>1. Finish(t, <<"found", d[r.key]>>) /\ x = <<"found", d[r.key]>>
    BY <1>2, <1>3, <1>8
  <2>2. res' = [res EXCEPT ![t] = x]
    BY <2>1 DEF Finish
  <2>3. /\ DictsNow' = DictsNow /\ c.op = "find" /\ DictsNow[c.name] # None
    BY <1>2, <1>3, <1>4, <1>8
  <2>4. Dicts!Operate(t)
    BY <2>2, <2>3 DEF Dicts!Operate, DictsNow, CallsNow
  <2> QED
    BY <1>1, <2>4, Performs
<1>9. CASE /\ r.op = "insert" /\ Finish(t, <<IF entry = Free THEN "true" ELSE "false">>)
           /\ objects' = [objects EXCEPT ![at][r.key] =
                            [val |-> r.val, relative |-> Pointer(t).map = manager(t)]]
  <2> DEFINE same == Pointer(t).map = manager(t)
             e == [val |-> r.val, relative |-> same]
  <2>0. same \in BOOLEAN /\ r.val \in Values
    BY <1>1, <1>9
  <2> HIDE DEF same
  <2>1. e \in Entries /\ e # Free /\ e.val = r.val
    BY <2>0, NoneAssumption DEF Entries
  <2>2. objects' = [objects EXCEPT ![at][r.key] = e]
    BY <1>9 DEF same
  <2> HIDE DEF e
  <2>3. DictsNow' = [DictsNow EXCEPT ![n][r.key] = r.val]
    BY <1>5, <2>1, <2>2 DEF ValueBecomes
  <2>4. Dicts!Operate(t)
    BY <1>2, <1>3, <1>9, <2>3 DEF Dicts!Operate, DictsNow, CallsNow, Finish
  <2> QED
    BY <1>1, <2>4, Performs
<1>10. CASE /\ r.op = "erase" /\ Finish(t, <<IF entry = Free THEN "false" ELSE "true">>)
            /\ objects' = [objects EXCEPT ![at][r.key] = Free]
  <2>1. DictsNow' = [DictsNow EXCEPT ![n][r.key] = Free]
    BY <1>5, <1>10 DEF ValueBecomes
  <2>2. Dicts!Operate(t)
    BY <1>2, <1>3, <1>10, <2>1 DEF Dicts!Operate, DictsNow, CallsNow, Finish
  <2> QED
    BY <1>1, <2>2, Performs
<1>11. CASE Finish(t, <<"throw">>) /\ UNCHANGED objects
  <2>1. Dicts!Fail(t)
    BY <1>4, <1>11 DEF Dicts!Fail, DictsNow, Finish
  <2> QED
    BY <1>1, <2>1, Performs
<1> QED
  BY <1>6, <1>7, <1>8, <1>9, <1>10, <1>11 DEF Use

LEMMA RefinesDestroy ==
  ASSUME RefineInv, NEW t \in Threads, Destroy(t)
  PROVE  Dicts!Next
<1> DEFINE n == NameOf[call[t].h]
<1>1. /\ pc[t] = "destroy" /\ call' = call /\ n \in Names
      /\ CallsNow[t].name = n /\ CallsNow[t].op = "drop"
  BY CallTypes, InCall DEF Destroy, RefineInv, DictInv, CallOK
<1>2. /\ named' = [named EXCEPT ![n] = None]
      /\ objects' = [o \in Offsets |-> IF named[n] = o THEN None ELSE objects[o]]
      /\ res' = [res EXCEPT ![t] = <<IF named[n] = None THEN "false" ELSE "true">>]
  BY DEF Destroy, Finish
<1>3. DictsNow[n] = None <=> named[n] = None
  BY <1>1, DictExists DEF RefineInv
<1>4. DictsNow' = [DictsNow EXCEPT ![n] = None]
  <2>1. named \in [Names -> Offsets \cup {None}]
    BY DEF RefineInv, DictInv, TypeOK
  <2>2. \A m \in Names \ {n} : named[m] # None => named[m] # named[n] /\ named[m] \in Offsets
    BY <1>1, <2>1 DEF RefineInv, DictInv, NamesAreObjects
  <2>3. named'[n] = None /\ \A m \in Names \ {n} : named'[m] = named[m]
    BY <1>1, <1>2, <2>1
  <2>4. \A m \in Names \ {n} : named[m] # None => objects'[named[m]] = objects[named[m]]
    BY <1>2, <2>2
  <2>5. \A m \in Names \ {n} : DictsNow'[m] = DictsNow[m]
    BY <2>3, <2>4 DEF DictsNow, Contents
  <2>6. DictsNow'[n] = None
    BY <1>1, <2>3 DEF DictsNow
  <2> QED
    BY <2>5, <2>6 DEF DictsNow
<1>5. Dicts!Drop(t)
  BY <1>1, <1>2, <1>3, <1>4 DEF Dicts!Drop, DictsNow, CallsNow
<1> QED
  BY <1>1, <1>5, Performs
LEMMA RefinesCrash ==
  ASSUME NEW p \in Processes, Crash(p)
  PROVE  Dicts!Next
<1> DEFINE T == { t \in Threads : ProcessOf[t] = p }
<1>1. DictsNow' = DictsNow
  BY SameDicts DEF Crash
<1>2. /\ res' = [t \in Threads |-> IF t \in T THEN None ELSE res[t]]
      /\ call' = [t \in Threads |-> IF t \in T THEN None ELSE call[t]]
  BY DEF Crash
<1> HIDE DEF T
<1>3. CallsNow' = [t \in Threads |-> IF t \in T THEN None ELSE CallsNow[t]]
  BY <1>2 DEF CallsNow
<1>4. Dicts!Crash(T)
  BY <1>1, <1>2, <1>3 DEF Dicts!Crash, DictsNow, CallsNow
<1>5. T \in SUBSET Threads
  BY DEF T
<1> QED
  BY <1>4, <1>5 DEF Dicts!Next

\* Steps inside a call that nobody sees, and those of no call at all.
LEMMA RefinesHidden ==
  ASSUME UNCHANGED <<named, objects, call, res>>
  PROVE  UNCHANGED <<DictsNow, CallsNow, res>>
BY SameDicts, SameCalls

LEMMA ResultsKept ==
  ASSUME OneUser, RefineInv, CarefulNext
  PROVE  ResultsOK'
<1> USE DEF RefineInv, ResultsOK, DictInv, TypeOK
<1>1. ASSUME NEW t \in Threads, NEW x \in Results, Finish(t, x) PROVE ResultsOK'
  BY <1>1, NoneAssumption DEF Finish, Goto
<1>2. ASSUME NEW t \in Threads, NEW l \in {"open", "assign", "use", "drop", "destroy"},
             pc[t] # "return", Goto(t, l), res' = res
      PROVE  ResultsOK'
  BY <1>2 DEF Goto
<1>3. ASSUME NEW t \in Threads, NEW r \in Requests, Call(t, r) PROVE ResultsOK'
  BY <1>2, <1>3 DEF Call
<1>4. ASSUME NEW t \in Threads, Open(t) PROVE ResultsOK'
  BY <1>2, <1>4 DEF Open
<1>5. ASSUME NEW t \in Threads, OpenThrows(t) PROVE ResultsOK'
  <2>1. <<"throw">> \in Results
    BY DEF Results
  <2> QED
    BY <1>1, <1>5, <2>1 DEF OpenThrows
<1>6. ASSUME NEW t \in Threads, Assign(t) PROVE ResultsOK'
  BY <1>2, <1>6 DEF Assign
<1>7. ASSUME NEW t \in Threads, Use(t) PROVE ResultsOK'
  <2> DEFINE at == Pointer(t).at
             entry == objects[at][call[t].key]
  <2>1. pc[t] = "use" /\ at \in Offsets /\ at # None /\ objects[at] # None /\ call[t].key \in Keys
    BY <1>7, OwnMap, CallTypes DEF Use, NamesAreObjects
  <2>2. entry # Free => entry.val \in Values
    BY <2>1 DEF Entries
  <2>3. ASSUME NEW v, entry # Free, v \in IF entry.relative THEN {entry.val} ELSE Values
        PROVE  <<"found", v>> \in Results
    BY <2>2, <2>3 DEF Results
  <2>4. {<<"done">>, <<"true">>, <<"false">>, <<"throw">>} \subseteq Results
    BY DEF Results
  <2> HIDE DEF entry
  <2>5. PICK x \in Results : Finish(t, x)
    BY <1>7, <2>3, <2>4 DEF Use, entry
  <2> QED
    BY <1>1, <2>5
<1>8. ASSUME NEW t \in Threads, Drop(t) PROVE ResultsOK'
  BY <1>2, <1>8 DEF Drop
<1>9. ASSUME NEW t \in Threads, Destroy(t) PROVE ResultsOK'
  <2>1. PICK x \in Results : Finish(t, x)
    BY <1>9 DEF Destroy, Results
  <2> QED
    BY <1>1, <2>1
<1>10. ASSUME NEW t \in Threads, Return(t) PROVE ResultsOK'
  BY <1>10 DEF Return, Goto
<1>11. ASSUME NEW t \in Threads, NEW h \in Handles, Destruct(t, h) PROVE ResultsOK'
  BY <1>11 DEF Destruct
<1>12. ASSUME NEW t \in Threads, ThreadExit(t) PROVE ResultsOK'
  BY <1>12 DEF ThreadExit
<1>13. ASSUME NEW p \in Processes, Crash(p) PROVE ResultsOK'
  BY <1>13 DEF Crash
<1> QED
  BY <1>3, <1>4, <1>5, <1>6, <1>7, <1>8, <1>9, <1>10, <1>11, <1>12, <1>13
  DEF CarefulNext, Step
LEMMA InitRefines == Init => Dicts!Init /\ RefineInv
<1> SUFFICES ASSUME Init PROVE Dicts!Init /\ RefineInv
  OBVIOUS
<1>1. DictsNow = [n \in Names |-> None] /\ CallsNow = [t \in Threads |-> None]
  BY DEF Init, DictsNow, CallsNow
<1>2. ResultsOK
  BY DEF Init, ResultsOK
<1> QED
  BY <1>1, <1>2, InitHolds DEF RefineInv, Dicts!Init, DictsNow, CallsNow, Init

LEMMA NextRefines ==
  ASSUME OneUser
  PROVE  RefineInv /\ [CarefulNext]_vars
           => [Dicts!Next]_<<DictsNow, CallsNow, res>> /\ RefineInv'
<1> SUFFICES ASSUME RefineInv, [CarefulNext]_vars
             PROVE  [Dicts!Next]_<<DictsNow, CallsNow, res>> /\ RefineInv'
  OBVIOUS
<1>1. DictInv'
  BY NextKeeps DEF RefineInv
<1>2. CASE UNCHANGED vars
  BY <1>1, <1>2, RefinesHidden DEF vars, RefineInv, ResultsOK
<1>3. CASE CarefulNext
  <2>1. RefineInv'
    BY <1>1, <1>3, ResultsKept DEF RefineInv
  <2>2. ASSUME NEW t \in Threads, NEW r \in Requests, Call(t, r) PROVE Dicts!Next
    BY <2>2, RefinesCall
  <2>3. ASSUME NEW t \in Threads, Open(t)
        PROVE  Dicts!Next \/ UNCHANGED <<DictsNow, CallsNow, res>>
    BY <2>3, RefinesOpen
  <2>4. ASSUME NEW t \in Threads, Assign(t) \/ Drop(t) PROVE UNCHANGED <<DictsNow, CallsNow, res>>
    BY <2>4, RefinesHidden DEF Assign, Drop
  <2>5. ASSUME NEW t \in Threads, OpenThrows(t) \/ Use(t) \/ Destroy(t) \/ Return(t)
        PROVE  Dicts!Next
    BY <2>5, RefinesOpenThrows, RefinesUse, RefinesDestroy, RefinesReturn
  <2>6. ASSUME NEW t \in Threads, NEW h \in Handles, Destruct(t, h)
        PROVE  UNCHANGED <<DictsNow, CallsNow, res>>
    BY <2>6, RefinesHidden DEF Destruct
  <2>7. ASSUME NEW t \in Threads, ThreadExit(t) PROVE UNCHANGED <<DictsNow, CallsNow, res>>
    BY <2>7, RefinesHidden DEF ThreadExit
  <2>8. ASSUME NEW p \in Processes, Crash(p) PROVE Dicts!Next
    BY <2>8, RefinesCrash
  <2> QED
    BY <1>3, <2>1, <2>2, <2>3, <2>4, <2>5, <2>6, <2>7, <2>8 DEF CarefulNext, Step
<1> QED
  BY <1>2, <1>3

\* Under the conditions of DictInvariant, the handles of all threads and processes
\* that use a name implement one dictionary of that name: find_or_construct,
\* cached pointers, Drops of any handle, thread ends and process crashes show only
\* as operations of that dictionary.
THEOREM OneDictPerName == ASSUME OneUser PROVE CarefulSpec => SharedByName
<1>1. RefineInv /\ [CarefulNext]_vars
        => [Dicts!Next]_<<DictsNow, CallsNow, res>> /\ RefineInv'
  BY NextRefines
<1> QED
  BY <1>1, InitRefines, PTL
  DEF CarefulSpec, SharedByName, Dicts!Spec, Dicts!vars, DictsNow, CallsNow
=============================================================================
