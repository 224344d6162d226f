------------------------------ MODULE OwnedMap ------------------------------
(***************************************************************************)
(* What the table promises to threads that also operate on it as a whole:  *)
(* the atomic dictionary of AtomicMap, which a thread may take for itself  *)
(* with lock_table.  While it owns the dictionary nobody else has any      *)
(* effect on it, and its items stand in one order, which only its own      *)
(* inserts and resizes shuffle: an iterator visits each of them once.      *)
(***************************************************************************)
EXTENDS AtomicMap, FiniteSets, Sequences

CONSTANTS
  WholeRequests,   \* clear, rehash, reserve, lock_table
  LockedRequests,  \* what the owner may ask of its locked_table
  NoOwner

VARIABLES
  owner,  \* the thread that owns the dictionary, or NoOwner
  order,  \* the keys in the order of iteration, while there is an owner
  at      \* the owner's iterator: the rank of its key in the order, one more
          \* than the last at the end, 0 when it is not valid

own == <<owner, order, at>>
ownedVars == <<vars, own>>

Empty == [k \in Keys |-> Absent]
Present(d) == { k \in Keys : d[k] # Absent }

\* The orders the items of dictionary d may stand in.
Orders(d) ==
  { o \in [1 .. Cardinality(Present(d)) -> Present(d)] :
      \A i, j \in DOMAIN o : o[i] = o[j] => i = j }

Rank(o, k) == IF \E i \in DOMAIN o : o[i] = k THEN CHOOSE i \in DOMAIN o : o[i] = k
              ELSE Len(o) + 1
Without(o, k) == SelectSeq(o, LAMBDA j : j # k)
Visit(o, i) == IF i \in DOMAIN o THEN <<"at", o[i]>> ELSE <<"end">>

Answer(t, result) == ret' = [ret EXCEPT ![t] = result]

OwnedInit == Init /\ owner = NoOwner /\ order = <<>> /\ at = 0

\* A call of the map, or of the locked_table by its owner.
CallOwned(t, r) ==
  /\ IF owner = t THEN r \in LockedRequests ELSE r \in Requests \cup WholeRequests
  /\ Call(t, r)
  /\ UNCHANGED own

\* An operation on one key takes effect when nobody owns the dictionary; what
\* reads no item (size, empty, giving up with an exception) may end before.
Shared(t) ==
  /\ owner # t
  /\ call[t] \in Requests
  /\ Perform(t)
  /\ owner = NoOwner \/ call[t].op \in {"size", "empty"} \/ ret'[t] = <<"throw">>
  /\ UNCHANGED own

Whole(t) ==
  /\ owner # t
  /\ call[t] \in WholeRequests
  /\ ret[t] = NoResult
  /\ \/ /\ call[t].op = "clear"
        /\ owner = NoOwner
        /\ dict' = Empty
        /\ Answer(t, <<"done">>)
        /\ UNCHANGED own
     \/ /\ call[t].op \in {"rehash", "reserve"}
        /\ \/ Answer(t, <<"false">>)
           \/ owner = NoOwner /\ (Answer(t, <<"true">>) \/ Answer(t, <<"throw">>))
        /\ UNCHANGED <<dict, own>>
     \/ /\ call[t].op = "lock_table"
        /\ owner = NoOwner
        /\ owner' = t
        /\ order' \in Orders(dict)
        /\ at' = 0
        /\ Answer(t, <<"done">>)
        /\ UNCHANGED dict
  /\ UNCHANGED call

\* The owner's operations on a key.
OwnedKey(t) ==
  LET r == call[t]
  IN  \/ /\ r.op = "find" \/ (r.op = "insert" /\ dict[r.key] # Absent)
         /\ at' = Rank(order, r.key)
         /\ Answer(t, Result(r))
         /\ UNCHANGED <<dict, order>>
      \/ /\ r.op = "erase"
         /\ dict' = Effect(r)
         /\ order' = Without(order, r.key)
         /\ at' = IF at = Rank(order, r.key) /\ dict[r.key] # Absent THEN 0
                  ELSE IF at > Rank(order, r.key) THEN at - 1 ELSE at
         /\ Answer(t, Result(r))
      \/ /\ r.op = "insert" /\ dict[r.key] = Absent
         /\ \/ /\ dict' = Effect(r)
               /\ order' \in Orders(dict')
               /\ at' = Rank(order', r.key)
               /\ Answer(t, Result(r))
            \/ /\ order' \in Orders(dict)
               /\ at' = 0
               /\ ret' \in { ret, [ret EXCEPT ![t] = <<"throw">>] }
               /\ UNCHANGED dict

\* The owner's operations on the whole dictionary.
OwnedWhole(t) ==
  \/ /\ call[t].op = "clear"
     /\ dict' = Empty
     /\ order' = <<>>
     /\ at' = 0
     /\ Answer(t, <<"done">>)
  \/ /\ call[t].op \in {"rehash", "reserve"}
     /\ \/ UNCHANGED <<order, at>> /\ Answer(t, <<"done">>)
        \/ order' \in Orders(dict) /\ at' = 0 /\ Answer(t, <<"done">>)
        \/ UNCHANGED <<order, at>> /\ Answer(t, <<"throw">>)
     /\ UNCHANGED dict
  \/ /\ call[t].op = "size"
     /\ Answer(t, <<"size", Len(order)>>)
     /\ UNCHANGED <<dict, order, at>>

\* The owner's iterator.
Iterate(t) ==
  \/ /\ \/ call[t].op = "begin" /\ at' = 1
        \/ call[t].op = "next" /\ at \in DOMAIN order /\ at' = at + 1
        \/ call[t].op = "prev" /\ at > 1 /\ at' = at - 1
     /\ Answer(t, Visit(order, at'))
     /\ UNCHANGED <<dict, order>>
  \/ /\ call[t].op = "erase_at"
     /\ at \in DOMAIN order
     /\ dict' = [dict EXCEPT ![order[at]] = Absent]
     /\ order' = Without(order, order[at])
     /\ Answer(t, Visit(order', at))
     /\ UNCHANGED at

Owned(t) ==
  /\ owner = t
  /\ call[t] \in LockedRequests
  /\ ret[t] = NoResult
  /\ OwnedKey(t) \/ OwnedWhole(t) \/ Iterate(t)
  /\ UNCHANGED <<call, owner>>

Unlock(t) ==
  /\ owner = t
  /\ call[t] # NoRequest /\ ret[t] = NoResult
  /\ call[t].op = "unlock"
  /\ owner' = NoOwner
  /\ order' = <<>>
  /\ at' = 0
  /\ Answer(t, <<"done">>)
  /\ UNCHANGED <<dict, call>>

OwnedNext ==
  \E t \in Threads :
    \/ \E r \in Requests \cup WholeRequests \cup LockedRequests : CallOwned(t, r)
    \/ Shared(t) \/ Whole(t) \/ Owned(t) \/ Unlock(t)
    \/ Return(t) /\ UNCHANGED own

OwnedSpec == OwnedInit /\ [][OwnedNext]_ownedVars
=============================================================================
