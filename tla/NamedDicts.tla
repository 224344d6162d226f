----------------------------- MODULE NamedDicts -----------------------------
(***************************************************************************)
(* What the dictionaries of jakilid promise: whoever uses a name, in       *)
(* whatever thread or process, works on one and the same dictionary, which *)
(* comes into being when the name is first used and outlives its users.    *)
(***************************************************************************)
CONSTANTS
  Threads, Names, Keys, Values,
  Absent,    \* the value of a key that is not in a dictionary
  None       \* no dictionary, no call, no result, no value

VARIABLES
  dicts,  \* name |-> the dictionary of that name, or None
  call,   \* thread |-> [name, op, key, val] of the call in progress, or None
  ret     \* thread |-> the result the call is about to return, or None

vars == <<dicts, call, ret>>

Requests ==
  [name : Names, op : {"construct", "find", "erase", "size", "drop"}, key : Keys, val : {None}]
  \cup [name : Names, op : {"insert"}, key : Keys, val : Values]

Init ==
  /\ dicts = [n \in Names |-> None]
  /\ call = [t \in Threads |-> None]
  /\ ret = [t \in Threads |-> None]

Call(t, r) ==
  /\ call[t] = None
  /\ call' = [call EXCEPT ![t] = r]
  /\ UNCHANGED <<dicts, ret>>

\* The name of a call comes into being.
Create(t) ==
  /\ call[t] # None
  /\ ret[t] = None
  /\ dicts[call[t].name] = None
  /\ dicts' = [dicts EXCEPT ![call[t].name] = [k \in Keys |-> Absent]]
  /\ UNCHANGED <<call, ret>>

Drop(t) ==
  LET n == call[t].name
  IN  /\ call[t].op = "drop"
      /\ ret' = [ret EXCEPT ![t] = <<IF dicts[n] = None THEN "false" ELSE "true">>]
      /\ dicts' = [dicts EXCEPT ![n] = None]

Operate(t) ==
  LET r == call[t]
      d == dicts[r.name]
      Becomes(v) == dicts' = [dicts EXCEPT ![r.name][r.key] = v]
      Returns(x) == ret' = [ret EXCEPT ![t] = x]
  IN  /\ d # None
      /\ \/ /\ r.op \in {"construct", "size"}
            /\ Returns(<<"done">>)
            /\ UNCHANGED dicts
         \/ /\ r.op = "find"
            /\ Returns(IF d[r.key] = Absent THEN <<"false">> ELSE <<"found", d[r.key]>>)
            /\ UNCHANGED dicts
         \/ /\ r.op = "insert"
            /\ Returns(<<IF d[r.key] = Absent THEN "true" ELSE "false">>)
            /\ Becomes(r.val)
         \/ /\ r.op = "erase"
            /\ Returns(<<IF d[r.key] = Absent THEN "false" ELSE "true">>)
            /\ Becomes(Absent)

\* A call may fail, without any effect: the segment is full.
Fail(t) ==
  /\ ret' = [ret EXCEPT ![t] = <<"throw">>]
  /\ UNCHANGED dicts

Perform(t) ==
  /\ call[t] # None
  /\ ret[t] = None
  /\ Drop(t) \/ Operate(t) \/ Fail(t)
  /\ UNCHANGED call

Return(t) ==
  /\ ret[t] # None
  /\ call' = [call EXCEPT ![t] = None]
  /\ ret' = [ret EXCEPT ![t] = None]
  /\ UNCHANGED dicts

\* Threads disappear with their process; the dictionaries stay.
Crash(T) ==
  /\ call' = [t \in Threads |-> IF t \in T THEN None ELSE call[t]]
  /\ ret' = [t \in Threads |-> IF t \in T THEN None ELSE ret[t]]
  /\ UNCHANGED dicts

Next ==
  \/ \E t \in Threads :
       \/ \E r \in Requests : Call(t, r)
       \/ Create(t)
       \/ Perform(t)
       \/ Return(t)
  \/ \E T \in SUBSET Threads : Crash(T)

Spec == Init /\ [][Next]_vars
=============================================================================
