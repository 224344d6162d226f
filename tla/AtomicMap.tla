----------------------------- MODULE AtomicMap -----------------------------
(***************************************************************************)
(* What a concurrent hash table promises its callers: every operation      *)
(* takes effect on one dictionary at one instant between its call and its  *)
(* return.  size() and empty() are documented as unsynchronised, so they   *)
(* may return anything.  An operation may also fail with an exception, and *)
(* then it has changed nothing.                                            *)
(***************************************************************************)
EXTENDS Naturals

CONSTANTS
  Threads, Keys, Values,
  Requests,  \* what a thread may ask for
  Unsure,    \* the results size() and empty() may return
  Absent,    \* the value of a key that is not in the dictionary
  NoRequest, NoResult

VARIABLES
  dict,  \* key |-> value or Absent
  call,  \* thread |-> the request it is executing, or NoRequest
  ret    \* thread |-> the result it is about to return, or NoResult

vars == <<dict, call, ret>>

Init ==
  /\ dict = [k \in Keys |-> Absent]
  /\ call = [t \in Threads |-> NoRequest]
  /\ ret = [t \in Threads |-> NoResult]

Call(t, r) ==
  /\ call[t] = NoRequest
  /\ call' = [call EXCEPT ![t] = r]
  /\ UNCHANGED <<dict, ret>>

\* The dictionary after request r, and the result r returns.
Effect(r) ==
  IF r.op = "erase" THEN [dict EXCEPT ![r.key] = Absent]
  ELSE IF \/ r.op = "upsert"
          \/ r.op = "insert" /\ dict[r.key] = Absent
          \/ r.op = "update" /\ dict[r.key] # Absent
       THEN [dict EXCEPT ![r.key] = r.val]
  ELSE dict

Result(r) ==
  LET present == dict[r.key] # Absent
  IN  CASE r.op = "find" -> IF present THEN <<"found", dict[r.key]>> ELSE <<"false">>
        [] r.op \in {"erase", "update"} -> <<IF present THEN "true" ELSE "false">>
        [] r.op \in {"upsert", "insert"} -> <<IF present THEN "false" ELSE "true">>

Perform(t) ==
  /\ call[t] # NoRequest
  /\ ret[t] = NoResult
  /\ \/ /\ call[t].op \notin {"size", "empty"}
        /\ ret' = [ret EXCEPT ![t] = Result(call[t])]
        /\ dict' = Effect(call[t])
     \/ /\ call[t].op \in {"size", "empty"}
        /\ \E r \in Unsure : ret' = [ret EXCEPT ![t] = r]
        /\ UNCHANGED dict
     \/ /\ call[t].op \in {"find", "upsert", "insert", "update"}
        /\ ret' = [ret EXCEPT ![t] = <<"throw">>]
        /\ UNCHANGED dict
  /\ UNCHANGED call

Return(t) ==
  /\ ret[t] # NoResult
  /\ call' = [call EXCEPT ![t] = NoRequest]
  /\ ret' = [ret EXCEPT ![t] = NoResult]
  /\ UNCHANGED dict

Next ==
  \E t \in Threads :
    \/ \E r \in Requests : Call(t, r)
    \/ Perform(t)
    \/ Return(t)

Spec == Init /\ [][Next]_vars
=============================================================================
