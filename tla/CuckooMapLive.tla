--------------------------- MODULE CuckooMapLive ---------------------------
(***************************************************************************)
(* CuckooMap with a budget of calls, so that spinlocks are not contended   *)
(* for ever, under a scheduler that is fair to every thread.               *)
(***************************************************************************)
EXTENDS CuckooMapMC

CONSTANT MaxCalls
VARIABLE calls  \* the calls made so far, by all threads

liveVars == <<vars, calls>>

LiveInit == Init /\ calls = 0

LiveNext ==
  \E t \in Threads :
    \/ /\ calls < MaxCalls
       /\ \E r \in Requests : Call(t, r)
       /\ calls' = calls + 1
    \/ Step(t) /\ UNCHANGED calls

\* A running thread keeps running (the operating system's scheduler).
Fairness == \A t \in Threads : WF_liveVars(Step(t) /\ UNCHANGED calls)

LiveSpec == LiveInit /\ [][LiveNext]_liveVars /\ Fairness

EveryCallReturns == \A t \in Threads : (pc[t] # "idle") ~> (pc[t] = "idle")

\* Infinitely often t finds its cuckoo path stale and searches again.
KeepsRetrying(t) == []<><<MoveFails(t)>>_liveVars

\* Every operation returns: no thread waits for ever for a spinlock or the
\* expansion lock, two that move items included.  The exception is a pair of
\* inserts that undo each other's moves: cuckoopath_move gives up again and
\* again, and run_cuckoo has no bound on how often it searches.
ReturnsUnlessMovesFail ==
  EveryCallReturns \/ \E t, u \in Threads : t # u /\ KeepsRetrying(t) /\ KeepsRetrying(u)
=============================================================================
