---------------------------- MODULE SharedDictMC ----------------------------
(***************************************************************************)
(* Small instances of SharedDict: two handles of the first thread, with    *)
(* different names, and one of the second, with the name of the first.     *)
(* The threads belong to two processes, or to one and share handle h1.     *)
(***************************************************************************)
EXTENDS SharedDict, TLC

CONSTANTS t1, t2, p1, p2, h1, h2, h3, n1, n2

MCNameOf == h1 :> n1 @@ h2 :> n2 @@ h3 :> n1
MCUsers == h1 :> {t1} @@ h2 :> {t1} @@ h3 :> {t2}
MCUsersSharing == h1 :> {t1, t2} @@ h2 :> {t1} @@ h3 :> {t2}
MCProcessOf == t1 :> p1 @@ t2 :> p2
MCOneProcess == t1 :> p1 @@ t2 :> p1

\* Values, offsets and addresses are never compared but for equality.
Symmetry == Permutations(Values) \cup Permutations(Offsets) \cup Permutations(Addresses)
=============================================================================
