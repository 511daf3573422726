------------------------------- MODULE KVStore -------------------------------
(***************************************************************************)
(* What the engine promises its callers (the interfaces Transaction and    *)
(* Database of core/database.h): one map, and calls that each take effect  *)
(* on it at one moment, in the order of their replies.  A call that fails  *)
(* leaves the map alone, and so does the end of the process, which only    *)
(* takes away the calls under way: one that took effect may go unanswered. *)
(* reply is the last call that returned.                                   *)
(***************************************************************************)
EXTENDS Naturals, FiniteSets

CONSTANTS Keys, Values, EmptyString, Absent, Threads, ScanLimit

VARIABLES store, reply

Init ==
    /\ store = [k \in Keys |-> Absent]
    /\ reply = <<"none">>

Get(t, k) ==
    /\ reply' = <<"get", t, k, IF store[k] = Absent THEN EmptyString ELSE store[k]>>
    /\ UNCHANGED store

Put(t, k, v) ==
    \/ /\ reply' = <<"put", t, k, v, "SUCCESS">>
       /\ store' = [store EXCEPT ![k] = v]
    \/ /\ reply' = <<"put", t, k, v, "SYSTEM_ERROR">>
       /\ UNCHANGED store

Del(t, k) ==
    \/ /\ store[k] # Absent
       /\ reply' = <<"del", t, k, "SUCCESS">>
       /\ store' = [store EXCEPT ![k] = Absent]
    \/ /\ store[k] = Absent
       /\ reply' = <<"del", t, k, "KEY_NOT_FOUND">>
       /\ UNCHANGED store
    \/ /\ reply' = <<"del", t, k, "SYSTEM_ERROR">>
       /\ UNCHANGED store

\* The present keys of a range, or as many of them as the limit lets through.
Hits(lo, hi) == {k \in Keys : lo <= k /\ k < hi /\ store[k] # Absent}

Scan(t, lo, hi) ==
    /\ \E kept \in SUBSET Hits(lo, hi) :
          /\ \/ kept = Hits(lo, hi) /\ Cardinality(kept) <= ScanLimit
             \/ Cardinality(kept) = ScanLimit
          /\ reply' = <<"scan", t, <<lo, hi>>, {<<k, store[k]>> : k \in kept}>>
    /\ UNCHANGED store

Stats ==
    /\ reply'[1] = "stats"
    /\ reply'[3] = Cardinality({k \in Keys : store[k] # Absent})
    /\ UNCHANGED store

\* Calls that are not about the map.
Other ==
    /\ reply'[1] \in {"begin", "commit", "rollback", "compact", "backup", "shutdown"}
    /\ UNCHANGED store

\* The process ends: the map survives it.
Crash == reply' = <<"none">> /\ UNCHANGED store

Next ==
    \/ Crash
    \/ \E t \in Threads :
         \/ \E k \in Keys : Get(t, k) \/ Del(t, k)
         \/ \E k \in Keys, v \in Values : Put(t, k, v)
         \/ \E lo \in Keys, hi \in {k + 1 : k \in Keys} : Scan(t, lo, hi)
    \/ Stats
    \/ Other

Spec == Init /\ [][Next]_<<store, reply>>
=============================================================================
