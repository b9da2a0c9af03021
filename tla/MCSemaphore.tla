---------------------------- MODULE MCSemaphore ----------------------------
(* Two uses of the semaphore: with permits that callers take and give back *)
(* (mutex, rwlock, pool), as the constants say, and without any at the     *)
(* start, for signals (the broadcast channel).  The tasks are              *)
(* interchangeable.                                                        *)
EXTENDS SemaphoreRefinement

VARIABLE use

Signal == INSTANCE Semaphore WITH
    Permits <- 0,
    Calls <- {"acquire", "release", "add", "release_if_waiters", "notify_all"}

UsesInit ==
    \/ use = "direct" /\ Init
    \/ use = "signal" /\ Signal!Init

UsesNext ==
    /\ UNCHANGED use
    /\ \/ use = "direct" /\ Next
       \/ use = "signal" /\ Signal!Next

UsesSpec == UsesInit /\ [][UsesNext]_<<use, vars>>

Symmetry == Permutations(Tasks)
=============================================================================
