------------------------------- MODULE OnceMap -------------------------------
(***************************************************************************)
(* Work coalesced per key: OnceMap (asyncband/src/once/once_map/mod.rs)    *)
(* and Group (asyncband/src/singleflight/mod.rs), over OnceCell            *)
(* (asyncband/src/once/once_cell/mod.rs).  Keys do not affect each other,  *)
(* so there is one.  The table maps it to an entry, a reference-counted    *)
(* cell that all overlapping calls share; a call that is abandoned removes *)
(* the entry if nobody else has it.                                        *)
(*                                                                         *)
(* A critical section of `entries` is one step.  A cell has a value and a  *)
(* semaphore with one permit: a FIFO lock, as Semaphore implements it.     *)
(***************************************************************************)
EXTENDS WaiterSeq, FiniteSets

CONSTANTS
    Tasks,
    Entries,   \* allocations of entries, used again when they are free
    None       \* no entry

VARIABLES
    kind,      \* "map" or "group"
    table,     \* the entry of the key, or None
    entry,     \* the reference each call holds, or None
    set,       \* entries whose cell is initialized
    locked,    \* entries whose permit is held or assigned
    waiting,   \* the wait queue of each entry's semaphore
    pc,        \* where each call is
    discarded  \* entries that discard, remove or forget took from the table (ghost)

mapVars == <<table, entry, set, locked, waiting, discarded>>

\* "look" to "return" are get_or_try_init with the caller's work; "granted" has the
\* permit assigned but has not been polled, "remove" is remove_if_current, "fail" and
\* "cleanup" are the drops of a call that failed or was abandoned.
PCs == {"none", "look", "acquire", "wait", "granted", "recheck", "work", "remove", "init",
        "return", "fail", "cleanup"}

MapTypeOK ==
    /\ table \in Entries \cup {None}
    /\ entry \in [Tasks -> Entries \cup {None}]
    /\ set \subseteq Entries /\ locked \subseteq Entries /\ discarded \subseteq Entries
    /\ waiting \in [Entries -> Seq(Tasks)]
    /\ pc \in [Tasks -> PCs]

\* A map may be collected from pairs, and then has an entry with a value.
Preset == IF kind = "map" THEN {None, CHOOSE e \in Entries : TRUE} ELSE {None}

MapInit ==
    /\ table \in Preset
    /\ entry = [t \in Tasks |-> None]
    /\ set = {table} \ {None} /\ locked = {} /\ discarded = {}
    /\ waiting = [e \in Entries |-> <<>>]
    /\ pc = [t \in Tasks |-> "none"]

Goto(t, from, to) ==
    /\ pc[t] = from
    /\ pc' = [pc EXCEPT ![t] = to]
    /\ UNCHANGED kind

Holders(e) == {t \in Tasks : entry[t] = e}

StrongCount(e) == Cardinality(Holders(e)) + (IF table = e THEN 1 ELSE 0)

\* What is left of a set of entries when the last reference of one is dropped.
Referenced(es) == {e \in es : table' = e \/ \E t \in Tasks : entry'[t] = e}

DropReference ==
    /\ set' = Referenced(set)
    /\ discarded' = Referenced(discarded)

\* An allocation without references; which one is taken makes no difference.
Fresh == CHOOSE e \in Entries : StrongCount(e) = 0

-----------------------------------------------------------------------------
(* The table.                                                              *)

\* get_or_insert: the entry of the key, or a new one.
GetOrInsert(t) ==
    /\ Goto(t, "none", "look")
    /\ \/ /\ table # None
          /\ entry' = [entry EXCEPT ![t] = table]
          /\ UNCHANGED table
       \/ /\ table = None
          /\ entry' = [entry EXCEPT ![t] = Fresh]
          /\ table' = Fresh
    /\ UNCHANGED <<set, locked, waiting, discarded>>

\* The entry leaves the table and lives on with the calls that hold it.
RemoveEntry ==
    /\ table # None
    /\ table' = None
    /\ UNCHANGED <<entry, locked, waiting>>
    /\ set' = Referenced(set)
    /\ discarded' = Referenced(discarded \cup {table})

\* discard and remove of a map.
Discard(t) == kind = "map" /\ Goto(t, "none", "none") /\ RemoveEntry

\* forget of a group.
Forget(t) == kind = "group" /\ Goto(t, "none", "none") /\ RemoveEntry

\* Group only: the entry leaves the table before its value is there for the waiters.
RemoveIfCurrent(t) ==
    /\ Goto(t, "remove", "init")
    /\ table' = IF table = entry[t] THEN None ELSE table
    /\ UNCHANGED <<entry, set, locked, waiting, discarded>>

\* Mutant: the references of other calls are not counted.
AbandonedByOne(e) == table = e /\ e \notin set

\* Two references are the table's and that of the call that is being dropped.
Abandoned(e) == table = e /\ StrongCount(e) = 2 /\ e \notin set

\* cleanup_abandoned_entry: the reference is released under the lock.
Cleanup(t) ==
    /\ Goto(t, "cleanup", "none")
    /\ table' = IF Abandoned(entry[t]) THEN None ELSE table
    /\ entry' = [entry EXCEPT ![t] = None]
    /\ DropReference
    /\ UNCHANGED <<locked, waiting>>

-----------------------------------------------------------------------------
(* OnceCell::get_or_try_init.                                              *)

\* classify, and the first look at the cell: an initialized one ends the call.
Look(t) ==
    /\ UNCHANGED <<table, locked, waiting>>
    /\ \/ /\ entry[t] \in set /\ Goto(t, "look", "none")
          /\ entry' = [entry EXCEPT ![t] = None]
          /\ DropReference
       \/ /\ entry[t] \notin set /\ Goto(t, "look", "acquire")
          /\ UNCHANGED <<entry, set, discarded>>

Acquire(t) ==
    LET e == entry[t]
    IN  /\ \/ /\ e \notin locked /\ Goto(t, "acquire", "recheck")
              /\ locked' = locked \cup {e}
              /\ UNCHANGED waiting
           \/ /\ e \in locked /\ Goto(t, "acquire", "wait")
              /\ waiting' = [waiting EXCEPT ![e] = Append(@, t)]
              /\ UNCHANGED locked
        /\ UNCHANGED <<table, entry, set, discarded>>

PollGranted(t) ==
    /\ Goto(t, "granted", "recheck")
    /\ UNCHANGED <<table, entry, set, locked, waiting, discarded>>

\* With the permit: another call may have set the value meanwhile.
Recheck(t) ==
    /\ Goto(t, "recheck", IF entry[t] \in set THEN "return" ELSE "work")
    /\ UNCHANGED <<table, entry, set, locked, waiting, discarded>>

WorkSucceeds(t) ==
    /\ Goto(t, "work", IF kind = "group" THEN "remove" ELSE "init")
    /\ UNCHANGED <<table, entry, set, locked, waiting, discarded>>

SetValue(t) ==
    /\ Goto(t, "init", "return")
    /\ set' = set \cup {entry[t]}
    /\ UNCHANGED <<table, entry, locked, waiting, discarded>>

\* The work fails, or the call is dropped during it.
WorkFails(t) ==
    /\ Goto(t, "work", "fail")
    /\ UNCHANGED <<table, entry, set, locked, waiting, discarded>>

\* The permit goes to the first call that waits, or becomes free.
Release(t, to) ==
    LET e == entry[t]
        next == Head(waiting[e])
    IN  /\ \/ /\ waiting[e] = <<>>
              /\ pc' = [pc EXCEPT ![t] = to]
              /\ locked' = locked \ {e}
              /\ UNCHANGED waiting
           \/ /\ waiting[e] # <<>>
              /\ pc' = [pc EXCEPT ![t] = to, ![next] = "granted"]
              /\ waiting' = [waiting EXCEPT ![e] = Tail(@)]
              /\ UNCHANGED locked
        /\ UNCHANGED kind

\* The permit is dropped and the call returns; dismiss drops the reference.
Return(t) ==
    /\ pc[t] = "return"
    /\ Release(t, "none")
    /\ entry' = [entry EXCEPT ![t] = None]
    /\ UNCHANGED table
    /\ DropReference

\* The permit is dropped first, then the cleanup guard.
Fail(t) ==
    /\ pc[t] = "fail"
    /\ Release(t, "cleanup")
    /\ UNCHANGED <<table, entry, set, discarded>>

\* A call is dropped after the permit was assigned to it, and passes it on.
CancelGranted(t) ==
    /\ pc[t] = "granted"
    /\ Release(t, "cleanup")
    /\ UNCHANGED <<table, entry, set, discarded>>

CancelWait(t) ==
    /\ Goto(t, "wait", "cleanup")
    /\ waiting' = [waiting EXCEPT ![entry[t]] = Unlink(@, t)]
    /\ UNCHANGED <<table, entry, set, locked, discarded>>

-----------------------------------------------------------------------------

\* What a thread does once it is in a call; the work ends.
Proceed(t) ==
    \/ Look(t) \/ Acquire(t) \/ PollGranted(t) \/ Recheck(t)
    \/ WorkSucceeds(t) \/ WorkFails(t) \/ RemoveIfCurrent(t) \/ SetValue(t)
    \/ Return(t) \/ Fail(t) \/ Cleanup(t)

MapNext ==
    \E t \in Tasks :
       \/ GetOrInsert(t) \/ Discard(t) \/ Forget(t)
       \/ CancelWait(t) \/ CancelGranted(t)
       \/ Proceed(t)

-----------------------------------------------------------------------------

\* At most one call of an entry works or sets its value, and the value is not set
\* yet: ValueCell::set is unsafe unless the permit serializes initialization.
WorkIsExclusive ==
    /\ MapTypeOK
    /\ \A t \in Tasks : pc[t] \in {"work", "remove", "init"} =>
          /\ entry[t] \notin set
          /\ \A u \in Holders(entry[t]) : pc[u] \in {"work", "remove", "init"} => u = t

\* Overlapping calls share one entry.  A call whose entry has no value still finds
\* it in the table, so later callers join it, unless the entry was discarded or the
\* group's work on it has just ended.  No abandoned entry stays: one without a value
\* has a call, and a group's table keeps no value.
EntryIsShared ==
    /\ \A t \in Tasks :
          entry[t] \in Entries \ (set \cup discarded) =>
             table = entry[t] \/ \E u \in Holders(entry[t]) : kind = "group" /\ pc[u] = "init"
    /\ table \in Entries \ set => Holders(table) # {}
    /\ kind = "group" => table \notin set
=============================================================================
