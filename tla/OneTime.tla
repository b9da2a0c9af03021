------------------------------ MODULE OneTime ------------------------------
(***************************************************************************)
(* Work that is done once: a OnceMap or a Group of calls by key, a         *)
(* OnceCell or a LazyCell, fixed when it is created.  All of them let one  *)
(* call do the work while the others wait, and pass it on when that call   *)
(* fails or is dropped.                                                    *)
(***************************************************************************)
EXTENDS Integers, FiniteSets, Sequences

CONSTANTS Tasks, Entries, None

ASSUME OneTimeAssumption ==
    /\ None \notin Entries \cup Tasks
    /\ Cardinality(Entries) > Cardinality(Tasks)

VARIABLES
    kind,      \* "map", "group", "once" or "lazy"
    pc,
    table, entry, set, locked, waiting, discarded,
    initialized, stored, phase, poisoned, ready, waker, woken, queue, exclusive

M == INSTANCE OnceMap
C == INSTANCE Cells

mapVars == <<table, entry, set, locked, waiting, discarded>>
cellVars == <<initialized, stored, phase, poisoned, ready, waker, woken, queue, exclusive>>
vars == <<kind, pc, mapVars, cellVars>>

OfMap == kind \in {"map", "group"} /\ UNCHANGED cellVars
OfCell == kind \in {"once", "lazy"} /\ UNCHANGED mapVars

NoMap ==
    /\ table = None /\ entry = [t \in Tasks |-> None]
    /\ set = {} /\ locked = {} /\ discarded = {}
    /\ waiting = [e \in Entries |-> <<>>]

NoCell ==
    /\ initialized = FALSE /\ stored = None
    /\ phase = "initializer" /\ poisoned = FALSE /\ ready = FALSE
    /\ waker = None /\ woken = {} /\ queue = <<>> /\ exclusive = None

Init ==
    \/ kind \in {"map", "group"} /\ M!MapInit /\ NoCell
    \/ kind \in {"once", "lazy"} /\ C!CellInit /\ NoMap

Next ==
    \/ OfMap /\ M!MapNext
    \/ OfCell /\ C!CellNext

Spec == Init /\ [][Next]_vars

\* Threads go on, calls that were granted or woken are polled, and the work of a call
\* ends: a closure returns, and the future of a lazy cell becomes ready.
Fairness ==
    /\ \A t \in Tasks : WF_vars((OfMap /\ M!Proceed(t)) \/ (OfCell /\ C!CellProceed(t)))
    /\ WF_vars(OfCell /\ C!AttemptReady)

LiveSpec == Spec /\ Fairness

-----------------------------------------------------------------------------

\* One call at a time does the work, only when its result is not there yet, and never
\* finds the state of a cell that was given up half way.
InitIsExclusive ==
    /\ kind \in {"map", "group"} => M!WorkIsExclusive
    /\ kind \in {"once", "lazy"} => C!CellIsSound

\* Overlapping calls for a key share one entry of the table, and no abandoned entry
\* stays in it.
EntryIsShared == kind \in {"map", "group"} => M!EntryIsShared

\* Every call that waits for another one's work, or for the attempt another one began,
\* ends, however the calls before it fail, panic or are dropped.
CallEnds ==
    \A t \in Tasks :
       pc[t] \in {"wait", "queued", "pending"} ~> pc[t] \notin {"wait", "queued", "pending"}
=============================================================================
