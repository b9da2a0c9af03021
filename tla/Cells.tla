------------------------------- MODULE Cells -------------------------------
(***************************************************************************)
(* OnceCell (asyncband/src/once/once_cell/mod.rs) and LazyCell             *)
(* (asyncband/src/once/lazy_cell/mod.rs) over ValueCell                    *)
(* (asyncband/src/internal/value_cell.rs).                                 *)
(*                                                                         *)
(* Initialization is serialized by a semaphore of one permit or a mutex,   *)
(* both a FIFO lock as PermitQueue promises.  A OnceCell runs the caller's *)
(* closure; a LazyCell keeps the future of its initializer in the cell, so *)
(* that a caller resumes the attempt another one dropped, and is poisoned  *)
(* by a panic.  The flag `poisoned` is relaxed: outside the lock a load    *)
(* may miss it.                                                            *)
(***************************************************************************)
EXTENDS WaiterSeq, FiniteSets

CONSTANTS Tasks, None

VARIABLES
    kind,         \* "once" or "lazy"
    initialized,  \* ValueCell::initialized
    stored,       \* ValueCell::value: the task that made it, or None
    phase,        \* LazyCell::state; "taken" is Initializer(None)
    poisoned,     \* LazyCell::poisoned
    ready,        \* the future of the attempt can complete
    waker,        \* the task whose waker the attempt has, or None
    woken,        \* tasks woken since their last poll
    queue,        \* calls that wait for the lock
    exclusive,    \* the task with a &mut of the cell, or None
    pc            \* where each call is

attempt == <<phase, poisoned, ready, waker, woken>>
cell == <<initialized, stored>>
cellVars == <<cell, attempt, queue, exclusive>>

\* "granted" has the lock assigned but was not polled since; "init" runs the closure,
\* "drive" and "poll" the attempt; "release" is about to drop the lock; "reading" has
\* a reference to the value.
PCs == {"none", "acquire", "queued", "granted", "recheck", "init", "drive", "poll",
        "pending", "write", "publish", "release", "reading"}

Holding == PCs \ {"none", "acquire", "queued", "reading"}

Phases == {"initializer", "taken", "attempt", "complete"}

CellTypeOK ==
    /\ initialized \in BOOLEAN /\ stored \in Tasks \cup {None}
    /\ phase \in Phases /\ poisoned \in BOOLEAN /\ ready \in BOOLEAN
    /\ waker \in Tasks \cup {None} /\ woken \subseteq Tasks
    /\ queue \in Seq(Tasks)
    /\ exclusive \in Tasks \cup {None}
    /\ pc \in [Tasks -> PCs]

\* new, from_value and from_future.
CellInit ==
    /\ initialized \in BOOLEAN
    /\ stored = IF initialized THEN CHOOSE t \in Tasks : TRUE ELSE None
    /\ \/ kind = "once" /\ phase = "initializer"
       \/ kind = "lazy" /\ initialized /\ phase = "complete"
       \/ kind = "lazy" /\ ~initialized /\ phase \in {"initializer", "attempt"}
    /\ poisoned = FALSE /\ ready = FALSE /\ waker = None /\ woken = {}
    /\ queue = <<>> /\ exclusive = None
    /\ pc = [t \in Tasks |-> "none"]

Goto(t, from, to) ==
    /\ pc[t] = from
    /\ pc' = [pc EXCEPT ![t] = to]
    /\ UNCHANGED kind

-----------------------------------------------------------------------------
(* A call that shares the cell.                                            *)

\* The value is there, or the cell is seen to be poisoned and the call panics, or
\* the lock is needed.
Look(t) ==
    /\ exclusive = None
    /\ Goto(t, "none", IF initialized THEN "reading" ELSE "acquire")
    /\ UNCHANGED cellVars

Acquire(t) ==
    /\ IF \E u \in Tasks : pc[u] \in Holding
       THEN Goto(t, "acquire", "queued") /\ queue' = Append(queue, t)
       ELSE Goto(t, "acquire", "recheck") /\ UNCHANGED queue
    /\ UNCHANGED <<cell, attempt, exclusive>>

PollGranted(t) ==
    /\ Goto(t, "granted", "recheck")
    /\ UNCHANGED cellVars

\* Mutant: poisoning is not looked at again.
RecheckOnlyValue(t) ==
    /\ \/ initialized /\ Goto(t, "recheck", "release")
       \/ ~initialized /\ Goto(t, "recheck", IF kind = "once" THEN "init" ELSE "drive")
    /\ UNCHANGED cellVars

\* With the lock: the value may be there by now, and the cell may be poisoned.
Recheck(t) ==
    /\ \/ (initialized \/ poisoned) /\ Goto(t, "recheck", "release")
       \/ /\ ~initialized /\ ~poisoned
          /\ Goto(t, "recheck", IF kind = "once" THEN "init" ELSE "drive")
    /\ UNCHANGED cellVars

\* The call returns or unwinds; the lock goes to the first call that waits for it.
Release(t) ==
    LET end == IF initialized THEN "reading" ELSE "none"
    IN  /\ pc[t] = "release"
        /\ pc' = IF queue = <<>> THEN [pc EXCEPT ![t] = end]
                 ELSE [pc EXCEPT ![t] = end, ![Head(queue)] = "granted"]
        /\ queue' = IF queue = <<>> THEN queue ELSE Tail(queue)
        /\ exclusive' = IF end = "none" THEN None ELSE exclusive
        /\ UNCHANGED <<kind, cell, attempt>>

\* A call that waits for the lock, or was given it, is dropped.
Cancel(t) ==
    /\ \/ Goto(t, "queued", "none") /\ queue' = Unlink(queue, t)
       \/ Goto(t, "granted", "release") /\ UNCHANGED queue
    /\ UNCHANGED <<cell, attempt, exclusive>>

ReadEnds(t) ==
    /\ Goto(t, "reading", "none")
    /\ exclusive' = None
    /\ UNCHANGED <<cell, attempt, queue>>

-----------------------------------------------------------------------------
(* A call with a &mut of the cell, which needs no lock.                    *)

Alone == \A t \in Tasks : pc[t] = "none"

GetMutOrElse(t, from) ==
    /\ Alone
    /\ Goto(t, "none", IF initialized THEN "reading" ELSE from)
    /\ exclusive' = t
    /\ UNCHANGED <<cell, attempt, queue>>

GetMut(t) == kind = "once" /\ GetMutOrElse(t, "init")

\* A poisoned cell makes the caller panic.
ForceMut(t) == kind = "lazy" /\ (initialized \/ ~poisoned) /\ GetMutOrElse(t, "drive")

Take ==
    /\ kind = "once" /\ Alone /\ initialized
    /\ initialized' = FALSE
    /\ stored' = None
    /\ UNCHANGED <<kind, attempt, queue, exclusive, pc>>

-----------------------------------------------------------------------------
(* OnceCell: the closure of the call.                                      *)

InitSucceeds(t) ==
    /\ Goto(t, "init", "write")
    /\ UNCHANGED cellVars

\* It fails or panics, or the call is dropped during it.
InitFails(t) ==
    /\ Goto(t, "init", "release")
    /\ UNCHANGED cellVars

-----------------------------------------------------------------------------
(* LazyCell: drive_pinned_attempt.                                         *)

\* The initializer makes the future, or there is one to resume.
Drive(t) ==
    /\ Goto(t, "drive", "poll")
    /\ phase \in {"initializer", "attempt"}
    /\ phase' = "attempt"
    /\ UNCHANGED <<cell, poisoned, ready, waker, woken, queue, exclusive>>

\* The initializer panics.
DrivePanics(t) ==
    /\ Goto(t, "drive", "release")
    /\ phase = "initializer"
    /\ phase' = "taken"
    /\ poisoned' = TRUE
    /\ UNCHANGED <<cell, ready, waker, woken, queue, exclusive>>

\* Mutant: a resumed attempt waits for the wake-up of an earlier poll.
PollOnceOnly(t) ==
    /\ \/ /\ ready
          /\ Goto(t, "poll", "write")
          /\ phase' = "complete"
          /\ UNCHANGED waker
       \/ /\ ~ready
          /\ Goto(t, "poll", "pending")
          /\ waker' = IF waker = None THEN t ELSE waker
          /\ UNCHANGED phase
    /\ woken' = woken \ {t}
    /\ UNCHANGED <<cell, poisoned, ready, queue, exclusive>>

\* The attempt is polled: it completes and is dropped, or takes the caller's waker.
Poll(t) ==
    /\ \/ /\ ready
          /\ Goto(t, "poll", "write")
          /\ phase' = "complete"
          /\ UNCHANGED waker
       \/ /\ ~ready
          /\ Goto(t, "poll", "pending")
          /\ waker' = t
          /\ UNCHANGED phase
    /\ woken' = woken \ {t}
    /\ UNCHANGED <<cell, poisoned, ready, queue, exclusive>>

\* The future panics when it is polled, or in its destructor after it completed.
PollPanics(t) ==
    /\ Goto(t, "poll", "release")
    /\ \/ UNCHANGED phase
       \/ ready /\ phase' = "complete"
    /\ poisoned' = TRUE
    /\ UNCHANGED <<cell, ready, waker, woken, queue, exclusive>>

WokenPoll(t) ==
    /\ t \in woken
    /\ Goto(t, "pending", "poll")
    /\ UNCHANGED cellVars

\* The call is dropped; the attempt stays in the cell.
CancelAttempt(t) ==
    /\ Goto(t, "pending", "release")
    /\ woken' = woken \ {t}
    /\ UNCHANGED <<cell, phase, poisoned, ready, waker, queue, exclusive>>

\* What the attempt waits for happens, and it wakes the waker of its last poll.
AttemptReady ==
    /\ waker # None
    /\ ready' = TRUE
    /\ waker' = None
    /\ woken' = woken \cup {t \in {waker} : pc[t] = "pending"}
    /\ UNCHANGED <<kind, cell, phase, poisoned, queue, exclusive, pc>>

-----------------------------------------------------------------------------
(* ValueCell::set.                                                         *)

Write(t) ==
    /\ Goto(t, "write", "publish")
    /\ stored' = t
    /\ UNCHANGED <<initialized, attempt, queue, exclusive>>

Publish(t) ==
    /\ Goto(t, "publish", "release")
    /\ initialized' = TRUE
    /\ UNCHANGED <<stored, attempt, queue, exclusive>>

-----------------------------------------------------------------------------

\* What a thread does once it is in a call; woken calls are polled and closures end.
CellProceed(t) ==
    \/ Acquire(t) \/ PollGranted(t) \/ Recheck(t) \/ Release(t) \/ ReadEnds(t)
    \/ InitSucceeds(t) \/ InitFails(t)
    \/ Drive(t) \/ DrivePanics(t) \/ Poll(t) \/ PollPanics(t) \/ WokenPoll(t)
    \/ Write(t) \/ Publish(t)

CellNext ==
    \/ \E t \in Tasks :
          \/ Look(t) \/ GetMut(t) \/ ForceMut(t) \/ Cancel(t) \/ CancelAttempt(t)
          \/ CellProceed(t)
    \/ Take
    \/ AttemptReady

-----------------------------------------------------------------------------

\* The panics that force_pin calls impossible do not happen, wherever callers were
\* dropped or panicked: whoever drives finds the initializer or an attempt, whoever
\* polls finds the attempt.  The value is written by one call, under the lock or a
\* &mut, and only when there is none (ValueCell::set is unsafe otherwise), and
\* whoever has a reference finds it there.
CellIsSound ==
    /\ CellTypeOK
    /\ \A t, u \in Tasks : pc[t] \in Holding /\ pc[u] \in Holding => t = u
    /\ exclusive # None => \A t \in Tasks \ {exclusive} : pc[t] = "none"
    /\ \A t \in Tasks :
          /\ pc[t] = "drive" => phase \in {"initializer", "attempt"}
          /\ pc[t] \in {"poll", "pending"} => phase = "attempt"
          /\ pc[t] \in {"write", "publish"} => ~initialized
          /\ pc[t] = "reading" => initialized /\ stored # None
=============================================================================
