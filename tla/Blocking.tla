------------------------------ MODULE Blocking ------------------------------
(***************************************************************************)
(* A oneshot receiver that is awaited by tasks, or by a thread in block_on *)
(* or wait_timeout (asyncband/src/blocking/executor.rs) with the parker    *)
(* that the thread has cached.  The parker may hold a notification, and a  *)
(* straggler may unpark it, for a future of an earlier call.               *)
(***************************************************************************)
EXTENDS Oneshot, Parker

CONSTANTS
    ParkerWaker,   \* the waker of the thread's parker
    Sender,        \* the sending thread as an unparker
    Straggler      \* a thread with the waker of an earlier call

ASSUME BlockingAssumption == ParkerWaker \in Wakers /\ Unparkers = {Sender, Straggler}

allVars == <<vars, parkerVars>>

\* tpc is "none" where tasks await the receiver.
BlockingInit ==
    /\ Init
    /\ lock = Nobody
    /\ \/ tpc = "none" /\ park = "EMPTY" /\ timed = FALSE /\ upc = [u \in Unparkers |-> "none"]
       \/ /\ tpc = "poll" /\ park \in {"EMPTY", "NOTIFIED"} /\ timed \in BOOLEAN
          /\ \E p \in {"none", "swap"} :
                upc = [u \in Unparkers |-> IF u = Straggler THEN p ELSE "none"]

ByThread == tpc # "none"

\* The loops of block_on and wait_timeout: poll, and park while it is pending.
ThreadPolls ==
    /\ tpc = "poll" /\ Poll(ParkerWaker)
    /\ ThreadGoto("polling")
    /\ UNCHANGED <<park, lock, timed, upc>>

ThreadParks ==
    /\ tpc = "polling" /\ rpc = "waiting"
    /\ ThreadGoto("try")
    /\ UNCHANGED <<vars, park, lock, timed, upc>>

\* The future is ready, or the deadline has passed: it is dropped with the call.
ThreadReturns ==
    /\ tpc = "polling"
    /\ rpc = "ready" \/ timed
    /\ RecvDrop
    /\ ThreadGoto("over")
    /\ UNCHANGED <<park, lock, timed, upc>>

\* A poll that wakes its own waker unparks its own parker, which is not parked.
ThreadPollStep ==
    /\ ByThread /\ PollStep
    /\ park' = IF woken' = woken THEN park ELSE "NOTIFIED"
    /\ UNCHANGED <<lock, tpc, timed, upc>>

\* The sender calls the waker it took: the parker's is unparked step by step.
SenderUnparks ==
    /\ ByThread /\ Wake
    /\ upc' = [upc EXCEPT ![Sender] = "swap"]
    /\ UNCHANGED <<park, lock, tpc, timed>>

\* Steps that do not touch the parker.
Apart(A) == A /\ UNCHANGED parkerVars

ByTasks ==
    /\ ~ByThread
    /\ Apart((\E w \in Wakers : Poll(w)) \/ PollStep \/ RecvDrop \/ Wake)

BlockingNext ==
    \/ Apart(SendWrite \/ SenderDrop \/ SenderStep)
    \/ Apart(TryRecv \/ ReceiverDrop \/ IntoFuture \/ DropStep)
    \/ ByTasks
    \/ ThreadPolls \/ ThreadParks \/ ThreadReturns \/ ThreadPollStep \/ SenderUnparks
    \/ (ParkStep \/ CvWakes \/ \E u \in Unparkers : UnparkStep(u)) /\ UNCHANGED vars

\* Both sides run to the end of a call they are in; the sender is eventually used or
\* dropped, a woken task polls its future, a thread in block_on goes on.  Spurious
\* wake-ups and the end of a timeout are not relied on.
Fairness ==
    /\ WF_allVars(Apart(SendWrite \/ SenderDrop))
    /\ WF_allVars(Apart(SenderStep))
    /\ WF_allVars(Apart(DropStep))
    /\ WF_allVars(~ByThread /\ Apart(PollStep))
    /\ WF_allVars(~ByThread /\ Apart(Wake))
    /\ WF_allVars(~ByThread /\ Apart(WokenPoll))
    /\ WF_allVars(ThreadPollStep)
    /\ WF_allVars(SenderUnparks)
    /\ WF_allVars(ThreadPolls \/ ThreadParks \/ (ParkStep /\ UNCHANGED vars))
    /\ \A u \in Unparkers : WF_allVars(UnparkStep(u) /\ UNCHANGED vars)

BlockingSpec == BlockingInit /\ [][BlockingNext]_allVars /\ Fairness

-----------------------------------------------------------------------------

\* The states that the unreachable! arms of the channel and the panics of the parker
\* name are never observed there.
NoPanic ==
    /\ NoUnexpectedState
    /\ ParkerTypeOK /\ ParkStateIsConsistent
=============================================================================
