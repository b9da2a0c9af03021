------------------------ MODULE SemaphoreRefinement ------------------------
(* The semaphore implements PermitQueue.  An operation takes effect with   *)
(* the exchange of the counter: a task that has emptied the counter and is *)
(* about to link its node already counts as queued.                        *)
EXTENDS Semaphore

Linking == {t \in Tasks : pc[t] = "push"}

NodeOf(t) == [owner |-> IF op[t] = "acquire" THEN t ELSE Debt,
              needed |-> req[t] - seen[t]]

\* The queue with the node that is being linked.
QueueView ==
    IF \E t \in Linking : op[t] = "acquire"
    THEN Append(queue, NodeOf(CHOOSE t \in Linking : TRUE))
    ELSE IF Linking # {}
         THEN <<NodeOf(CHOOSE t \in Linking : TRUE)>> \o queue
         ELSE queue

WantView ==
    [t \in Tasks |->
        IF pc[t] = "pending" \/ (pc[t] = "push" /\ op[t] = "acquire") THEN req[t] ELSE 0]

PQ == INSTANCE PermitQueue WITH queue <- QueueView, want <- WantView, hand <- rem

QueueVars == <<avail, QueueView, granted, WantView, held, rem>>

\* The fast paths, partial takes, batching and cancellation of the code are
\* indistinguishable from a queue served strictly first to last at single instants:
\* each step is one of PermitQueue, or changes nothing that PermitQueue shows.
ImplementsPermitQueue == [][PQ!Next]_QueueVars

-----------------------------------------------------------------------------
(* What the refinement needs beside IInv.                                  *)

ReleasePCs == {"relLoad", "relCas", "dlock", "dist", "dadd", "dcas", "dwake"}

\* Only a release in progress has permits to place, and a call that may take or queue
\* for permits asks for an amount a caller passed.
CallInv ==
    \A t \in Tasks :
       /\ rem[t] > 0 => pc[t] \in ReleasePCs
       /\ pc[t] \in {"relLoad", "relCas", "dlock", "dadd", "dcas"} => rem[t] > 0
       /\ pc[t] \in {"load", "lockq", "cas", "push", "pending", "tryCas"} => req[t] \in Amounts
=============================================================================
