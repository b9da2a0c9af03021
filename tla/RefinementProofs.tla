------------------------- MODULE RefinementProofs -------------------------
(* The semaphore implements PermitQueue, for every number of tasks, permits *)
(* and batch sizes.                                                         *)
EXTENDS SemaphoreRefinement, SemaphoreProofs

USE TasksAssumption, PermitsAssumption DEF At, Goto, Return

\* The amounts and hands of the calls in progress.
LEMMA InitCall == Init => CallInv
BY DEF Init, CallInv, ReleasePCs

LEMMA StepCall ==
    ASSUME IInv, CallInv, NEW t \in Tasks, Call(t) \/ Step(t) \/ Future(t)
    PROVE  CallInv'
<1>a. /\ pc \in [Tasks -> PCs] /\ req \in [Tasks -> Nat] /\ seen \in [Tasks -> Nat]
      /\ rem \in [Tasks -> Nat] /\ op \in [Tasks -> {"acquire", "reduce"}]
  BY DEF IInv, TypeOK
<1> USE <1>a DEF CallInv, ReleasePCs, PCs
<1>1. ASSUME NEW n \in Amounts, Acquire(t, n) PROVE CallInv'
  BY <1>1 DEF Acquire
<1>2. ASSUME NEW n \in Amounts, ReducePermits(t, n) PROVE CallInv'
  BY <1>2 DEF ReducePermits
<1>3. ASSUME NEW n \in Amounts, TryAcquireLoad(t, n) PROVE CallInv'
  BY <1>3 DEF TryAcquireLoad
<1>4. ASSUME NEW n \in Amounts, DrainLoad(t, n) PROVE CallInv'
  BY <1>4 DEF DrainLoad
<1>5. ASSUME NEW n \in Amounts, Release(t, n) PROVE CallInv'
  BY <1>5 DEF Release
<1>6. ASSUME NEW n \in Amounts, AddPermits(t, n) PROVE CallInv'
  BY <1>6 DEF AddPermits
<1>7. ASSUME NEW n \in Amounts, ReleaseIfWaiters(t, n) PROVE CallInv'
  BY <1>7 DEF ReleaseIfWaiters
<1>8. CASE NotifyAll(t)
  BY <1>8 DEF NotifyAll
<1>9. CASE Load(t)
  BY <1>9 DEF Load
<1>10. CASE LockQueue(t)
  BY <1>10 DEF LockQueue
<1>11. CASE CasFails(t)
  BY <1>11 DEF CasFails
<1>12. CASE CasTakesAll(t)
  BY <1>12 DEF CasTakesAll
<1>13. CASE CasTakesSome(t)
  BY <1>13 DEF CasTakesSome
<1>14. CASE Enqueue(t)
  BY <1>14 DEF Enqueue
<1>15. CASE TryAcquireCas(t)
  BY <1>15 DEF TryAcquireCas
<1>16. CASE DrainCas(t)
  BY <1>16 DEF DrainCas
<1>17. CASE ReleaseLoad(t)
  BY <1>17 DEF ReleaseLoad
<1>18. CASE ReleaseCas(t)
  BY <1>18 DEF ReleaseCas
<1>19. CASE DistributeLock(t)
  BY <1>19 DEF DistributeLock
<1>20. CASE DistributeAssign(t)
  BY <1>20 DEF DistributeAssign, DetachFirst
<1>21. CASE DistributeSurplus(t)
  BY <1>21 DEF DistributeSurplus
<1>22. CASE DistributeFetchAdd(t)
  BY <1>22 DEF DistributeFetchAdd
<1>23. CASE DistributeCas(t)
  BY <1>23 DEF DistributeCas
<1>24. CASE DistributeUnlock(t)
  BY <1>24 DEF DistributeUnlock
<1>25. CASE DistributeWake(t)
  BY <1>25 DEF DistributeWake
<1>26. CASE NotifyAllDetach(t)
  BY <1>26 DEF NotifyAllDetach
<1>27. CASE NotifyAllUnlock(t)
  BY <1>27 DEF NotifyAllUnlock
<1>28. CASE PollReady(t)
  BY <1>28 DEF PollReady
<1>29. CASE PollPending(t)
  BY <1>29 DEF PollPending
<1>30. CASE DropAcquire(t)
  BY <1>30 DEF DropAcquire
<1> QED BY <1>1, <1>2, <1>3, <1>4, <1>5, <1>6, <1>7, <1>8, <1>9, <1>10, <1>11, <1>12, <1>13, <1>14, <1>15, <1>16, <1>17, <1>18, <1>19, <1>20, <1>21, <1>22, <1>23, <1>24, <1>25, <1>26, <1>27, <1>28, <1>29, <1>30 DEF Call, Step, Future

LEMMA NextCall == ASSUME IInv, CallInv, [Next]_vars PROVE CallInv'
<1>1. CASE UNCHANGED vars
  BY <1>1 DEF vars, CallInv
<1>2. ASSUME NEW t \in Tasks, Call(t) \/ Step(t) \/ Future(t) PROVE CallInv'
  BY <1>2, StepCall
<1> QED BY <1>1, <1>2 DEF Next

-----------------------------------------------------------------------------
(* The views of the queue and of the requests.                             *)

\* At most the holder of the lock is linking a node.
LEMMA LinkingHoldsLock == ASSUME IInv, NEW t \in Linking PROVE lock = t
BY DEF IInv, LockOwnership, LockedPCs, Linking

\* The step of t neither begins nor ends among the steps the views look at, and
\* touches nobody else's locals.
Outside(t) ==
    /\ pc[t] \notin {"push", "pending"} /\ pc'[t] \notin {"push", "pending"}
    /\ \A u \in Tasks \ {t} : /\ pc'[u] = pc[u] /\ op'[u] = op[u]
                              /\ req'[u] = req[u] /\ seen'[u] = seen[u]

\* Such a step leaves the views as they are.
LEMMA OutsideFrame ==
    ASSUME NEW t \in Tasks, TypeOK, TypeOK', Outside(t)
    PROVE  /\ WantView' = WantView
           /\ queue' = queue => QueueView' = QueueView
<1>a. pc \in [Tasks -> PCs] /\ pc' \in [Tasks -> PCs]
  BY Zenon DEF TypeOK
<1>b. /\ pc[t] \notin {"push", "pending"} /\ pc'[t] \notin {"push", "pending"}
      /\ \A u \in Tasks \ {t} : /\ pc'[u] = pc[u] /\ op'[u] = op[u]
                                /\ req'[u] = req[u] /\ seen'[u] = seen[u]
  BY Zenon DEF Outside
<1>1. Linking' = Linking
  BY <1>a, <1>b DEF Linking
<1>2. \A u \in Linking : u \in Tasks \ {t}
  BY <1>a, <1>b DEF Linking
<1>3. WantView' = WantView
  BY <1>a, <1>b DEF WantView
<1>4. \A u \in Linking : op'[u] = op[u] /\ NodeOf(u)' = NodeOf(u)
  BY <1>a, <1>b, <1>2 DEF NodeOf
<1>5. ASSUME queue' = queue PROVE QueueView' = QueueView
  <2>1. CASE Linking = {}
    BY <1>1, <1>5, <2>1 DEF QueueView
  <2>2. CASE Linking # {}
    <3>1. PICK c \in Linking : c = CHOOSE u \in Linking : TRUE
      BY <2>2
    <3>2. c = CHOOSE u \in Linking' : TRUE
      BY <1>1, <3>1
    <3>3. NodeOf(c)' = NodeOf(c)
      BY <1>4
    <3>4. (\E u \in Linking : op[u] = "acquire") <=> (\E u \in Linking' : op'[u] = "acquire")
      BY <1>1, <1>4
    <3> QED BY <1>1, <1>5, <3>1, <3>2, <3>3, <3>4 DEF QueueView
  <2> QED BY <2>1, <2>2
<1> QED BY <1>3, <1>5

\* While nobody is linking, the queue is what PermitQueue shows.
LEMMA ViewUnlocked ==
    /\ Linking = {} => QueueView = queue
    /\ Linking' = {} => QueueView' = queue'
BY DEF QueueView

LEMMA ViewLinking ==
    ASSUME NEW t, Linking = {t}
    PROVE  QueueView = IF op[t] = "acquire" THEN Append(queue, NodeOf(t)) ELSE <<NodeOf(t)>> \o queue
<1>1. (CHOOSE u \in Linking : TRUE) = t
  OBVIOUS
<1> QED BY <1>1 DEF QueueView

LEMMA ViewLinkingNext ==
    ASSUME NEW t, Linking' = {t}
    PROVE  QueueView' = IF op'[t] = "acquire" THEN Append(queue', NodeOf(t)') ELSE <<NodeOf(t)'>> \o queue'
<1>1. (CHOOSE u \in Linking' : TRUE) = t
  OBVIOUS
<1> QED BY <1>1 DEF QueueView

\* With the lock free, or held by a task that is not linking, nobody is linking.
LEMMA NobodyLinks ==
    ASSUME IInv, lock = Free \/ \E t \in Tasks : lock = t /\ pc[t] # "push"
    PROVE  Linking = {} /\ QueueView = queue
<1>1. Linking = {}
  BY LinkingHoldsLock DEF Linking
<1> QED BY <1>1, ViewUnlocked

\* Permits are available only while nothing is queued or being linked.
LEMMA AvailableMeansEmpty == ASSUME IInv, avail > 0 PROVE QueueView = <<>> /\ queue = <<>>
<1>1. queue = <<>>
  BY DEF IInv, CounterDiscipline, NoPermitsPastQueue
<1>2. Linking = {}
  BY DEF IInv, CounterDiscipline, Linking
<1> QED BY <1>1, <1>2, ViewUnlocked

LEMMA NotBusy ==
    ASSUME IInv, CallInv, NEW t \in Tasks, pc[t] \notin {"push", "pending"}, pc[t] \notin ReleasePCs
    PROVE  ~PQ!Busy(t)
<1>1. rem[t] = 0
  BY DEF IInv, TypeOK, CallInv
<1>2. WantView[t] = 0
  BY DEF WantView
<1> QED BY <1>1, <1>2 DEF PQ!Busy

\* Steps that PermitQueue does not show.
LEMMA QuietStep ==
    ASSUME IInv, TypeOK', NEW t \in Tasks, NEW n,
           \/ Acquire(t, n) \/ ReducePermits(t, n) \/ TryAcquireLoad(t, n) \/ DrainLoad(t, n)
           \/ NotifyAll(t) \/ Load(t) \/ LockQueue(t) \/ CasFails(t)
           \/ ReleaseLoad(t) \/ DistributeLock(t) \/ DistributeSurplus(t) \/ DistributeUnlock(t)
           \/ DistributeWake(t) \/ NotifyAllUnlock(t)
    PROVE  UNCHANGED QueueVars
<1> SUFFICES Outside(t) /\ UNCHANGED <<avail, queue, granted, held, rem>>
  BY OutsideFrame DEF IInv, QueueVars
<1>1. CASE Acquire(t, n)
  BY <1>1 DEF Acquire, IInv, TypeOK, Outside
<1>2. CASE ReducePermits(t, n)
  BY <1>2 DEF ReducePermits, IInv, TypeOK, Outside
<1>3. CASE TryAcquireLoad(t, n)
  BY <1>3 DEF TryAcquireLoad, IInv, TypeOK, Outside
<1>4. CASE DrainLoad(t, n)
  BY <1>4 DEF DrainLoad, IInv, TypeOK, Outside
<1>5. CASE NotifyAll(t)
  BY <1>5 DEF NotifyAll, IInv, TypeOK, Outside
<1>6. CASE Load(t)
  BY <1>6 DEF Load, IInv, TypeOK, Outside
<1>7. CASE LockQueue(t)
  BY <1>7 DEF LockQueue, IInv, TypeOK, Outside
<1>8. CASE CasFails(t)
  BY <1>8 DEF CasFails, IInv, TypeOK, Outside
<1>9. CASE ReleaseLoad(t)
  BY <1>9 DEF ReleaseLoad, IInv, TypeOK, Outside
<1>10. CASE DistributeLock(t)
  BY <1>10 DEF DistributeLock, IInv, TypeOK, Outside
<1>11. CASE DistributeSurplus(t)
  BY <1>11 DEF DistributeSurplus, IInv, TypeOK, Outside
<1>12. CASE DistributeUnlock(t)
  BY <1>12 DEF DistributeUnlock, IInv, TypeOK, Outside
<1>13. CASE DistributeWake(t)
  BY <1>13 DEF DistributeWake, IInv, TypeOK, Outside
<1>14. CASE NotifyAllUnlock(t)
  BY <1>14 DEF NotifyAllUnlock, IInv, TypeOK, Outside
<1> QED BY <1>1, <1>2, <1>3, <1>4, <1>5, <1>6, <1>7, <1>8, <1>9, <1>10, <1>11, <1>12, <1>13, <1>14

-----------------------------------------------------------------------------
(* The steps that PermitQueue shows.                                       *)

LEMMA TakesAll ==
    ASSUME IInv, CallInv, TypeOK', NEW t \in Tasks, CasTakesAll(t)
    PROVE  PQ!Next
<1>1. Outside(t) /\ queue' = queue
  BY DEF CasTakesAll, IInv, TypeOK, Outside
<1>2. WantView' = WantView /\ QueueView' = QueueView
  BY <1>1, OutsideFrame DEF IInv
<1>3. req[t] \in Amounts /\ req[t] \in Nat \ {0} /\ avail \in Nat /\ req[t] <= avail
  BY DEF CasTakesAll, CallInv, IInv, TypeOK
<1>4. avail' = avail - req[t] /\ UNCHANGED <<granted, rem>>
  BY DEF CasTakesAll
<1>5. CASE op[t] = "acquire"
  <2>1. ~PQ!Busy(t)
    BY NotBusy DEF CasTakesAll, ReleasePCs
  <2>2. QueueView = <<>>
    BY <1>3, AvailableMeansEmpty
  <2>3. PQ!Take(t, req[t])
    BY <1>2, <1>3, <1>4, <1>5, <2>1, <2>2 DEF CasTakesAll, PQ!Take
  <2>4. req[t] \in 1..avail
    BY <1>3
  <2> QED BY <2>3, <2>4 DEF PQ!Next
<1>6. CASE op[t] # "acquire"
  <2>1. PQ!Reduce(req[t])
    BY <1>2, <1>3, <1>4, <1>6 DEF CasTakesAll, PQ!Reduce
  <2> QED BY <1>3, <2>1 DEF PQ!Next
<1> QED BY <1>5, <1>6

LEMMA TakesSome ==
    ASSUME IInv, CallInv, TypeOK', NEW t \in Tasks, CasTakesSome(t)
    PROVE  PQ!Next
<1>1. /\ lock = t /\ pc[t] = "cas" /\ pc' = [pc EXCEPT ![t] = "push"]
      /\ avail' = 0 /\ seen[t] = avail /\ avail < req[t]
      /\ UNCHANGED <<queue, granted, op, req, seen, rem, held>>
  BY DEF CasTakesSome, IInv, LockOwnership
<1>2. Linking = {} /\ QueueView = queue
  BY <1>1, NobodyLinks
<1>3. pc \in [Tasks -> PCs] /\ req[t] \in Amounts /\ req[t] \in Nat /\ avail \in Nat /\ op[t] \in {"acquire", "reduce"}
  BY <1>1 DEF IInv, TypeOK, CallInv
<1>4. Linking' = {t}
  BY <1>1, <1>2, <1>3 DEF Linking
<1>5. ~PQ!Busy(t)
  BY <1>1, NotBusy DEF ReleasePCs
<1>6. CASE op[t] = "acquire"
  <2>1. QueueView' = Append(QueueView, [owner |-> t, needed |-> req[t] - avail])
    <3>1. QueueView' = IF op'[t] = "acquire" THEN Append(queue', NodeOf(t)') ELSE <<NodeOf(t)'>> \o queue'
      BY <1>4, ViewLinkingNext
    <3>2. NodeOf(t)' = [owner |-> t, needed |-> req[t] - avail]
      BY <1>1, <1>6 DEF NodeOf
    <3> QED BY <1>1, <1>2, <1>6, <3>1, <3>2
  <2>2. WantView' = [WantView EXCEPT ![t] = req[t]]
    <3>1. \A u \in Tasks : WantView'[u] = IF u = t THEN req[t] ELSE WantView[u]
      BY <1>1, <1>3, <1>6 DEF WantView
    <3>2. WantView = [u \in Tasks |-> WantView[u]] /\ WantView' = [u \in Tasks |-> WantView'[u]]
      BY DEF WantView
    <3> QED BY <3>1, <3>2
  <2>3. PQ!Wait(t, req[t])
    BY <1>1, <1>5, <2>1, <2>2 DEF PQ!Wait
  <2> QED BY <1>3, <2>3 DEF PQ!Next
<1>7. CASE op[t] = "reduce"
  <2>1. QueueView' = <<[owner |-> Debt, needed |-> req[t] - avail]>> \o QueueView
    <3>1. QueueView' = IF op'[t] = "acquire" THEN Append(queue', NodeOf(t)') ELSE <<NodeOf(t)'>> \o queue'
      BY <1>4, ViewLinkingNext
    <3>2. NodeOf(t)' = [owner |-> Debt, needed |-> req[t] - avail]
      BY <1>1, <1>7 DEF NodeOf
    <3> QED BY <1>1, <1>2, <1>7, <3>1, <3>2
  <2>2. WantView' = WantView
    BY <1>1, <1>3, <1>7 DEF WantView
  <2>3. PQ!Reduce(req[t])
    BY <1>1, <2>1, <2>2 DEF PQ!Reduce
  <2> QED BY <1>3, <2>3 DEF PQ!Next
<1> QED BY <1>3, <1>6, <1>7

\* The node was already counted as queued.
LEMMA EnqueueIsQuiet ==
    ASSUME IInv, TypeOK', NEW t \in Tasks, Enqueue(t)
    PROVE  UNCHANGED QueueVars
<1>1. /\ pc[t] = "push" /\ lock = t
      /\ UNCHANGED <<avail, granted, rem, held>>
  BY DEF Enqueue, IInv, LockOwnership, LockedPCs
<1>2. Linking = {t}
  BY <1>1, LinkingHoldsLock DEF Linking
<1>3. pc \in [Tasks -> PCs] /\ op[t] \in {"acquire", "reduce"} /\ op \in [Tasks -> {"acquire", "reduce"}]
      /\ req \in [Tasks -> Nat]
  <2>1. pc \in [Tasks -> PCs] /\ op \in [Tasks -> {"acquire", "reduce"}] /\ req \in [Tasks -> Nat]
    BY Zenon DEF IInv, TypeOK
  <2> QED BY <2>1
<1>4. \/ pc' = [pc EXCEPT ![t] = "pending"] /\ op[t] = "acquire" /\ UNCHANGED <<op, req>>
      \/ /\ pc' = [pc EXCEPT ![t] = "idle"] /\ op[t] = "reduce"
         /\ op' = [op EXCEPT ![t] = "acquire"] /\ req' = [req EXCEPT ![t] = 0]
  BY DEF Enqueue
<1>5. Linking' = {}
  BY <1>2, <1>3, <1>4 DEF Linking
<1>6. QueueView' = queue'
  BY <1>5, ViewUnlocked
<1>7. QueueView = IF op[t] = "acquire" THEN Append(queue, NodeOf(t)) ELSE <<NodeOf(t)>> \o queue
  BY <1>2, ViewLinking
<1>8. queue' = QueueView
  BY <1>3, <1>7 DEF Enqueue, NodeOf
<1>9. WantView' = WantView
  BY <1>1, <1>3, <1>4 DEF WantView
<1> QED BY <1>1, <1>6, <1>8, <1>9 DEF QueueVars

LEMMA AmountsArePositive == \A n \in Amounts : n \in Nat \ {0} /\ n > 0
OBVIOUS

LEMMA LocalTypes ==
    ASSUME IInv
    PROVE  /\ avail \in Nat /\ pc \in [Tasks -> PCs] /\ op \in [Tasks -> {"acquire", "reduce"}]
           /\ req \in [Tasks -> Nat] /\ seen \in [Tasks -> Nat]
           /\ rem \in [Tasks -> Nat] /\ held \in [Tasks -> Nat]
BY Zenon DEF IInv, TypeOK

\* What try_acquire and drain_permits take, they take from an empty queue.
LEMMA TakesDirectly ==
    ASSUME IInv, CallInv, TypeOK', NEW t \in Tasks, NEW n \in 1..avail,
           pc[t] \in {"tryCas", "drainCas"}, Outside(t), avail' = avail - n,
           held' = [held EXCEPT ![t] = @ + n], UNCHANGED <<queue, granted, rem>>
    PROVE  PQ!Next
<1>1. WantView' = WantView /\ QueueView' = QueueView
  BY OutsideFrame DEF IInv
<1>2. avail \in Nat
  BY Zenon DEF IInv, TypeOK
<1>3. ~PQ!Busy(t)
  BY NotBusy DEF ReleasePCs
<1>4. QueueView = <<>>
  BY <1>2, AvailableMeansEmpty
<1>5. PQ!Take(t, n)
  BY <1>1, <1>2, <1>3, <1>4 DEF PQ!Take
<1> QED BY <1>5 DEF PQ!Next

LEMMA TryAcquireRefines ==
    ASSUME IInv, CallInv, TypeOK', NEW t \in Tasks, TryAcquireCas(t)
    PROVE  PQ!Next \/ UNCHANGED QueueVars
<1>1. Outside(t) /\ UNCHANGED <<queue, granted, rem>> /\ pc[t] = "tryCas"
  BY LocalTypes DEF TryAcquireCas, Outside
<1>2. req[t] \in Nat \ {0} /\ req[t] <= seen[t]
  <2>1. req[t] \in Amounts /\ req[t] <= seen[t]
    BY <1>1 DEF CallInv, IInv, CounterDiscipline
  <2> QED BY Zenon, <2>1, AmountsArePositive
<1>3. CASE UNCHANGED <<avail, held>>
  BY <1>1, <1>3, OutsideFrame DEF IInv, QueueVars
<1>4. CASE avail = seen[t] /\ avail' = avail - req[t] /\ held' = [held EXCEPT ![t] = @ + req[t]]
  <2>1. avail \in Nat
    BY Zenon DEF IInv, TypeOK
  <2>2. req[t] \in 1..avail
    BY <1>2, <1>4, <2>1
  <2>3. pc[t] \in {"tryCas", "drainCas"}
    BY <1>1
  <2> QED BY Zenon, <1>1, <1>4, <2>2, <2>3, TakesDirectly
<1> QED BY <1>3, <1>4 DEF TryAcquireCas

LEMMA DrainRefines ==
    ASSUME IInv, CallInv, TypeOK', NEW t \in Tasks, DrainCas(t)
    PROVE  PQ!Next \/ UNCHANGED QueueVars
<1>1. Outside(t) /\ UNCHANGED <<queue, granted, rem>> /\ pc[t] = "drainCas"
  BY LocalTypes DEF DrainCas, Outside
<1>2. req \in [Tasks -> Nat] /\ avail \in Nat /\ held \in [Tasks -> Nat]
  BY Zenon DEF IInv, TypeOK
<1>3. CASE UNCHANGED <<avail, held>>
  BY <1>1, <1>3, OutsideFrame DEF IInv, QueueVars
<1>4. ASSUME NEW n \in 0..avail, avail' = avail - n, held' = [held EXCEPT ![t] = @ + n]
      PROVE  PQ!Next \/ UNCHANGED QueueVars
  <2>1. CASE n = 0
    <3>1. UNCHANGED <<avail, held>>
      BY <1>2, <1>4, <2>1
    <3> QED BY <1>3, <3>1
  <2>2. CASE n # 0
    <3>1. n \in 1..avail
      BY <1>2, <2>2
    <3>2. pc[t] \in {"tryCas", "drainCas"}
      BY <1>1
    <3> QED BY Zenon, <1>1, <1>4, <3>1, <3>2, TakesDirectly
  <2> QED BY <2>1, <2>2
<1>5. \/ UNCHANGED <<avail, held>>
      \/ \E n \in 0..avail : avail' = avail - n /\ held' = [held EXCEPT ![t] = @ + n]
  BY <1>2 DEF DrainCas
<1> QED BY <1>3, <1>4, <1>5

LEMMA ReleaseRefines ==
    ASSUME IInv, CallInv, TypeOK', NEW t \in Tasks, NEW n \in Amounts,
           Release(t, n) \/ AddPermits(t, n) \/ ReleaseIfWaiters(t, n)
    PROVE  PQ!Next
<1>1. /\ Outside(t) /\ pc[t] = "idle" /\ rem' = [rem EXCEPT ![t] = n]
      /\ UNCHANGED <<avail, queue, granted>>
  BY LocalTypes DEF Release, AddPermits, ReleaseIfWaiters, Outside
<1>2. WantView' = WantView /\ QueueView' = QueueView
  BY <1>1, OutsideFrame DEF IInv
<1>3. ~PQ!Busy(t)
  BY <1>1, NotBusy DEF ReleasePCs
<1>4. CASE Release(t, n)
  <2>1. held[t] \in Nat /\ n \in 1..held[t]
    BY <1>4 DEF Release, IInv, TypeOK
  <2>2. PQ!GiveBack(t, n)
    BY <1>1, <1>2, <1>3, <1>4 DEF Release, PQ!GiveBack
  <2> QED BY <2>1, <2>2 DEF PQ!Next
<1>5. CASE AddPermits(t, n) \/ ReleaseIfWaiters(t, n)
  <2>1. PQ!Add(t, n)
    BY <1>1, <1>2, <1>3, <1>5 DEF AddPermits, ReleaseIfWaiters, PQ!Add
  <2> QED BY <2>1 DEF PQ!Next
<1> QED BY <1>4, <1>5

\* Permits reach the counter from three places, always past an empty queue.
LEMMA PublishRefines ==
    ASSUME IInv, CallInv, TypeOK', NEW t \in Tasks,
           ReleaseCas(t) \/ DistributeFetchAdd(t) \/ DistributeCas(t)
    PROVE  PQ!Next \/ UNCHANGED QueueVars
<1>1. Outside(t) /\ UNCHANGED <<queue, granted, held>>
  <2>1. CASE ReleaseCas(t)
    BY <2>1, LocalTypes DEF ReleaseCas, Outside
  <2>2. CASE DistributeFetchAdd(t)
    BY <2>2, LocalTypes DEF DistributeFetchAdd, Outside
  <2>3. CASE DistributeCas(t)
    BY <2>3, LocalTypes DEF DistributeCas, Outside
  <2> QED BY <2>1, <2>2, <2>3
<1>2. WantView' = WantView /\ QueueView' = QueueView
  BY <1>1, OutsideFrame DEF IInv
<1>3. CASE UNCHANGED <<avail, rem>>
  BY <1>1, <1>2, <1>3 DEF QueueVars
<1>4. CASE /\ avail' = avail + rem[t] /\ rem' = [rem EXCEPT ![t] = 0]
           /\ pc[t] \in {"dadd", "dcas"} \/ (pc[t] = "relCas" /\ avail = seen[t])
  <2>1. rem[t] > 0
    BY <1>4 DEF CallInv
  <2>2. QueueView = <<>>
    <3>1. CASE pc[t] = "relCas" /\ avail = seen[t]
      <4>1. avail > 0
        BY <3>1 DEF IInv, TypeOK, CounterDiscipline
      <4> QED BY <4>1, AvailableMeansEmpty
    <3>2. CASE pc[t] \in {"dadd", "dcas"}
      <4>1. lock = t /\ pc[t] # "push" /\ queue = <<>>
        BY <3>2 DEF IInv, LockOwnership, LockedPCs, CounterDiscipline, FetchAddFromZero
      <4> QED BY <4>1, NobodyLinks
    <3> QED BY <1>4, <3>1, <3>2
  <2>3. PQ!Publish(t)
    BY <1>1, <1>2, <1>4, <2>1, <2>2 DEF PQ!Publish
  <2> QED BY <2>3 DEF PQ!Next
<1> QED BY <1>3, <1>4 DEF ReleaseCas, DistributeFetchAdd, DistributeCas

\* The head of the queue in place, as distribute_permits updates it.
LEMMA HeadUpdate ==
    ASSUME NEW q \in Seq(Node), q # <<>>, NEW k \in Nat
    PROVE  [q EXCEPT ![1].needed = @ - k] = <<[Head(q) EXCEPT !.needed = @ - k]>> \o Tail(q)
OBVIOUS

LEMMA AssignRefines ==
    ASSUME IInv, NEW t \in Tasks, DistributeAssign(t)
    PROVE  PQ!Next
<1>1. /\ lock = t /\ pc[t] = "dist" /\ rem[t] > 0 /\ queue # <<>>
      /\ UNCHANGED <<avail, lock, pc, op, req, seen, held>>
  BY DEF DistributeAssign, IInv, LockOwnership, LockedPCs
<1>2. Linking = {} /\ QueueView = queue
  BY <1>1, NobodyLinks
<1>3. Linking' = {} /\ QueueView' = queue'
  <2>1. Linking' = {}
    BY <1>1, <1>2 DEF Linking
  <2> QED BY <2>1, ViewUnlocked
<1>4. WantView' = WantView
  BY <1>1 DEF WantView
<1>5. queue \in Seq(Node) /\ rem[t] \in Nat
  BY Zenon, LocalTypes DEF IInv, TypeOK
<1>6. CASE /\ Head(queue).needed <= rem[t]
           /\ rem' = [rem EXCEPT ![t] = @ - Head(queue).needed]
           /\ DetachFirst(t)
  <2>1. PQ!Assign(t)
    BY <1>1, <1>2, <1>3, <1>4, <1>6 DEF DetachFirst, PQ!Assign, PQ!Satisfy
  <2> QED BY <2>1 DEF PQ!Next
<1>7. CASE /\ Head(queue).needed > rem[t]
           /\ queue' = [queue EXCEPT ![1].needed = @ - rem[t]]
           /\ rem' = [rem EXCEPT ![t] = 0]
           /\ UNCHANGED granted
  <2>1. queue' = <<[Head(queue) EXCEPT !.needed = @ - rem[t]]>> \o Tail(queue)
    BY <1>1, <1>5, <1>7, HeadUpdate
  <2>2. PQ!Assign(t)
    <3>1. /\ rem[t] > 0 /\ QueueView # <<>> /\ Head(QueueView).needed > rem[t]
          /\ QueueView' = <<[Head(QueueView) EXCEPT !.needed = @ - rem[t]]>> \o Tail(QueueView)
      BY Zenon, <1>1, <1>2, <1>3, <1>7, <2>1
    <3> QED BY Zenon, <1>1, <1>4, <1>7, <3>1 DEF PQ!Assign
  <2> QED BY <2>2 DEF PQ!Next
<1> QED BY <1>6, <1>7 DEF DistributeAssign

LEMMA NotifyRefines ==
    ASSUME IInv, NEW t \in Tasks, NotifyAllDetach(t)
    PROVE  PQ!Next
<1>1. /\ lock = t /\ pc[t] = "notify" /\ queue # <<>>
      /\ UNCHANGED <<avail, lock, pc, op, req, seen, rem, held>>
  BY DEF NotifyAllDetach, IInv, LockOwnership, LockedPCs
<1>2. Linking = {} /\ QueueView = queue
  BY <1>1, NobodyLinks
<1>3. Linking' = {} /\ QueueView' = queue'
  <2>1. Linking' = {}
    BY <1>1, <1>2 DEF Linking
  <2> QED BY <2>1, ViewUnlocked
<1>4. WantView' = WantView
  BY <1>1 DEF WantView
<1>5. PQ!NotifyFirst
  BY <1>1, <1>2, <1>3, <1>4 DEF NotifyAllDetach, DetachFirst, PQ!NotifyFirst, PQ!Satisfy
<1> QED BY <1>5 DEF PQ!Next

\* A pending future that is polled to completion or dropped leaves its request.
LEMMA WantCleared ==
    ASSUME IInv, NEW t \in Tasks, pc[t] = "pending",
           \E label \in {"idle", "dist"} : pc' = [pc EXCEPT ![t] = label],
           op' = op \/ op' = [op EXCEPT ![t] = "acquire"],
           req' = [req EXCEPT ![t] = 0]
    PROVE  WantView[t] = req[t] /\ WantView' = [WantView EXCEPT ![t] = 0]
<1>1. WantView[t] = req[t]
  BY DEF WantView
<1>2. \A u \in Tasks : WantView'[u] = IF u = t THEN 0 ELSE WantView[u]
  BY LocalTypes DEF WantView
<1>3. WantView = [u \in Tasks |-> WantView[u]] /\ WantView' = [u \in Tasks |-> WantView'[u]]
  BY DEF WantView
<1>4. WantView' = [WantView EXCEPT ![t] = 0]
  BY <1>2, <1>3
<1> QED BY <1>1, <1>4

LEMMA CollectRefines ==
    ASSUME IInv, NEW t \in Tasks, PollReady(t)
    PROVE  PQ!Next
<1>1. Linking = {} /\ QueueView = queue
  BY NobodyLinks DEF PollReady
<1>2. Linking' = {} /\ QueueView' = queue'
  <2>1. Linking' = {}
    BY <1>1, LocalTypes DEF Linking, PollReady
  <2> QED BY <2>1, ViewUnlocked
<1>3. WantView[t] = req[t] /\ WantView' = [WantView EXCEPT ![t] = 0]
  <2>1. /\ pc[t] = "pending" /\ pc' = [pc EXCEPT ![t] = "idle"]
        /\ op' = [op EXCEPT ![t] = "acquire"] /\ req' = [req EXCEPT ![t] = 0]
    BY Zenon DEF PollReady
  <2>2. \E label \in {"idle", "dist"} : pc' = [pc EXCEPT ![t] = label]
    BY Zenon, <2>1
  <2> QED BY Zenon, <2>1, <2>2, WantCleared
<1>4. PQ!Collect(t)
  BY <1>1, <1>2, <1>3 DEF PollReady, PQ!Collect
<1> QED BY <1>4 DEF PQ!Next

LEMMA AbandonRefines ==
    ASSUME IInv, CallInv, NEW t \in Tasks, DropAcquire(t)
    PROVE  PQ!Next
<1>1. Linking = {} /\ QueueView = queue
  BY NobodyLinks DEF DropAcquire
<1>2. Linking' = {} /\ QueueView' = queue'
  <2>1. Linking' = {}
    BY <1>1, LocalTypes DEF Linking, DropAcquire
  <2> QED BY <2>1, ViewUnlocked
<1>3. WantView[t] = req[t] /\ WantView' = [WantView EXCEPT ![t] = 0]
  <2>1. /\ pc[t] = "pending" /\ op' = op /\ req' = [req EXCEPT ![t] = 0]
        /\ pc' = [pc EXCEPT ![t] = IF Assigned(t) > 0 THEN "dist" ELSE "idle"]
    BY DEF DropAcquire
  <2>2. \E label \in {"idle", "dist"} : pc' = [pc EXCEPT ![t] = label]
    BY Zenon, <2>1
  <2> QED BY Zenon, <2>1, <2>2, WantCleared
<1>4. req[t] > 0
  <2>1. req[t] \in Amounts
    BY Zenon DEF DropAcquire, CallInv
  <2> QED BY Zenon, <2>1, AmountsArePositive
<1>5. CASE t \in granted
  <2>1. /\ queue' = queue /\ granted' = granted \ {t} /\ UNCHANGED <<avail, held>>
        /\ rem' = [rem EXCEPT ![t] = req[t]]
    <3>1. Assigned(t) = req[t]
      BY <1>5, LocalTypes DEF Assigned, Outstanding
    <3> QED BY <1>5, <3>1 DEF DropAcquire
  <2>2. PQ!Abandon(t)
    BY <1>1, <1>2, <1>3, <1>4, <1>5, <2>1 DEF PQ!Abandon
  <2> QED BY <2>2 DEF PQ!Next
<1>6. CASE t \notin granted
  <2>1. /\ queue' = RemoveAt(queue, Position(t)) /\ granted' = granted /\ UNCHANGED <<avail, held>>
        /\ rem' = [rem EXCEPT ![t] = req[t] - queue[Position(t)].needed]
    BY <1>6 DEF DropAcquire, Assigned, Outstanding
  <2>2. \E i \in DOMAIN queue : queue[i].owner = t
    <3>1. IsLinked(t)
      BY Zenon, <1>6 DEF DropAcquire, IInv, NodeOwnership
    <3> QED BY Zenon, <3>1 DEF IsLinked, ToSet
  <2>3. Position(t) \in DOMAIN queue /\ queue[Position(t)].owner = t
    BY <2>2 DEF Position
  <2>4. PICK p \in DOMAIN queue : p = Position(t)
    BY <2>3
  <2>5. /\ QueueView[p].owner = t /\ p \in DOMAIN QueueView
        /\ rem' = [rem EXCEPT ![t] = WantView[t] - QueueView[p].needed]
        /\ QueueView' = SubSeq(QueueView, 1, p - 1) \o SubSeq(QueueView, p + 1, Len(QueueView))
    BY <1>1, <1>2, <1>3, <2>1, <2>3, <2>4 DEF RemoveAt
  <2>6. WantView[t] > 0
    BY <1>3, <1>4
  <2>7. \E i \in DOMAIN QueueView :
           /\ QueueView[i].owner = t
           /\ rem' = [rem EXCEPT ![t] = WantView[t] - QueueView[i].needed]
           /\ QueueView' = SubSeq(QueueView, 1, i - 1) \o SubSeq(QueueView, i + 1, Len(QueueView))
           /\ UNCHANGED granted
    BY Zenon, <2>1, <2>5
  <2>8. PQ!Abandon(t)
    BY Zenon, <1>3, <2>1, <2>6, <2>7 DEF PQ!Abandon
  <2> QED BY <2>8 DEF PQ!Next
<1> QED BY <1>5, <1>6

-----------------------------------------------------------------------------
(* Every step refines.                                                     *)

LEMMA StepRefines ==
    ASSUME IInv, CallInv, TypeOK', NEW t \in Tasks, Call(t) \/ Step(t) \/ Future(t)
    PROVE  PQ!Next \/ UNCHANGED QueueVars
<1>1. CASE Call(t)
  <2>1. ASSUME NEW n \in Amounts,
               \/ Acquire(t, n) \/ ReducePermits(t, n) \/ TryAcquireLoad(t, n) \/ DrainLoad(t, n)
        PROVE  UNCHANGED QueueVars
    BY Zenon, <2>1, QuietStep
  <2>2. ASSUME NEW n \in Amounts,
               Release(t, n) \/ AddPermits(t, n) \/ ReleaseIfWaiters(t, n)
        PROVE  PQ!Next
    BY Zenon, <2>2, ReleaseRefines
  <2>3. ASSUME NotifyAll(t) PROVE UNCHANGED QueueVars
    <3>1. /\ Outside(t) /\ UNCHANGED <<avail, queue, granted, held, rem>>
      BY <2>3, LocalTypes DEF NotifyAll, Outside
    <3> QED BY <3>1, OutsideFrame DEF IInv, QueueVars
  <2> QED BY Zenon, <1>1, <2>1, <2>2, <2>3 DEF Call
<1>2. CASE Future(t)
  <2>1. CASE PollPending(t)
    <3>1. UNCHANGED <<avail, queue, granted, held, rem, pc, op, req, seen>>
      BY <2>1 DEF PollPending
    <3> QED BY <3>1 DEF QueueVars, QueueView, WantView, Linking, NodeOf
  <2> QED BY Zenon, <1>2, <2>1, CollectRefines, AbandonRefines DEF Future
<1>3. CASE Step(t)
  BY Zenon, <1>3, QuietStep, TakesAll, TakesSome, EnqueueIsQuiet, TryAcquireRefines,
     DrainRefines, PublishRefines, AssignRefines, NotifyRefines DEF Step
<1> QED BY Zenon, <1>1, <1>2, <1>3

\* Every behaviour of the semaphore is, step for step, one of the permit queue.
THEOREM Refinement == Spec => ImplementsPermitQueue
<1>1. Init => IInv /\ CallInv
  BY InitIInv, InitCall
<1>2. IInv /\ CallInv /\ [Next]_vars => (IInv /\ CallInv)'
  BY StepIInv, NextCall
<1>3. IInv /\ CallInv /\ IInv' /\ [Next]_vars => [PQ!Next]_QueueVars
  <2>1. CASE UNCHANGED vars
    BY <2>1 DEF vars, QueueVars, QueueView, WantView, Linking, NodeOf
  <2>2. ASSUME IInv, CallInv, IInv', NEW t \in Tasks, Call(t) \/ Step(t) \/ Future(t)
        PROVE  PQ!Next \/ UNCHANGED QueueVars
    <3>1. TypeOK'
      BY <2>2 DEF IInv
    <3> QED BY Zenon, <2>2, <3>1, StepRefines
  <2> QED BY <2>1, <2>2 DEF Next
<1> QED BY <1>1, <1>2, <1>3, PTL DEF Spec, ImplementsPermitQueue

LEMMA InitRefines == Init => PQ!Init
<1> SUFFICES ASSUME Init PROVE PQ!Init
  OBVIOUS
<1>1. Linking = {}
  BY DEF Init, Linking
<1>2. QueueView = <<>>
  BY <1>1, ViewUnlocked DEF Init
<1>3. WantView = [t \in Tasks |-> 0]
  BY DEF Init, WantView
<1> QED BY <1>2, <1>3 DEF Init, PQ!Init

\* The semaphore, created with Permits permits, implements the permit queue created
\* with as many: Semaphore::new, then any calls by any number of tasks.
THEOREM SemaphoreIsPermitQueue == Spec => PQ!Spec
<1>1. Init => PQ!Init
  BY InitRefines
<1>2. Spec => [][PQ!Next]_QueueVars
  BY Refinement DEF ImplementsPermitQueue
<1>3. [PQ!Next]_QueueVars => [PQ!Next]_(PQ!vars)
  BY DEF QueueVars, PQ!vars
<1> QED BY <1>1, <1>2, <1>3, PTL DEF Spec, PQ!Spec
=============================================================================
