-------------------------- MODULE SemaphoreProofs --------------------------
EXTENDS Semaphore, SequenceLemmas

USE TasksAssumption, PermitsAssumption DEF At, Goto, Return

\* The invariant holds at first.
LEMMA InitIInv == Init => IInv
<1> SUFFICES ASSUME Init PROVE IInv
  OBVIOUS
<1>1. TypeOK
  BY DEF Init, TypeOK, PCs
<1>p. \A t \in Tasks : pc[t] = "idle"
  BY DEF Init
<1>e. queue = <<>> /\ granted = {} /\ ToSet(queue) = {}
  BY DEF Init, ToSet
<1>2. LockOwnership
  BY <1>p DEF LockOwnership, LockedPCs
<1>3. CounterDiscipline
  BY <1>p, <1>e DEF CounterDiscipline, NoPermitsPastQueue, FetchAddFromZero
<1>4. NeedBounded
  BY <1>e DEF NeedBounded
<1>5. NodeOwnership
  BY <1>p, <1>e DEF NodeOwnership, IsLinked, OneNodeEach
<1>6. NoLostWakeup
  BY <1>p, <1>e DEF NoLostWakeup
<1> QED BY <1>1, <1>2, <1>3, <1>4, <1>5, <1>6 DEF IInv

LEMMA StepLock ==
    ASSUME TypeOK, LockOwnership, NEW t \in Tasks, Call(t) \/ Step(t) \/ Future(t)
    PROVE  LockOwnership'
<1>a. pc \in [Tasks -> PCs] /\ lock \in Tasks \cup {Free} /\ seen \in [Tasks -> Nat] /\ req \in [Tasks -> Nat] /\ avail \in Nat
  BY DEF TypeOK
<1> USE <1>a DEF LockOwnership, LockedPCs, PCs
<1>1. ASSUME NEW n \in Amounts, Acquire(t, n) PROVE LockOwnership'
  BY <1>1 DEF Acquire
<1>2. ASSUME NEW n \in Amounts, ReducePermits(t, n) PROVE LockOwnership'
  BY <1>2 DEF ReducePermits
<1>3. ASSUME NEW n \in Amounts, TryAcquireLoad(t, n) PROVE LockOwnership'
  BY <1>3 DEF TryAcquireLoad
<1>4. ASSUME NEW n \in Amounts, DrainLoad(t, n) PROVE LockOwnership'
  BY <1>4 DEF DrainLoad
<1>5. ASSUME NEW n \in Amounts, Release(t, n) PROVE LockOwnership'
  BY <1>5 DEF Release
<1>6. ASSUME NEW n \in Amounts, AddPermits(t, n) PROVE LockOwnership'
  BY <1>6 DEF AddPermits
<1>7. ASSUME NEW n \in Amounts, ReleaseIfWaiters(t, n) PROVE LockOwnership'
  BY <1>7 DEF ReleaseIfWaiters
<1>8. CASE NotifyAll(t)
  BY <1>8 DEF NotifyAll
<1>9. CASE Load(t)
  BY <1>9 DEF Load
<1>10. CASE LockQueue(t)
  BY <1>10 DEF LockQueue
<1>11. CASE CasFails(t)
  BY <1>11 DEF CasFails
<1>12. CASE CasTakesAll(t)
  BY <1>12 DEF CasTakesAll
<1>13. CASE CasTakesSome(t)
  BY <1>13 DEF CasTakesSome
<1>14. CASE Enqueue(t)
  BY <1>14 DEF Enqueue
<1>15. CASE TryAcquireCas(t)
  BY <1>15 DEF TryAcquireCas
<1>16. CASE DrainCas(t)
  BY <1>16 DEF DrainCas
<1>17. CASE ReleaseLoad(t)
  BY <1>17 DEF ReleaseLoad
<1>18. CASE ReleaseCas(t)
  BY <1>18 DEF ReleaseCas
<1>19. CASE DistributeLock(t)
  BY <1>19 DEF DistributeLock
<1>20. CASE DistributeAssign(t)
  BY <1>20 DEF DistributeAssign
<1>21. CASE DistributeSurplus(t)
  BY <1>21 DEF DistributeSurplus
<1>22. CASE DistributeFetchAdd(t)
  BY <1>22 DEF DistributeFetchAdd
<1>23. CASE DistributeCas(t)
  BY <1>23 DEF DistributeCas
<1>24. CASE DistributeUnlock(t)
  BY <1>24 DEF DistributeUnlock
<1>25. CASE DistributeWake(t)
  BY <1>25 DEF DistributeWake
<1>26. CASE NotifyAllDetach(t)
  BY <1>26 DEF NotifyAllDetach
<1>27. CASE NotifyAllUnlock(t)
  BY <1>27 DEF NotifyAllUnlock
<1>28. CASE PollReady(t)
  BY <1>28 DEF PollReady
<1>29. CASE PollPending(t)
  BY <1>29 DEF PollPending
<1>30. CASE DropAcquire(t)
  BY <1>30 DEF DropAcquire
<1> QED BY <1>1, <1>2, <1>3, <1>4, <1>5, <1>6, <1>7, <1>8, <1>9, <1>10, <1>11, <1>12, <1>13, <1>14, <1>15, <1>16, <1>17, <1>18, <1>19, <1>20, <1>21, <1>22, <1>23, <1>24, <1>25, <1>26, <1>27, <1>28, <1>29, <1>30 DEF Call, Step, Future

LEMMA LinkedNodeType ==
    ASSUME TypeOK
    PROVE  /\ \A x \in ToSet(queue) : /\ x \in Node
                                      /\ x.owner \in Tasks \cup {Debt}
                                      /\ x.needed \in Nat \ {0}
           /\ \A i \in 1..Len(queue) : queue[i] \in ToSet(queue)
<1>1. queue \in Seq(Node)
  BY DEF TypeOK
<1>2. ToSet(queue) \subseteq Node
  BY <1>1, ToSetElements
<1>3. \A x \in Node : x.owner \in Tasks \cup {Debt} /\ x.needed \in Nat \ {0}
  BY DEF Node
<1>4. \A i \in 1..Len(queue) : queue[i] \in ToSet(queue)
  BY <1>1, ToSetElements
<1> QED BY <1>2, <1>3, <1>4

\* A pending acquisition that is not fully assigned is linked at Position(t).
LEMMA PositionOfPending ==
    ASSUME TypeOK, NodeOwnership, NEW t \in Tasks, pc[t] = "pending", t \notin granted
    PROVE  /\ Position(t) \in 1..Len(queue)
           /\ queue[Position(t)].owner = t
           /\ queue # <<>>
<1>1. queue \in Seq(Node) /\ DOMAIN queue = 1..Len(queue)
  BY DEF TypeOK
<1>2. \E i \in DOMAIN queue : queue[i].owner = t
  BY <1>1, ToSetElements DEF NodeOwnership, IsLinked
<1>3. Position(t) \in DOMAIN queue /\ queue[Position(t)].owner = t
  BY <1>2 DEF Position
<1> QED BY <1>1, <1>3

LEMMA StepCounter ==
    ASSUME TypeOK, LockOwnership, CounterDiscipline, NodeOwnership, NEW t \in Tasks, Call(t) \/ Step(t) \/ Future(t)
    PROVE  CounterDiscipline'
<1>a. /\ pc \in [Tasks -> PCs] /\ avail \in Nat /\ lock \in Tasks \cup {Free}
      /\ seen \in [Tasks -> Nat] /\ req \in [Tasks -> Nat] /\ rem \in [Tasks -> Nat]
      /\ queue \in Seq(Node)
  BY DEF TypeOK
<1> USE <1>a DEF LockOwnership, LockedPCs, PCs, CounterDiscipline, NoPermitsPastQueue, FetchAddFromZero, DetachFirst
<1>1. ASSUME NEW n \in Amounts, Acquire(t, n) PROVE CounterDiscipline'
  BY <1>1 DEF Acquire
<1>2. ASSUME NEW n \in Amounts, ReducePermits(t, n) PROVE CounterDiscipline'
  BY <1>2 DEF ReducePermits
<1>3. ASSUME NEW n \in Amounts, TryAcquireLoad(t, n) PROVE CounterDiscipline'
  BY <1>3 DEF TryAcquireLoad
<1>4. ASSUME NEW n \in Amounts, DrainLoad(t, n) PROVE CounterDiscipline'
  BY <1>4 DEF DrainLoad
<1>5. ASSUME NEW n \in Amounts, Release(t, n) PROVE CounterDiscipline'
  BY <1>5 DEF Release
<1>6. ASSUME NEW n \in Amounts, AddPermits(t, n) PROVE CounterDiscipline'
  BY <1>6 DEF AddPermits
<1>7. ASSUME NEW n \in Amounts, ReleaseIfWaiters(t, n) PROVE CounterDiscipline'
  BY <1>7 DEF ReleaseIfWaiters
<1>8. CASE NotifyAll(t)
  BY <1>8 DEF NotifyAll
<1>9. CASE Load(t)
  BY <1>9 DEF Load
<1>10. CASE LockQueue(t)
  BY <1>10 DEF LockQueue
<1>11. CASE CasFails(t)
  BY <1>11 DEF CasFails
<1>12. CASE CasTakesAll(t)
  BY <1>12 DEF CasTakesAll
<1>13. CASE CasTakesSome(t)
  BY <1>13 DEF CasTakesSome
<1>14. CASE Enqueue(t)
  BY <1>14 DEF Enqueue
<1>15. CASE TryAcquireCas(t)
  <2>1. avail = 0 => avail' = 0
    BY <1>15 DEF TryAcquireCas
  <2>2. /\ UNCHANGED <<queue, lock>>
        /\ \A u \in Tasks : pc'[u] # "idle" => pc'[u] = pc[u] /\ req'[u] = req[u]
        /\ \A u \in Tasks : pc'[u] \in {"push", "relCas"} => seen'[u] = seen[u]
    BY <1>15 DEF TryAcquireCas
  <2>3. \A u \in Tasks : pc'[u] = "tryCas" => req'[u] <= seen'[u]
    BY <1>15 DEF TryAcquireCas
  <2> QED BY <2>1, <2>2, <2>3
<1>16. CASE DrainCas(t)
  <2>1. avail = 0 => avail' = 0
    BY <1>16 DEF DrainCas
  <2>2. /\ UNCHANGED <<queue, lock>>
        /\ \A u \in Tasks : pc'[u] # "idle" => pc'[u] = pc[u] /\ req'[u] = req[u]
        /\ \A u \in Tasks : pc'[u] \in {"push", "relCas", "tryCas"} => seen'[u] = seen[u]
    BY <1>16 DEF DrainCas
  <2> QED BY <2>1, <2>2
<1>17. CASE ReleaseLoad(t)
  BY <1>17 DEF ReleaseLoad
<1>18. CASE ReleaseCas(t)
  BY <1>18 DEF ReleaseCas
<1>19. CASE DistributeLock(t)
  BY <1>19 DEF DistributeLock
<1>20. CASE DistributeAssign(t)
  BY <1>20 DEF DistributeAssign
<1>21. CASE DistributeSurplus(t)
  BY <1>21 DEF DistributeSurplus
<1>22. CASE DistributeFetchAdd(t)
  BY <1>22 DEF DistributeFetchAdd
<1>23. CASE DistributeCas(t)
  BY <1>23 DEF DistributeCas
<1>24. CASE DistributeUnlock(t)
  BY <1>24 DEF DistributeUnlock
<1>25. CASE DistributeWake(t)
  BY <1>25 DEF DistributeWake
<1>26. CASE NotifyAllDetach(t)
  BY <1>26 DEF NotifyAllDetach
<1>27. CASE NotifyAllUnlock(t)
  BY <1>27 DEF NotifyAllUnlock
<1>28. CASE PollReady(t)
  BY <1>28 DEF PollReady
<1>29. CASE PollPending(t)
  BY <1>29 DEF PollPending
<1>30. CASE DropAcquire(t)
  <2>1. queue' # <<>> => queue # <<>>
    BY <1>30, PositionOfPending DEF DropAcquire
  <2>2. /\ UNCHANGED <<avail, seen>> /\ lock = Free
        /\ \A u \in Tasks : pc'[u] \in {"push", "dadd", "dcas", "relCas", "tryCas"}
                            => pc'[u] = pc[u] /\ req'[u] = req[u]
    BY <1>30 DEF DropAcquire
  <2> QED BY <2>1, <2>2
<1> QED BY <1>1, <1>2, <1>3, <1>4, <1>5, <1>6, <1>7, <1>8, <1>9, <1>10, <1>11, <1>12, <1>13, <1>14, <1>15, <1>16, <1>17, <1>18, <1>19, <1>20, <1>21, <1>22, <1>23, <1>24, <1>25, <1>26, <1>27, <1>28, <1>29, <1>30 DEF Call, Step, Future

LEMMA StepWakeup ==
    ASSUME TypeOK, NodeOwnership, NoLostWakeup, NEW t \in Tasks, Call(t) \/ Step(t) \/ Future(t)
    PROVE  NoLostWakeup'
<1>a. /\ pc \in [Tasks -> PCs] /\ granted \subseteq Tasks /\ woken \subseteq Tasks
      /\ batch \in [Tasks -> SUBSET Tasks]
      /\ queue \in Seq(Node) /\ \A u \in granted : pc[u] = "pending"
  BY DEF TypeOK, NodeOwnership
<1> USE <1>a DEF NoLostWakeup, PCs, DetachFirst, Node
<1>1. ASSUME NEW n \in Amounts, Acquire(t, n) PROVE NoLostWakeup'
  BY <1>1 DEF Acquire
<1>2. ASSUME NEW n \in Amounts, ReducePermits(t, n) PROVE NoLostWakeup'
  BY <1>2 DEF ReducePermits
<1>3. ASSUME NEW n \in Amounts, TryAcquireLoad(t, n) PROVE NoLostWakeup'
  BY <1>3 DEF TryAcquireLoad
<1>4. ASSUME NEW n \in Amounts, DrainLoad(t, n) PROVE NoLostWakeup'
  BY <1>4 DEF DrainLoad
<1>5. ASSUME NEW n \in Amounts, Release(t, n) PROVE NoLostWakeup'
  BY <1>5 DEF Release
<1>6. ASSUME NEW n \in Amounts, AddPermits(t, n) PROVE NoLostWakeup'
  BY <1>6 DEF AddPermits
<1>7. ASSUME NEW n \in Amounts, ReleaseIfWaiters(t, n) PROVE NoLostWakeup'
  BY <1>7 DEF ReleaseIfWaiters
<1>8. CASE NotifyAll(t)
  BY <1>8 DEF NotifyAll
<1>9. CASE Load(t)
  BY <1>9 DEF Load
<1>10. CASE LockQueue(t)
  BY <1>10 DEF LockQueue
<1>11. CASE CasFails(t)
  BY <1>11 DEF CasFails
<1>12. CASE CasTakesAll(t)
  BY <1>12 DEF CasTakesAll
<1>13. CASE CasTakesSome(t)
  BY <1>13 DEF CasTakesSome
<1>14. CASE Enqueue(t)
  BY <1>14 DEF Enqueue
<1>15. CASE TryAcquireCas(t)
  BY <1>15 DEF TryAcquireCas
<1>16. CASE DrainCas(t)
  BY <1>16 DEF DrainCas
<1>17. CASE ReleaseLoad(t)
  BY <1>17 DEF ReleaseLoad
<1>18. CASE ReleaseCas(t)
  BY <1>18 DEF ReleaseCas
<1>19. CASE DistributeLock(t)
  BY <1>19 DEF DistributeLock
<1>20. CASE DistributeAssign(t)
  BY <1>20 DEF DistributeAssign
<1>21. CASE DistributeSurplus(t)
  BY <1>21 DEF DistributeSurplus
<1>22. CASE DistributeFetchAdd(t)
  BY <1>22 DEF DistributeFetchAdd
<1>23. CASE DistributeCas(t)
  BY <1>23 DEF DistributeCas
<1>24. CASE DistributeUnlock(t)
  BY <1>24 DEF DistributeUnlock
<1>25. CASE DistributeWake(t)
  BY <1>25 DEF DistributeWake
<1>26. CASE NotifyAllDetach(t)
  BY <1>26 DEF NotifyAllDetach
<1>27. CASE NotifyAllUnlock(t)
  BY <1>27 DEF NotifyAllUnlock
<1>28. CASE PollReady(t)
  BY <1>28 DEF PollReady
<1>29. CASE PollPending(t)
  BY <1>29 DEF PollPending
<1>30. CASE DropAcquire(t)
  BY <1>30 DEF DropAcquire
<1> QED BY <1>1, <1>2, <1>3, <1>4, <1>5, <1>6, <1>7, <1>8, <1>9, <1>10, <1>11, <1>12, <1>13, <1>14, <1>15, <1>16, <1>17, <1>18, <1>19, <1>20, <1>21, <1>22, <1>23, <1>24, <1>25, <1>26, <1>27, <1>28, <1>29, <1>30 DEF Call, Step, Future

\* Linking a task that has no node, linking a debt and unlinking all keep at
\* most one node per task.
LEMMA OneNodeAppend ==
    ASSUME NEW s \in Seq(Node), OneNodeEach(s), NEW node \in Node,
           \A x \in ToSet(s) : x.owner # node.owner
    PROVE  OneNodeEach(Append(s, node))
<1> DEFINE r == Append(s, node)
<1>1. /\ r \in Seq(Node) /\ Len(s) \in Nat /\ Len(r) = Len(s) + 1
      /\ r[Len(s) + 1] = node
      /\ \A i \in 1..Len(s) : r[i] = s[i] /\ s[i].owner # node.owner
  BY ToSetElements
<1> HIDE DEF r
<1>2. ASSUME NEW i \in 1..Len(r), NEW j \in 1..Len(r),
             r[i].owner = r[j].owner, r[i].owner # Debt
      PROVE  i = j
  <2>1. CASE i = Len(s) + 1 \/ j = Len(s) + 1
    BY <1>1, <1>2, <2>1
  <2>2. CASE i \in 1..Len(s) /\ j \in 1..Len(s)
    BY <1>1, <1>2, <2>2 DEF OneNodeEach
  <2> QED BY <1>1, <2>1, <2>2
<1> QED BY <1>2 DEF OneNodeEach, r

LEMMA OneNodePushDebt ==
    ASSUME NEW s \in Seq(Node), OneNodeEach(s), NEW node \in Node, node.owner = Debt
    PROVE  OneNodeEach(<<node>> \o s)
<1> DEFINE r == <<node>> \o s
<1>1. /\ r \in Seq(Node) /\ Len(s) \in Nat /\ Len(r) = Len(s) + 1
      /\ r[1] = node
      /\ \A i \in 2..(Len(s) + 1) : r[i] = s[i - 1]
  OBVIOUS
<1> HIDE DEF r
<1>2. ASSUME NEW i \in 1..Len(r), NEW j \in 1..Len(r),
             r[i].owner = r[j].owner, r[i].owner # Debt
      PROVE  i = j
  <2>1. i # 1 /\ j # 1
    BY <1>1, <1>2
  <2>2. i - 1 \in 1..Len(s) /\ j - 1 \in 1..Len(s) /\ r[i] = s[i - 1] /\ r[j] = s[j - 1]
    BY <1>1, <2>1
  <2>3. i - 1 = j - 1
    BY <1>2, <2>2 DEF OneNodeEach
  <2> QED BY <1>1, <2>3
<1> QED BY <1>2 DEF OneNodeEach, r

LEMMA OneNodeTail ==
    ASSUME NEW s \in Seq(Node), OneNodeEach(s), s # <<>>
    PROVE  /\ OneNodeEach(Tail(s))
           /\ \A x \in ToSet(Tail(s)) : x.owner = Head(s).owner => x.owner = Debt
<1> DEFINE r == Tail(s)
<1>1. /\ r \in Seq(Node) /\ Len(s) \in Nat /\ Len(r) = Len(s) - 1
      /\ Head(s) = s[1] /\ 1 \in 1..Len(s)
      /\ \A i \in 1..Len(r) : r[i] = s[i + 1] /\ i + 1 \in 1..Len(s)
  OBVIOUS
<1> HIDE DEF r
<1>2. ASSUME NEW i \in 1..Len(r), NEW j \in 1..Len(r),
             r[i].owner = r[j].owner, r[i].owner # Debt
      PROVE  i = j
  <2>1. i + 1 = j + 1
    BY <1>1, <1>2 DEF OneNodeEach
  <2> QED BY <1>1, <2>1
<1>3. ASSUME NEW x \in ToSet(r), x.owner = Head(s).owner PROVE x.owner = Debt
  <2>1. PICK i \in 1..Len(r) : r[i] = x
    BY <1>1, ToSetElements
  <2>2. i + 1 # 1
    BY <1>1
  <2> QED BY <1>1, <1>3, <2>1, <2>2 DEF OneNodeEach
<1> QED BY <1>2, <1>3 DEF OneNodeEach, r

LEMMA OneNodeRemoveAt ==
    ASSUME NEW s \in Seq(Node), OneNodeEach(s), NEW p \in 1..Len(s), s[p].owner # Debt
    PROVE  /\ OneNodeEach(RemoveAt(s, p))
           /\ \A x \in ToSet(RemoveAt(s, p)) : x.owner # s[p].owner
<1> DEFINE r == RemoveAt(s, p)
           at(i) == IF i < p THEN i ELSE i + 1
<1>1. /\ r \in Seq(Node) /\ Len(s) \in Nat /\ Len(r) = Len(s) - 1
      /\ \A i \in 1..(Len(s) - 1) : r[i] = IF i < p THEN s[i] ELSE s[i + 1]
  BY RemoveAtProperties, LenProperties
<1> HIDE DEF r
<1>2. \A i \in 1..Len(r) : r[i] = s[at(i)] /\ at(i) \in 1..Len(s) /\ at(i) # p
  BY <1>1
<1>3. \A i, j \in 1..Len(r) : at(i) = at(j) => i = j
  BY <1>1
<1> HIDE DEF at
<1>4. OneNodeEach(r)
  BY <1>2, <1>3 DEF OneNodeEach
<1>5. ASSUME NEW x \in ToSet(r) PROVE x.owner # s[p].owner
  <2>1. PICK i \in 1..Len(r) : r[i] = x
    BY <1>1, ToSetElements
  <2> QED BY <1>2, <2>1 DEF OneNodeEach
<1> QED BY <1>4, <1>5 DEF r

\* What a step that leaves the nodes alone preserves.
LEMMA NodeFrame ==
    ASSUME NodeOwnership, NeedBounded, TypeOK, UNCHANGED <<queue, granted>>,
           \A u \in Tasks : pc'[u] = "pending" <=> pc[u] = "pending",
           \A u \in Tasks : pc[u] = "pending" => req'[u] = req[u]
    PROVE  NodeOwnership' /\ NeedBounded'
<1>1. NodeOwnership'
  BY DEF NodeOwnership, IsLinked
<1>2. ASSUME NEW x \in ToSet(queue), x.owner # Debt
      PROVE  x.needed <= req'[x.owner]
  <2>1. x.owner \in Tasks
    BY <1>2, LinkedNodeType
  <2>2. pc[x.owner] = "pending"
    BY <2>1 DEF NodeOwnership, IsLinked
  <2> QED BY <1>2, <2>1, <2>2 DEF NeedBounded
<1> QED BY <1>1, <1>2 DEF NeedBounded

\* Detaching the first node moves its owner from the queue to granted.
LEMMA DetachNodes ==
    ASSUME TypeOK, NodeOwnership, NeedBounded, NEW t \in Tasks, queue # <<>>,
           DetachFirst(t), UNCHANGED <<pc, req>>
    PROVE  NodeOwnership' /\ NeedBounded'
<1> DEFINE o == Head(queue).owner
<1>1. /\ queue \in Seq(Node) /\ queue' = Tail(queue)
      /\ granted' = granted \cup ({o} \ {Debt})
      /\ granted \subseteq Tasks
  BY DEF TypeOK, DetachFirst
<1>2. ToSet(queue) = {Head(queue)} \cup ToSet(queue')
  BY <1>1, ToSetTail
<1>3. OneNodeEach(queue') /\ \A x \in ToSet(queue') : x.owner = o => x.owner = Debt
  BY <1>1, OneNodeTail DEF NodeOwnership
<1>4. o \in Tasks \/ o = Debt
  BY <1>1, <1>2, LinkedNodeType
<1>5. \A u \in Tasks : (IsLinked(u) <=> u = o \/ IsLinked(u)')
  BY <1>2 DEF IsLinked
<1> HIDE DEF o
<1>6. \A u \in Tasks : u = o => ~IsLinked(u)'
  BY <1>3 DEF IsLinked
<1>7. NodeOwnership'
  BY <1>1, <1>3, <1>4, <1>5, <1>6 DEF NodeOwnership
<1>8. NeedBounded'
  BY <1>2 DEF NeedBounded
<1> QED BY <1>7, <1>8

LEMMA StepNodes ==
    ASSUME IInv, NEW t \in Tasks, Call(t) \/ Step(t) \/ Future(t)
    PROVE  NodeOwnership' /\ NeedBounded'
<1>a. /\ TypeOK /\ NodeOwnership /\ NeedBounded
      /\ pc \in [Tasks -> PCs] /\ op \in [Tasks -> {"acquire", "reduce"}]
      /\ req \in [Tasks -> Nat] /\ seen \in [Tasks -> Nat] /\ rem \in [Tasks -> Nat]
      /\ granted \subseteq Tasks /\ queue \in Seq(Node)
  BY DEF IInv, TypeOK
<1>1. ASSUME NEW n \in Amounts, Acquire(t, n) PROVE NodeOwnership' /\ NeedBounded'
  BY <1>a, <1>1, NodeFrame DEF Acquire
<1>2. ASSUME NEW n \in Amounts, ReducePermits(t, n) PROVE NodeOwnership' /\ NeedBounded'
  BY <1>a, <1>2, NodeFrame DEF ReducePermits
<1>3. ASSUME NEW n \in Amounts, TryAcquireLoad(t, n) PROVE NodeOwnership' /\ NeedBounded'
  BY <1>a, <1>3, NodeFrame DEF TryAcquireLoad
<1>4. ASSUME NEW n \in Amounts, DrainLoad(t, n) PROVE NodeOwnership' /\ NeedBounded'
  BY <1>a, <1>4, NodeFrame DEF DrainLoad
<1>5. ASSUME NEW n \in Amounts, Release(t, n) PROVE NodeOwnership' /\ NeedBounded'
  BY <1>a, <1>5, NodeFrame DEF Release
<1>6. ASSUME NEW n \in Amounts, AddPermits(t, n) PROVE NodeOwnership' /\ NeedBounded'
  BY <1>a, <1>6, NodeFrame DEF AddPermits
<1>7. ASSUME NEW n \in Amounts, ReleaseIfWaiters(t, n) PROVE NodeOwnership' /\ NeedBounded'
  BY <1>a, <1>7, NodeFrame DEF ReleaseIfWaiters
<1>8. CASE NotifyAll(t)
  BY <1>a, <1>8, NodeFrame DEF NotifyAll
<1>9. CASE Load(t)
  BY <1>a, <1>9, NodeFrame DEF Load
<1>10. CASE LockQueue(t)
  BY <1>a, <1>10, NodeFrame DEF LockQueue
<1>11. CASE CasFails(t)
  BY <1>a, <1>11, NodeFrame DEF CasFails
<1>12. CASE CasTakesAll(t)
  BY <1>a, <1>12, NodeFrame DEF CasTakesAll
<1>13. CASE CasTakesSome(t)
  BY <1>a, <1>13, NodeFrame DEF CasTakesSome
<1>14. CASE Enqueue(t)
  <2> DEFINE n == [owner |-> IF op[t] = "acquire" THEN t ELSE Debt, needed |-> req[t] - seen[t]]
  <2>1. t \notin granted /\ ~IsLinked(t)
    BY <1>a, <1>14 DEF Enqueue, NodeOwnership
  <2>2. n \in Node /\ n.needed <= req[t]
    BY <1>a, <1>14 DEF Enqueue, IInv, CounterDiscipline, Node
  <2>3. CASE op[t] = "acquire"
    <3>1. queue' = Append(queue, n) /\ n.owner = t
      BY <1>14, <2>3 DEF Enqueue
    <3> HIDE DEF n
    <3>2. ToSet(queue') = ToSet(queue) \cup {n}
      BY <1>a, <2>2, <3>1, ToSetAppend
    <3>3. OneNodeEach(queue')
      BY <1>a, <2>1, <2>2, <3>1, OneNodeAppend DEF NodeOwnership, IsLinked
    <3>4. granted' = granted /\ pc' = [pc EXCEPT ![t] = "pending"] /\ req' = req
      BY <1>14, <2>3 DEF Enqueue
    <3>5. \A u \in Tasks : (IsLinked(u)' <=> u = t \/ IsLinked(u))
      BY <3>1, <3>2 DEF IsLinked
    <3>6. NeedBounded'
      BY <1>a, <2>2, <3>1, <3>2, <3>4 DEF NeedBounded
    <3> QED BY <1>a, <2>1, <3>3, <3>4, <3>5, <3>6 DEF NodeOwnership
  <2>4. CASE op[t] = "reduce"
    <3>1. queue' = <<n>> \o queue /\ n.owner = Debt
      BY <1>14, <2>4 DEF Enqueue
    <3> HIDE DEF n
    <3>2. ToSet(queue') = ToSet(queue) \cup {n}
      <4> DEFINE s == <<n>>
      <4>1. s \in Seq(Node) /\ ToSet(s) = {n}
        BY <2>2 DEF ToSet
      <4> HIDE DEF s
      <4>2. ToSet(s \o queue) = ToSet(s) \cup ToSet(queue)
        BY <1>a, <4>1, ToSetConcat
      <4> QED BY <3>1, <4>1, <4>2 DEF s
    <3>3. OneNodeEach(queue')
      BY <1>a, <2>2, <3>1, OneNodePushDebt DEF NodeOwnership
    <3>4. granted' = granted /\ pc' = [pc EXCEPT ![t] = "idle"] /\ req' = [req EXCEPT ![t] = 0]
      BY <1>14, <2>4 DEF Enqueue
    <3>5. \A u \in Tasks : (IsLinked(u)' <=> IsLinked(u))
      BY <3>1, <3>2 DEF IsLinked
    <3>6. ASSUME NEW x \in ToSet(queue'), x.owner # Debt PROVE x.needed <= req'[x.owner]
      <4>1. x \in ToSet(queue) /\ x.owner \in Tasks /\ x.owner # t
        BY <1>a, <2>1, <3>1, <3>2, <3>6, LinkedNodeType DEF IsLinked
      <4> QED BY <1>a, <3>4, <3>6, <4>1 DEF NeedBounded
    <3>7. pc[t] # "pending"
      BY <1>14 DEF Enqueue
    <3> QED BY <1>a, <2>1, <3>3, <3>4, <3>5, <3>6, <3>7 DEF NodeOwnership, NeedBounded
  <2> QED BY <1>a, <2>3, <2>4
<1>15. CASE TryAcquireCas(t)
  BY <1>a, <1>15, NodeFrame DEF TryAcquireCas
<1>16. CASE DrainCas(t)
  BY <1>a, <1>16, NodeFrame DEF DrainCas
<1>17. CASE ReleaseLoad(t)
  BY <1>a, <1>17, NodeFrame DEF ReleaseLoad
<1>18. CASE ReleaseCas(t)
  BY <1>a, <1>18, NodeFrame DEF ReleaseCas
<1>19. CASE DistributeLock(t)
  BY <1>a, <1>19, NodeFrame DEF DistributeLock
<1>20. CASE DistributeAssign(t)
  <2>1. CASE DetachFirst(t)
    BY <1>a, <1>20, <2>1, DetachNodes DEF DistributeAssign
  <2>2. CASE /\ queue' = [queue EXCEPT ![1].needed = @ - rem[t]]
             /\ granted' = granted
    <3>1. UNCHANGED <<pc, req>> /\ queue # <<>>
      BY <1>20 DEF DistributeAssign
    <3> DEFINE first == [queue[1] EXCEPT !.needed = @ - rem[t]]
    <3>e. queue' = [queue EXCEPT ![1] = first]
      BY <2>2
    <3>d. DOMAIN queue = 1..Len(queue) /\ Len(queue) \in Nat /\ 1 \in 1..Len(queue)
      BY <1>a, <3>1
    <3> HIDE DEF first
    <3>2. /\ Len(queue') = Len(queue) /\ DOMAIN queue' = 1..Len(queue)
          /\ queue'[1] = first
          /\ \A i \in 2..Len(queue) : queue'[i] = queue[i]
      BY <1>a, <3>d, <3>e, ExceptSeq
    <3>n. \A i \in 1..Len(queue) : queue[i] \in Node
      BY <1>a, LinkedNodeType
    <3>r. /\ queue'[1].owner = queue[1].owner
          /\ queue'[1].needed = queue[1].needed - rem[t]
      BY <3>2, <3>d, <3>n DEF Node, first
    <3>o. ASSUME NEW i \in 1..Len(queue)
          PROVE  /\ queue'[i].owner = queue[i].owner
                 /\ queue'[i].needed \in Int
                 /\ queue'[i].needed <= queue[i].needed
      <4>1. queue[i].needed \in Nat
        BY <3>n DEF Node
      <4>2. CASE i = 1
        BY <1>a, <3>r, <4>1, <4>2
      <4>3. CASE i \in 2..Len(queue)
        BY <3>2, <4>1, <4>3
      <4> QED BY <3>d, <4>2, <4>3
    <3>3. OneNodeEach(queue')
      BY <1>a, <3>2, <3>d, <3>o DEF NodeOwnership, OneNodeEach
    <3>4. \A u \in Tasks : (IsLinked(u)' <=> IsLinked(u))
      BY <3>2, <3>d, <3>o DEF IsLinked, ToSet
    <3>5. NodeOwnership'
      BY <1>a, <2>2, <3>1, <3>3, <3>4 DEF NodeOwnership
    <3>6. ASSUME NEW x \in ToSet(queue'), x.owner # Debt PROVE x.needed <= req'[x.owner]
      <4>1. PICK i \in 1..Len(queue) : x = queue'[i]
        BY <3>2 DEF ToSet
      <4>2. queue[i] \in ToSet(queue) /\ queue[i].owner = x.owner
        BY <3>2, <3>d, <3>o, <4>1 DEF ToSet
      <4>3. x.owner \in Tasks /\ queue[i].needed <= req[x.owner] /\ queue[i].needed \in Nat
        BY <1>a, <3>6, <4>2, LinkedNodeType DEF NeedBounded
      <4>4. x.needed <= queue[i].needed /\ x.needed \in Int
        BY <3>o, <4>1
      <4> QED BY <1>a, <3>1, <4>3, <4>4
    <3> QED BY <3>5, <3>6 DEF NeedBounded
  <2> QED BY <1>20, <2>1, <2>2 DEF DistributeAssign
<1>21. CASE DistributeSurplus(t)
  BY <1>a, <1>21, NodeFrame DEF DistributeSurplus
<1>22. CASE DistributeFetchAdd(t)
  BY <1>a, <1>22, NodeFrame DEF DistributeFetchAdd
<1>23. CASE DistributeCas(t)
  BY <1>a, <1>23, NodeFrame DEF DistributeCas
<1>24. CASE DistributeUnlock(t)
  BY <1>a, <1>24, NodeFrame DEF DistributeUnlock
<1>25. CASE DistributeWake(t)
  BY <1>a, <1>25, NodeFrame DEF DistributeWake
<1>26. CASE NotifyAllDetach(t)
  BY <1>a, <1>26, DetachNodes DEF NotifyAllDetach
<1>27. CASE NotifyAllUnlock(t)
  BY <1>a, <1>27, NodeFrame DEF NotifyAllUnlock
<1>28. CASE PollReady(t)
  BY <1>a, <1>28 DEF PollReady, NodeOwnership, NeedBounded, IsLinked, Node
<1>29. CASE PollPending(t)
  BY <1>a, <1>29, NodeFrame DEF PollPending
<1>30. CASE DropAcquire(t)
  <2>1. CASE t \in granted
    BY <1>a, <1>30, <2>1 DEF DropAcquire, NodeOwnership, NeedBounded, IsLinked, Node, Assigned, Outstanding
  <2>2. CASE t \notin granted
    <3> DEFINE p == Position(t)
    <3>1. p \in 1..Len(queue) /\ queue[p].owner = t
      BY <1>a, <1>30, <2>2, PositionOfPending DEF DropAcquire
    <3>2. queue' = RemoveAt(queue, p) /\ granted' = granted
      BY <1>a, <1>30, <2>2 DEF DropAcquire
    <3> HIDE DEF p
    <3>3. /\ ToSet(queue') \subseteq ToSet(queue)
          /\ \A x \in ToSet(queue) : x # queue[p] => x \in ToSet(queue')
      BY <1>a, <3>1, <3>2, ToSetRemoveAt
    <3>4. OneNodeEach(queue') /\ \A x \in ToSet(queue') : x.owner # t
      BY <1>a, <3>1, <3>2, OneNodeRemoveAt DEF NodeOwnership
    <3>5. /\ pc'[t] # "pending"
          /\ \A u \in Tasks \ {t} : pc'[u] = pc[u] /\ req'[u] = req[u]
      BY <1>a, <1>30 DEF DropAcquire
    <3>6. ~IsLinked(t)' /\ \A u \in Tasks \ {t} : (IsLinked(u)' <=> IsLinked(u))
      BY <3>1, <3>3, <3>4 DEF IsLinked
    <3>7. NodeOwnership'
      BY <1>a, <2>2, <3>2, <3>4, <3>5, <3>6 DEF NodeOwnership
    <3>8. \A x \in ToSet(queue') : x.owner \in Tasks \cup {Debt}
      BY <1>a, <3>3, LinkedNodeType
    <3>9. NeedBounded'
      BY <1>a, <3>3, <3>4, <3>5, <3>8 DEF NeedBounded
    <3> QED BY <3>7, <3>9
  <2> QED BY <2>1, <2>2
<1> QED BY <1>1, <1>2, <1>3, <1>4, <1>5, <1>6, <1>7, <1>8, <1>9, <1>10, <1>11, <1>12, <1>13, <1>14, <1>15, <1>16, <1>17, <1>18, <1>19, <1>20, <1>21, <1>22, <1>23, <1>24, <1>25, <1>26, <1>27, <1>28, <1>29, <1>30 DEF Call, Step, Future

LEMMA DetachType ==
    ASSUME TypeOK, queue # <<>>, NEW t \in Tasks, DetachFirst(t)
    PROVE  /\ queue' \in Seq(Node) /\ granted' \subseteq Tasks
           /\ batch' \in [Tasks -> SUBSET Tasks]
<1>1. queue \in Seq(Node) /\ queue' = Tail(queue) /\ 1 \in 1..Len(queue) /\ Head(queue) = queue[1]
  BY DEF TypeOK, DetachFirst
<1>2. Head(queue).owner \in Tasks \cup {Debt}
  BY <1>1, LinkedNodeType
<1> QED BY <1>1, <1>2 DEF TypeOK, DetachFirst

LEMMA ReturnType ==
    ASSUME TypeOK, NEW t \in Tasks, Return(t)
    PROVE  /\ pc' \in [Tasks -> PCs] /\ op' \in [Tasks -> {"acquire", "reduce"}]
           /\ req' \in [Tasks -> Nat] /\ seen' \in [Tasks -> Nat]
BY DEF TypeOK, PCs

LEMMA StepType ==
    ASSUME IInv, NEW t \in Tasks, Call(t) \/ Step(t) \/ Future(t)
    PROVE  TypeOK'
<1>a. TypeOK /\ CounterDiscipline
  BY DEF IInv
<1>p. pc \in [Tasks -> PCs] /\ op \in [Tasks -> {"acquire", "reduce"}]
  BY <1>a DEF TypeOK
<1>n. /\ req \in [Tasks -> Nat] /\ seen \in [Tasks -> Nat] /\ rem \in [Tasks -> Nat]
      /\ held \in [Tasks -> Nat] /\ avail \in Nat /\ lock \in Tasks \cup {Free}
  BY <1>a DEF TypeOK
<1>1. ASSUME NEW n \in Amounts, Acquire(t, n) PROVE TypeOK'
  BY <1>a, <1>1 DEF Acquire, TypeOK, PCs
<1>2. ASSUME NEW n \in Amounts, ReducePermits(t, n) PROVE TypeOK'
  BY <1>a, <1>2 DEF ReducePermits, TypeOK, PCs
<1>3. ASSUME NEW n \in Amounts, TryAcquireLoad(t, n) PROVE TypeOK'
  BY <1>a, <1>3 DEF TryAcquireLoad, TypeOK, PCs
<1>4. ASSUME NEW n \in Amounts, DrainLoad(t, n) PROVE TypeOK'
  BY <1>a, <1>4 DEF DrainLoad, TypeOK, PCs
<1>5. ASSUME NEW n \in Amounts, Release(t, n) PROVE TypeOK'
  BY <1>a, <1>5 DEF Release, TypeOK, PCs
<1>6. ASSUME NEW n \in Amounts, AddPermits(t, n) PROVE TypeOK'
  BY <1>a, <1>6 DEF AddPermits, TypeOK, PCs
<1>7. ASSUME NEW n \in Amounts, ReleaseIfWaiters(t, n) PROVE TypeOK'
  BY <1>a, <1>7 DEF ReleaseIfWaiters, TypeOK, PCs
<1>8. CASE NotifyAll(t)
  BY <1>a, <1>8 DEF NotifyAll, TypeOK, PCs
<1>9. CASE Load(t)
  BY <1>a, <1>9 DEF Load, TypeOK, PCs
<1>10. CASE LockQueue(t)
  BY <1>a, <1>10 DEF LockQueue, TypeOK, PCs
<1>11. CASE CasFails(t)
  BY <1>a, <1>11 DEF CasFails, TypeOK, PCs
<1>12. CASE CasTakesAll(t)
  <2>1. avail' \in Nat
    BY <1>a, <1>12 DEF CasTakesAll, TypeOK
  <2>2. held' \in [Tasks -> Nat] /\ lock' \in Tasks \cup {Free}
    BY <1>a, <1>12 DEF CasTakesAll, TypeOK
  <2> QED BY <1>a, <1>12, <2>1, <2>2, ReturnType DEF CasTakesAll, TypeOK
<1>13. CASE CasTakesSome(t)
  BY <1>a, <1>13 DEF CasTakesSome, TypeOK, PCs
<1>14. CASE Enqueue(t)
  <2> DEFINE n == [owner |-> IF op[t] = "acquire" THEN t ELSE Debt, needed |-> req[t] - seen[t]]
  <2>1. n \in Node
    BY <1>a, <1>14 DEF Enqueue, TypeOK, CounterDiscipline, Node
  <2>2. queue' = Append(queue, n) \/ queue' = <<n>> \o queue
    BY <1>14 DEF Enqueue
  <2> HIDE DEF n
  <2>3. queue' \in Seq(Node)
    <3>1. queue \in Seq(Node) /\ <<n>> \in Seq(Node)
      BY <1>a, <2>1 DEF TypeOK
    <3>2. Append(queue, n) \in Seq(Node)
      BY <2>1, <3>1, AppendProperties
    <3>3. <<n>> \o queue \in Seq(Node)
      BY <3>1, ConcatProperties
    <3> QED BY <2>2, <3>2, <3>3
  <2>4. CASE op[t] = "acquire"
    <3>1. pc' = [pc EXCEPT ![t] = "pending"] /\ seen' = [seen EXCEPT ![t] = 0]
      BY <1>14, <2>4 DEF Enqueue
    <3>2. pc' \in [Tasks -> PCs] /\ seen' \in [Tasks -> Nat]
      BY <1>p, <1>n, <3>1 DEF PCs
    <3> QED BY <1>a, <1>14, <2>3, <2>4, <3>2 DEF Enqueue, TypeOK
  <2>5. CASE op[t] = "reduce"
    BY <1>a, <1>14, <2>3, <2>5, ReturnType DEF Enqueue, TypeOK
  <2> QED BY <1>p, <2>4, <2>5
<1>15. CASE TryAcquireCas(t)
  <2>1. avail' \in Nat /\ held' \in [Tasks -> Nat]
    BY <1>a, <1>15 DEF TryAcquireCas, TypeOK, CounterDiscipline
  <2>2. CASE Return(t)
    BY <1>a, <1>15, <2>1, <2>2, ReturnType DEF TryAcquireCas, TypeOK
  <2>3. CASE seen' = [seen EXCEPT ![t] = avail] /\ UNCHANGED <<pc, op, req>>
    BY <1>a, <1>15, <2>1, <2>3 DEF TryAcquireCas, TypeOK
  <2> QED BY <1>15, <2>2, <2>3 DEF TryAcquireCas
<1>16. CASE DrainCas(t)
  <2>1. avail' \in Nat /\ held' \in [Tasks -> Nat]
    <3> DEFINE drained == IF req[t] <= avail THEN req[t] ELSE avail
    <3>1. drained \in Nat /\ avail - drained \in Nat
      BY <1>n
    <3>2. \/ avail' = avail - drained /\ held' = [held EXCEPT ![t] = @ + drained]
          \/ UNCHANGED <<avail, held>>
      BY <1>16 DEF DrainCas
    <3> HIDE DEF drained
    <3> QED BY <1>n, <3>1, <3>2
  <2>2. CASE Return(t)
    BY <1>a, <1>16, <2>1, <2>2, ReturnType DEF DrainCas, TypeOK
  <2>3. CASE seen' = [seen EXCEPT ![t] = avail] /\ UNCHANGED <<pc, op, req>>
    BY <1>a, <1>16, <2>1, <2>3 DEF DrainCas, TypeOK
  <2> QED BY <1>16, <2>2, <2>3 DEF DrainCas
<1>17. CASE ReleaseLoad(t)
  <2>1. pc' \in [Tasks -> PCs] /\ seen' \in [Tasks -> Nat]
    BY <1>p, <1>n, <1>17 DEF ReleaseLoad, PCs
  <2> QED BY <1>a, <1>17, <2>1 DEF ReleaseLoad, TypeOK
<1>18. CASE ReleaseCas(t)
  <2>1. pc' \in [Tasks -> PCs] /\ seen' \in [Tasks -> Nat]
    BY <1>p, <1>n, <1>18 DEF ReleaseCas, PCs
  <2>2. avail' \in Nat /\ rem' \in [Tasks -> Nat]
    BY <1>n, <1>18 DEF ReleaseCas
  <2> QED BY <1>a, <1>18, <2>1, <2>2 DEF ReleaseCas, TypeOK
<1>19. CASE DistributeLock(t)
  BY <1>a, <1>19 DEF DistributeLock, TypeOK, PCs
<1>20. CASE DistributeAssign(t)
  <2>1. queue[1] \in Node /\ 1 \in 1..Len(queue) /\ Head(queue) = queue[1]
    BY <1>a, <1>20, LinkedNodeType DEF DistributeAssign, TypeOK
  <2>2. CASE DetachFirst(t) /\ Head(queue).needed <= rem[t] /\ rem' = [rem EXCEPT ![t] = @ - Head(queue).needed]
    <3>1. Head(queue).needed \in Nat
      BY <2>1 DEF Node
    <3>2. rem' \in [Tasks -> Nat]
      BY <1>a, <2>2, <3>1 DEF TypeOK
    <3> QED BY <1>a, <1>20, <2>2, <3>2, DetachType DEF DistributeAssign, TypeOK
  <2>3. CASE /\ Head(queue).needed > rem[t]
             /\ queue' = [queue EXCEPT ![1].needed = @ - rem[t]]
             /\ rem' = [rem EXCEPT ![t] = 0] /\ UNCHANGED <<granted, batch>>
    <3> DEFINE first == [queue[1] EXCEPT !.needed = @ - rem[t]]
    <3>1. queue' = [queue EXCEPT ![1] = first]
      BY <2>3
    <3>2. first \in Node
      <4>1. queue[1].needed - rem[t] \in Nat \ {0}
        <5>1. queue[1].needed \in Nat /\ queue[1].needed > rem[t]
          BY <2>1, <2>3 DEF Node
        <5> QED BY <1>n, <5>1
      <4> QED BY <2>1, <4>1 DEF Node
    <3> HIDE DEF first
    <3>3. queue' \in Seq(Node)
      BY <1>a, <2>1, <3>1, <3>2, ExceptSeq DEF TypeOK
    <3> QED BY <1>a, <1>20, <2>3, <3>3 DEF DistributeAssign, TypeOK
  <2> QED BY <1>20, <2>2, <2>3 DEF DistributeAssign
<1>21. CASE DistributeSurplus(t)
  BY <1>a, <1>21 DEF DistributeSurplus, TypeOK, PCs
<1>22. CASE DistributeFetchAdd(t)
  BY <1>a, <1>22 DEF DistributeFetchAdd, TypeOK, PCs
<1>23. CASE DistributeCas(t)
  <2>1. pc' \in [Tasks -> PCs] /\ seen' \in [Tasks -> Nat]
    BY <1>p, <1>n, <1>23 DEF DistributeCas, PCs
  <2>2. avail' \in Nat /\ rem' \in [Tasks -> Nat] /\ lock' \in Tasks \cup {Free}
    BY <1>n, <1>23 DEF DistributeCas
  <2> QED BY <1>a, <1>23, <2>1, <2>2 DEF DistributeCas, TypeOK
<1>24. CASE DistributeUnlock(t)
  BY <1>a, <1>24 DEF DistributeUnlock, TypeOK, PCs
<1>25. CASE DistributeWake(t)
  BY <1>a, <1>25 DEF DistributeWake, TypeOK, PCs
<1>26. CASE NotifyAllDetach(t)
  <2>1. queue[1] \in Node /\ Head(queue) = queue[1]
    BY <1>a, <1>26, LinkedNodeType DEF NotifyAllDetach, TypeOK
  <2>2. supply' \in Int
    BY <1>a, <1>26, <2>1 DEF NotifyAllDetach, TypeOK, Node
  <2> QED BY <1>a, <1>26, <2>2, DetachType DEF NotifyAllDetach, TypeOK
<1>27. CASE NotifyAllUnlock(t)
  BY <1>a, <1>27 DEF NotifyAllUnlock, TypeOK, PCs
<1>28. CASE PollReady(t)
  BY <1>a, <1>28 DEF PollReady, TypeOK, PCs
<1>29. CASE PollPending(t)
  BY <1>a, <1>29 DEF PollPending, TypeOK, PCs
<1>30. CASE DropAcquire(t)
  <2>1. Assigned(t) \in Nat
    <3>1. CASE t \in granted
      BY <1>a, <3>1 DEF Assigned, Outstanding, TypeOK
    <3>2. CASE t \notin granted
      <4>1. /\ Position(t) \in 1..Len(queue) /\ queue[Position(t)].owner = t
            /\ queue[Position(t)] \in ToSet(queue)
        BY <1>a, <1>30, <3>2, PositionOfPending, LinkedNodeType DEF DropAcquire, IInv
      <4>2. queue[Position(t)].needed \in Nat /\ queue[Position(t)].needed <= req[t]
        BY <1>a, <4>1, LinkedNodeType DEF IInv, NeedBounded
      <4> QED BY <1>a, <3>2, <4>2 DEF Assigned, Outstanding, TypeOK
    <3> QED BY <3>1, <3>2
  <2>2. queue' \in Seq(Node)
    BY <1>a, <1>30, PositionOfPending, RemoveAtProperties DEF DropAcquire, IInv, TypeOK
  <2> QED BY <1>a, <1>30, <2>1, <2>2 DEF DropAcquire, TypeOK, PCs
<1> QED BY <1>1, <1>2, <1>3, <1>4, <1>5, <1>6, <1>7, <1>8, <1>9, <1>10, <1>11, <1>12, <1>13, <1>14, <1>15, <1>16, <1>17, <1>18, <1>19, <1>20, <1>21, <1>22, <1>23, <1>24, <1>25, <1>26, <1>27, <1>28, <1>29, <1>30 DEF Call, Step, Future

LEMMA StepIInv ==
    ASSUME IInv, [Next]_vars PROVE IInv'
<1>1. CASE UNCHANGED vars
  BY <1>1 DEF IInv, vars, TypeOK, LockOwnership, CounterDiscipline, NoPermitsPastQueue,
     FetchAddFromZero, NodeOwnership, IsLinked, OneNodeEach, NeedBounded, NoLostWakeup
<1>2. ASSUME NEW t \in Tasks, Call(t) \/ Step(t) \/ Future(t) PROVE IInv'
  BY <1>2, StepLock, StepCounter, StepWakeup, StepNodes, StepType DEF IInv
<1> QED BY <1>1, <1>2 DEF Next

\* The inductive invariant holds in every reachable state, for any number of
\* tasks, permits and batch sizes.
THEOREM Invariance == Spec => []IInv
BY InitIInv, StepIInv, PTL DEF Spec

\* Type correctness.
THEOREM TypeCorrect == Spec => []TypeOK
BY Invariance, PTL DEF IInv

\* While a node is linked the counter is 0, whatever the interleaving of the
\* lock-free acquire and release paths with the locked ones: the comment in
\* Semaphore::release that justifies its lock-free path.
THEOREM PermitsNeverPassQueue == Spec => []NoPermitsPastQueue
BY Invariance, PTL DEF IInv, CounterDiscipline

\* The unchecked fetch_add of distribute_permits always adds to 0.
THEOREM FetchAddStartsAtZero == Spec => []FetchAddFromZero
BY Invariance, PTL DEF IInv, CounterDiscipline

\* Every fully assigned acquisition has been woken or is in a batch that will be.
THEOREM WakeupsAreKept == Spec => []NoLostWakeup
BY Invariance, PTL DEF IInv

\* Each pending future has exactly one node, and each node one future.
THEOREM NodesAreOwned == Spec => []NodeOwnership
BY Invariance, PTL DEF IInv

LEMMA StepNoBarging ==
    ASSUME IInv, [Next]_vars, NEW u \in Tasks, held'[u] > held[u], queue # <<>>
    PROVE  u \in granted
<1>a. /\ avail = 0 /\ held \in [Tasks -> Nat] /\ req \in [Tasks -> Nat] /\ seen \in [Tasks -> Nat]
      /\ \A t \in Tasks : pc[t] = "tryCas" => req[t] <= seen[t]
  BY DEF IInv, TypeOK, CounterDiscipline, NoPermitsPastQueue
<1>b. held' # held
  BY <1>a
<1>1. PICK t \in Tasks : Call(t) \/ Step(t) \/ Future(t)
  BY <1>b DEF Next, vars
<1>2. CASE CasTakesAll(t)
  <2>1. req[t] = 0
    BY <1>a, <1>2 DEF CasTakesAll
  <2> QED BY <1>a, <1>2, <2>1 DEF CasTakesAll
<1>3. CASE TryAcquireCas(t)
  <2>1. avail = seen[t] => req[t] = 0
    BY <1>a, <1>3 DEF TryAcquireCas
  <2> QED BY <1>a, <1>3, <2>1 DEF TryAcquireCas
<1>4. CASE DrainCas(t)
  BY <1>a, <1>4 DEF DrainCas
<1>5. CASE PollReady(t)
  BY <1>a, <1>5 DEF PollReady
<1>6. ASSUME NEW n \in Amounts, Release(t, n) PROVE u \in granted
  BY <1>a, <1>6 DEF Release
<1>7. CASE /\ ~CasTakesAll(t) /\ ~TryAcquireCas(t) /\ ~DrainCas(t) /\ ~PollReady(t)
           /\ ~\E n \in Amounts : Release(t, n)
  <2>1. held' = held
    BY <1>1, <1>7 DEF Call, Step, Future, Acquire, ReducePermits, TryAcquireLoad, DrainLoad,
       AddPermits, ReleaseIfWaiters, NotifyAll, Load, LockQueue, CasFails, CasTakesSome,
       Enqueue, ReleaseLoad, ReleaseCas, DistributeLock, DistributeAssign,
       DistributeSurplus, DistributeFetchAdd, DistributeCas, DistributeUnlock,
       DistributeWake, NotifyAllDetach, NotifyAllUnlock, PollPending, DropAcquire
  <2> QED BY <1>b, <2>1
<1> QED BY <1>2, <1>3, <1>4, <1>5, <1>6, <1>7

\* While nodes are linked only a fully assigned waiter obtains permits: no
\* caller of acquire, try_acquire or drain_permits overtakes the queue.
THEOREM QueueIsNotOvertaken == Spec => NoBarging
<1>1. ASSUME IInv, [Next]_vars
      PROVE  [\A t \in Tasks : held'[t] > held[t] /\ queue # <<>> => t \in granted]_vars
  BY <1>1, StepNoBarging
<1> QED BY <1>1, Invariance, PTL DEF Spec, NoBarging
=============================================================================
