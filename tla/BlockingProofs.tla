--------------------------- MODULE BlockingProofs ---------------------------
(* Proofs about the oneshot channel, for every set of wakers.              *)
EXTENDS Blocking, TLAPS

\* Each step of either side of the channel keeps what both rely on.
LEMMA StepInv == ASSUME OneshotInv, Next PROVE OneshotInv'
<1> USE WakersAssumption DEF OneshotInv, TypeOK, SenderKnows, BeforeTheEnd, AfterTheEnd, ReceiverKnows,
        SlotOwnership, CurIsSet, Outcomes, States, SenderPCs, ReceiverPCs, senderVars, receiverVars,
        RECEIVING, AWAKING, DISCONNECTED, EMPTY, MESSAGE
<1>1. CASE SendWrite
  BY <1>1 DEF SendWrite
<1>2. CASE SendAdd
  BY <1>2 DEF SendAdd
<1>3. CASE SenderDrop
  <2>1. state \in {EMPTY, RECEIVING, DISCONNECTED} /\ FlipLowBit(EMPTY) = DISCONNECTED
        /\ FlipLowBit(RECEIVING) = AWAKING /\ FlipLowBit(DISCONNECTED) = EMPTY
    BY <1>3 DEF SenderDrop, FlipLowBit
  <2>2. CASE state = EMPTY
    BY <1>3, <2>1, <2>2 DEF SenderDrop
  <2>3. CASE state = RECEIVING
    BY <1>3, <2>1, <2>3 DEF SenderDrop
  <2>4. CASE state = DISCONNECTED
    BY <1>3, <2>1, <2>4 DEF SenderDrop
  <2>q. QED
    BY <2>1, <2>2, <2>3, <2>4
<1>4. CASE TakeWaker
  BY <1>4 DEF TakeWaker
<1>5. CASE SwapFinal
  BY <1>5 DEF SwapFinal
<1>6. CASE Wake
  BY <1>6 DEF Wake
<1>7. CASE SenderCleanup
  BY <1>7 DEF SenderCleanup
<1>8. CASE SendErrorEnds
  BY <1>8 DEF SendErrorEnds
<1>9. CASE TryRecv
  BY <1>9 DEF TryRecv
<1>10. CASE MarkReceived
  BY <1>10 DEF MarkReceived
<1>11. CASE TakeMessage
  BY <1>11 DEF TakeMessage
<1>12. CASE ReceiverDrop
  <2>1. TypeOK'
    BY <1>12 DEF ReceiverDrop
  <2>2. SenderKnows'
    BY <1>12 DEF ReceiverDrop
  <2>3. BeforeTheEnd'
    BY <1>12 DEF ReceiverDrop
  <2>4. AfterTheEnd'
    <3>1. spc \in {"wake", "done"} => state # EMPTY
      BY <1>12 DEF ReceiverDrop
    <3>2. state # EMPTY => ~alloc'
      BY <1>12, Zenon DEF ReceiverDrop
    <3>3. spc \in {"wake", "done"} => slot = NoWaker /\ msg' # "slot"
      BY <1>12 DEF ReceiverDrop
    <3>4. spc' = spc /\ rpc' = "gone" /\ slot' = slot
      BY <1>12 DEF ReceiverDrop
    <3>q. QED
      BY <3>1, <3>2, <3>3, <3>4 DEF AfterTheEnd
  <2>5. ReceiverKnows'
    BY <1>12 DEF ReceiverDrop
  <2>6. SlotOwnership'
    BY <1>12 DEF ReceiverDrop
  <2>7. CurIsSet'
    BY <1>12 DEF ReceiverDrop
  <2>8. Outcomes'
    BY <1>12 DEF ReceiverDrop
  <2>q. QED
    BY <2>1, <2>2, <2>3, <2>4, <2>5, <2>6, <2>7, <2>8
<1>13. CASE IntoFuture
  BY <1>13 DEF IntoFuture
<1>14. CASE PollLoad
  BY <1>14 DEF PollLoad, Disconnected, WakeSelf
<1>15. CASE WriteWaker
  BY <1>15 DEF WriteWaker
<1>16. CASE PublishWaker
  BY <1>16 DEF PublishWaker, Disconnected
<1>17. CASE UnparkWaker
  BY <1>17 DEF UnparkWaker, Disconnected, WakeSelf
<1>18. CASE RecvDrop
  BY <1>18 DEF RecvDrop
<1>19. CASE DropLoad
  BY <1>19 DEF DropLoad
<1>20. CASE DropTerminal
  <2>1. TypeOK'
    BY <1>20 DEF DropTerminal
  <2>2. SenderKnows'
    BY <1>20 DEF DropTerminal
  <2>3. BeforeTheEnd'
    BY <1>20 DEF DropTerminal
  <2>4. AfterTheEnd'
    BY <1>20 DEF DropTerminal
  <2>5. ReceiverKnows'
    BY <1>20 DEF DropTerminal
  <2>6. SlotOwnership'
    BY <1>20 DEF DropTerminal
  <2>7. CurIsSet'
    BY <1>20 DEF DropTerminal
  <2>8. Outcomes'
    BY <1>20 DEF DropTerminal
  <2>q. QED
    BY <2>1, <2>2, <2>3, <2>4, <2>5, <2>6, <2>7, <2>8
<1>21. CASE DropHandOver
  BY <1>21 DEF DropHandOver
<1>22. CASE DropReclaimWaker
  BY <1>22 DEF DropReclaimWaker
<1>23. CASE DropWaker
  BY <1>23 DEF DropWaker
<1>24. CASE DropRetry
  BY <1>24 DEF DropRetry
<1>25. ASSUME NEW w \in Wakers, Poll(w) PROVE OneshotInv'
  BY <1>25, WakersAssumption DEF Poll
<1>q. QED
  BY <1>1, <1>2, <1>3, <1>4, <1>5, <1>6, <1>7, <1>8, <1>9, <1>10, <1>11, <1>12, <1>13, <1>14, <1>15, <1>16, <1>17, <1>18, <1>19, <1>20, <1>21, <1>22, <1>23, <1>24, <1>25 DEF Next, SenderStep, PollStep, DropStep

\* Tasks and a thread in block_on use the channel by its own steps only: a step of the
\* composition is a step of the channel, or leaves the channel alone.
LEMMA ChannelStep == ASSUME BlockingNext PROVE Next \/ UNCHANGED vars
<1> USE DEF Next
<1>1. CASE Apart(SendWrite \/ SenderDrop \/ SenderStep)
  BY <1>1 DEF Apart
<1>2. CASE Apart(TryRecv \/ ReceiverDrop \/ IntoFuture \/ DropStep)
  BY <1>2 DEF Apart
<1>3. CASE ByTasks
  BY <1>3 DEF ByTasks, Apart
<1>4. CASE ThreadPolls
  BY <1>4, BlockingAssumption DEF ThreadPolls
<1>5. CASE ThreadParks \/ ThreadReturns
  BY <1>5 DEF ThreadParks, ThreadReturns, vars
<1>6. CASE ThreadPollStep \/ SenderUnparks
  BY <1>6 DEF ThreadPollStep, SenderUnparks
<1>7. CASE (ParkStep \/ CvWakes \/ \E u \in Unparkers : UnparkStep(u)) /\ UNCHANGED vars
  BY <1>7
<1>q. QED
  BY <1>1, <1>2, <1>3, <1>4, <1>5, <1>6, <1>7 DEF BlockingNext

\* The inductive invariant of the channel holds however it is awaited.
THEOREM ChannelInvariance == BlockingSpec => []OneshotInv
<1>1. Init => OneshotInv
  BY WakersAssumption DEF Init, OneshotInv, TypeOK, SenderKnows, BeforeTheEnd, AfterTheEnd, ReceiverKnows,
     SlotOwnership, CurIsSet, Outcomes, States, SenderPCs, ReceiverPCs, RECEIVING, AWAKING,
     DISCONNECTED, EMPTY, MESSAGE
<1>2. OneshotInv /\ UNCHANGED vars => OneshotInv'
  BY DEF vars, OneshotInv, TypeOK, SenderKnows, BeforeTheEnd, AfterTheEnd, ReceiverKnows,
     SlotOwnership, CurIsSet, Outcomes
<1>3. OneshotInv /\ [BlockingNext]_allVars => OneshotInv'
  BY <1>2, StepInv, ChannelStep DEF allVars
<1>4. BlockingInit => OneshotInv
  BY <1>1 DEF BlockingInit
<1>q. QED
  BY <1>3, <1>4, PTL DEF BlockingSpec

\* The unsafe code of both sides is used as it must be: the allocation is freed exactly
\* once, by the last side to leave, and no slot is read or dropped that is not written.
THEOREM MemoryIsSafe == BlockingSpec => []MemorySafety
<1>1. OneshotInv => MemorySafety
  BY WakersAssumption DEF MemorySafety, FreedExactlyOnce, SlotsInitialised, OneshotInv, TypeOK, SenderKnows, BeforeTheEnd,
     AfterTheEnd, ReceiverKnows, SlotOwnership, CurIsSet, States, SenderPCs, ReceiverPCs, RECEIVING, AWAKING, DISCONNECTED, EMPTY, MESSAGE
<1>q. QED
  BY <1>1, ChannelInvariance, PTL

\* What send reports agrees with what becomes of the message, and with what the receiver
\* is told.
THEOREM SidesAgree == BlockingSpec => []OutcomesAgree
<1>1. OneshotInv => OutcomesAgree
  BY DEF OutcomesAgree, OneshotInv, TypeOK, SenderKnows, Outcomes, MESSAGE, DISCONNECTED
<1>q. QED
  BY <1>1, ChannelInvariance, PTL

\* The states in which the unreachable! arms of the channel find it.
LEMMA NoUnreachableArm == OneshotInv => NoUnexpectedState
  BY DEF NoUnexpectedState, OneshotInv, BeforeTheEnd, AfterTheEnd, ReceiverKnows, TypeOK, States, SenderPCs,
     RECEIVING, AWAKING, DISCONNECTED, EMPTY, MESSAGE

ParkerInv == ParkerTypeOK /\ ParkStateIsConsistent

\* Each step of the thread that parks, and of those that unpark it, keeps its state one
\* that they expect.
LEMMA ParkerStepInv == ASSUME ParkerInv, BlockingNext PROVE ParkerInv'
<1> USE BlockingAssumption DEF ParkerInv, ParkerTypeOK, ParkStateIsConsistent, ParkPCs, ThreadPCs,
        ThreadGoto, ParkReturns, parkerVars
<1>1. CASE UNCHANGED parkerVars
  BY <1>1
<1>2. CASE ThreadPolls \/ ThreadParks \/ ThreadReturns
  BY <1>2 DEF ThreadPolls, ThreadParks, ThreadReturns
<1>3. CASE ThreadPollStep
  BY <1>3 DEF ThreadPollStep
<1>4. CASE SenderUnparks
  BY <1>4 DEF SenderUnparks
<1>5. CASE ParkStep
  <2>1. CASE TryConsume
    BY <2>1 DEF TryConsume
  <2>2. CASE LockToPark \/ CvWait
    BY <2>2 DEF LockToPark, CvWait
  <2>3. CASE Exchange
    BY <2>3 DEF Exchange
  <2>4. CASE AfterWait
    BY <2>4 DEF AfterWait
  <2>q. QED
    BY <1>5, <2>1, <2>2, <2>3, <2>4 DEF ParkStep
<1>6. CASE CvWakes
  BY <1>6 DEF CvWakes
<1>7. ASSUME NEW u \in Unparkers, UnparkStep(u) PROVE ParkerInv'
  BY <1>7 DEF UnparkStep, UnparkSwap, UnparkLock, UnparkNotify, UnparkGoto
<1>q. QED
  BY <1>1, <1>2, <1>3, <1>4, <1>5, <1>6, <1>7 DEF BlockingNext, ByTasks, Apart

\* No panic of the channel or of the parker is reached, however polls, unparks, spurious
\* wake-ups and timeouts interleave.
THEOREM PanicsAreUnreachable == BlockingSpec => []NoPanic
<1>1. BlockingInit => ParkerInv
  BY BlockingAssumption DEF BlockingInit, ParkerInv, ParkerTypeOK, ParkStateIsConsistent, ParkPCs, ThreadPCs
<1>2. ParkerInv /\ UNCHANGED allVars => ParkerInv'
  BY DEF allVars, parkerVars, ParkerInv, ParkerTypeOK, ParkStateIsConsistent
<1>3. ParkerInv /\ [BlockingNext]_allVars => ParkerInv'
  BY <1>2, ParkerStepInv
<1>4. BlockingSpec => []ParkerInv
  BY <1>1, <1>3, PTL DEF BlockingSpec
<1>5. OneshotInv /\ ParkerInv => NoPanic
  BY NoUnreachableArm DEF NoPanic, ParkerInv
<1>q. QED
  BY <1>4, <1>5, ChannelInvariance, PTL
=============================================================================
