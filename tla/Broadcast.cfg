SPECIFICATION LiveSpec
CONSTANTS
    SenderTasks = {s1, s2}
    ReceiverTasks = {r1, r2}
    NoDebt = NoDebt
    Capacities = {0, 1}
    MaxTail = 3
INVARIANTS
    BacklogIsExact
PROPERTIES
    SenderProceeds
    ReceiverProceeds
CHECK_DEADLOCK FALSE
