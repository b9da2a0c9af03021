SPECIFICATION LiveSpec
CONSTANTS
    Senders = {s1, s2}
    Receivers = {r1, r2}
    Capacities = {0, 1, 2}
    MaxValues = 2
INVARIANTS
    QueueIsSound
    NobodyIsPassed
PROPERTIES
    ReceiveProceeds
    SendCompletes
CHECK_DEADLOCK FALSE
