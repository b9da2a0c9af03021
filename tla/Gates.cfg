SPECIFICATION LiveSpec
CONSTANTS
    Tasks = {t1, t2, t3}
    Nobody = nobody
    Count = 3
    Amounts = {0, 1, 2}
INVARIANTS
    GateIsSound
PROPERTIES
    ZeroIsFinal
    WaitEnds
CHECK_DEADLOCK FALSE
