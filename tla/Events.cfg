SPECIFICATION LiveSpec
CONSTANTS
    Tasks = {t1, t2, t3}
    Notified = notified
    MaxSlots = 4
INVARIANTS
    ListIsConsistent
PROPERTIES
    ImplementsWaiterList
    SignalIsKept
    SelectedWaitEnds
