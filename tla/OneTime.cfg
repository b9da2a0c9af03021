SPECIFICATION LiveSpec
CONSTANTS
    Tasks = {t1, t2, t3}
    Entries = {e1, e2, e3, e4}
    None = None
INVARIANTS
    InitIsExclusive
    EntryIsShared
PROPERTY
    CallEnds
