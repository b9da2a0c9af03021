SPECIFICATION LiveSpec
CONSTANTS
    Tasks = {t1, t2, t3}
    NoDebt = nodebt
    NoObject = none
    MaxSize = 2
    MaxObjects = 3
INVARIANT
    PoolAccounting
PROPERTY
    GetCompletes
CHECK_DEADLOCK FALSE
