SPECIFICATION BlockingSpec
CONSTANTS
    Wakers = {w1, w2}
    NoWaker = none
    ParkerWaker = w1
    Thread = thread
    Sender = sender
    Straggler = straggler
    Unparkers = {sender, straggler}
    Nobody = nobody
INVARIANTS
    MemorySafety
    NoPanic
    OutcomesAgree
PROPERTY AwaitCompletes
CHECK_DEADLOCK FALSE
