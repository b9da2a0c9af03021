SPECIFICATION LiveSpec
CONSTANTS
    One = t1
    Many = {t2, t3}
    Nobody = nobody
    Unbounded = unbounded
    Capacities = {1, 2}
    SegmentCapacity = 2
    MaxValues = 4
    MaxPermits = 1
INVARIANTS
    DeliversInOrder
    NothingIsStranded
PROPERTIES
    ReadyFutureEnds
CHECK_DEADLOCK FALSE
