SPECIFICATION LiveSpec
CONSTANTS
    Tasks = {t1, t2, t3}
    N = 2
    MaxGenerations = 3
    Never = never
    Registrars = {t1}
    MaxParties = 3
    MaxPhase = 2
    Publishers = {t1, t2}
    Subscribers = {t2, t3}
    MaxVersion = 2
    Nobody = nobody
INVARIANTS
    TokensAreValid
    CountIsExact
PROPERTIES
    ReleasedWaitEnds
CHECK_DEADLOCK FALSE
