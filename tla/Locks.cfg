SPECIFICATION Spec
CONSTANTS
    Producers = {t1}
    Consumers = {t2, t3}
    Debt = debt
    MaxReaders = 2
    MaxDepth = 2
    MaxTokens = 2
    MaxLost = 2
    MaxItems = 2
    Owners = {t1}
    Clients = {t1, t3}
INVARIANTS
    WriterIsAlone
    PermitsComeBack
    LockOutlivesUse
PROPERTIES
    RequestsEnd
    ItemIsTaken
CHECK_DEADLOCK FALSE
