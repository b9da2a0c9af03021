SPECIFICATION UsesSpec
CONSTANTS
    Tasks = {t1, t2, t3}
    Debt = debt
    Free = free
    Permits = 2
    MaxPermits = 2
    MaxDebt = 0
    Batch = 1
    Amounts = {1, 2}
    Calls = {"acquire", "release", "reduce", "try_acquire", "drain"}
SYMMETRY Symmetry
INVARIANTS
    IInv
    Conservation
PROPERTIES
    NoBarging
    ImplementsPermitQueue
