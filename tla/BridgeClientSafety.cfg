SPECIFICATION Spec
CONSTANTS
    p = p
    q = q
    d = d
    x = x
    NoCaller = NoCaller
    Callers = {d, q}
    Dev = {d}
    Direct = {}
    Quit = {}
    Retries = 0
    MaxPending = 2
    Capacity = 1
    Faults = {"exit"}
    MaxGens = 2
    MaxEvents = 1
INVARIANTS
    TypeOK
    PendingBounded
    WaiterIsRegistered
    GoneProcessIsEmpty
    EveryEntryIsOwed
    GenerationsApart
    StoppedDevRunsNoMore
CHECK_DEADLOCK FALSE
