SPECIFICATION FairSpec
CONSTANTS
    p = p
    q = q
    d = d
    x = x
    NoCaller = NoCaller
    Callers = {p, x}
    Dev = {}
    Direct = {x}
    Quit = {x}
    Retries = 0
    MaxPending = 1
    Capacity = 1
    Faults = {"exit", "pollute", "silence", "host"}
    MaxGens = 1
    MaxEvents = 1
PROPERTIES
    DispatchEnds
    DirectEnds
CHECK_DEADLOCK FALSE
