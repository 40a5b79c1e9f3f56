SPECIFICATION AnsweredSpec
CONSTANTS
    p = p
    q = q
    d = d
    x = x
    NoCaller = NoCaller
    Callers = {x}
    Dev = {}
    Direct = {x}
    Quit = {x}
    Retries = 0
    MaxPending = 1
    Capacity = 1
    Faults = {"pollute"}
    MaxGens = 1
    MaxEvents = 0
PROPERTIES
    ShutdownEnds
CHECK_DEADLOCK FALSE
