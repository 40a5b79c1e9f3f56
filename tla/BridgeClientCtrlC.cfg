SPECIFICATION AnsweredSpec
CONSTANTS
    p = p
    q = q
    d = d
    x = x
    NoCaller = NoCaller
    Callers = {d}
    Dev = {d}
    Direct = {}
    Quit = {}
    Retries = 1
    MaxPending = 2
    Capacity = 1
    Faults = {}
    MaxGens = 1
    MaxEvents = 2
PROPERTIES
    OpenCallReturns
CHECK_DEADLOCK FALSE
