SPECIFICATION LiveSpec
CONSTANTS
    a = a  b = b  c = c  g1 = g1  g2 = g2
    Tasks = {a, b}
    InitialTasks = {a, b}
    Groups = {g1, g2}
    GroupOf <- MCGroupOf
    Rank <- MCRank
    IdOrder <- MCIdOrder
    MaxRetries <- MCMaxRetries
    Delayed = {a}
    Timed = {b}
    Compensable = {a}
    Mode = "Serial"
    MaxConcurrency = 2
    GroupConcurrency <- ZeroInG1
    StopOnError = TRUE
    RollbackOnError = TRUE
    Controls = {}
    SharedThread = TRUE
PROPERTIES
    StoppedRunReturns
CHECK_DEADLOCK FALSE
