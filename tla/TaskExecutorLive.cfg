SPECIFICATION FairSpec
CONSTANTS
    a = a  b = b  c = c  g1 = g1  g2 = g2
    Tasks = {a, c}
    InitialTasks = {a, c}
    Groups = {g1, g2}
    GroupOf <- MCGroupOf
    Rank <- MCRank
    IdOrder <- MCIdOrder
    MaxRetries <- MCMaxRetries
    Delayed = {a}
    Timed = {a, c}
    Compensable = {}
    Mode = "Serial"
    MaxConcurrency = 2
    GroupConcurrency <- ZeroInG1
    StopOnError = FALSE
    RollbackOnError = FALSE
    Controls = {"pause", "resume", "cancelAll", "cancelGroup", "token"}
    SharedThread = TRUE
INVARIANTS
    SerialOrder
PROPERTIES
    CancelSettles
    ReturnsUnlessStopped
CHECK_DEADLOCK FALSE
