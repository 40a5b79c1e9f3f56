SPECIFICATION Spec
CONSTANTS
    a = a  b = b  c = c  g1 = g1  g2 = g2
    Tasks = {a, b, c}
    InitialTasks = {a, b}
    Groups = {g1, g2}
    GroupOf <- MCGroupOf
    Rank <- MCRank
    IdOrder <- MCIdOrder
    MaxRetries <- MCMaxRetries
    Delayed = {a}
    Timed = {b}
    Compensable = {a, c}
    Mode = "Parallel"
    MaxConcurrency = 2
    GroupConcurrency <- ZeroInG1
    StopOnError = TRUE
    RollbackOnError = TRUE
    Controls = {"add", "pause", "resume", "cancelAll", "cancelGroup", "token"}
    SharedThread = TRUE
INVARIANTS
    TypeOK
    SlotsAgree
    WithinLimits
    OnePlaceEach
    WorkConserving
    LoopDrains
    RollbackComplete
    ReportMatchesRecords
    AttemptsBounded
PROPERTIES
    NoStartAfterStop
    ImplementsTaskPool
CHECK_DEADLOCK FALSE
