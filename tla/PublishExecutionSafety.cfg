SPECIFICATION Spec
CONSTANTS
    bin = bin
    cli = cli
    app = app
    Packages = {bin, cli, app}
    Position <- MCPosition
    Builds <- MCBuilds
    Options <- MCOptions
    MaxRetries = 1
    ViewAnswers = FALSE
    MaxRuns = 3
INVARIANTS
    TypeOK
    RecordFollowsRegistry
    DependentsLeaveFirst
PROPERTIES
    RegistryGuarded
    ResumeKeepsRecord
CHECK_DEADLOCK FALSE
