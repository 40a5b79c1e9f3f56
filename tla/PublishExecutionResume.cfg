SPECIFICATION Spec
CONSTANTS
    bin = bin
    cli = cli
    app = app
    Packages = {bin, cli, app}
    Position <- MCPosition
    Builds <- MCBuilds
    Options <- MCOptions
    MaxRetries = 1
    ViewAnswers = TRUE
    MaxRuns = 2
INVARIANT
    CompletedStepsDoNotConflict
CHECK_DEADLOCK FALSE
