SPECIFICATION Spec
CONSTANTS
    Order <- MCOrder
    PackageJson = "package.json"
    Rendered = {"a.ts", "z.ts"}
    Replaced = {"a.ts", "package.json"}
    HasPatch = TRUE
    InstallCommands = 2
    Workflows <- MCWorkflows
INVARIANTS
    TypeOK
    RollbackRestores
    EffectsReported
\* A workflow ends.
CHECK_DEADLOCK FALSE
