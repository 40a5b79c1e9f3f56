SPECIFICATION Spec
CONSTANTS
    npm = npm
    node = node
    None = None
    Artifacts = {1, 2, 3}
    Checksum = {1, 2}
    Size = 2
    Attempts = 2
    Wants <- MCWants
    Entrypoints = {npm, node}
    Provides <- MCProvides
    MaxOps = 3
INVARIANTS
    TypeOK
    PointerNamesRecord
    MetaMeansUsable
    SuccessServes
    ExtractsVerified
CHECK_DEADLOCK FALSE
