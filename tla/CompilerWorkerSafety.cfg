SPECIFICATION Spec
CONSTANTS
    None = None
    Dev = {d1, d2}
    Build = {build}
    Stop = {s1, s2}
INVARIANTS
    TypeOK
    StoppedCompilerIsClosed
    ShutdownToldOnce
PROPERTIES
    RequestsEnd
CHECK_DEADLOCK FALSE
