SPECIFICATION Spec
CHECK_DEADLOCK FALSE
INVARIANTS
    NothingLeftBehind
    EngineHasItsBinary
PROPERTIES
    ExitSurfaces
    OpenEnds
    StopEnds
