SPECIFICATION ServingSpec
CONSTANTS
    MaxCtx = 4
    PromptLens = {1, 4}
    Requested = {0}
    Ids = {"json", "lead3", "cont", "open", "close"}
CHECK_DEADLOCK FALSE
INVARIANTS
    WholeAnswer
    WellFormed
    StreamEqualsBlocking
    OutcomeIsTold
PROPERTIES
    Responds
    LeavingReachesEngine
