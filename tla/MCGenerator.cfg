SPECIFICATION Spec
CONSTANTS
    MaxCtx = 7
    PromptLens = {1, 6, 7}
    Requested = {0, 2}
    Ids = {"json", "lead3", "lead4", "cont", "open", "close", "eos"}
CHECK_DEADLOCK FALSE
INVARIANTS
    TextIsDecoding
    CallsAreBlocks
    BackstopIsIdle
