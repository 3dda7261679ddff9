SPECIFICATION Spec
CONSTANTS
    r1 = r1
    r2 = r2
    r3 = r3
    r4 = r4
    Holder = {r1, r2, r3, r4}
    NumBlocks = 6
    Hash <- MCHash
    NoHash <- MCNoHash
    Token = {0, 1}
    StopIds = {0}
    Prompt <- RoomyPrompts
    MaxTokens <- RoomyLimits
    DefaultMaxTokens = 2
    MaxCtx = 5
    BlockSize = 2
    NSlots = 2
    MaxWaiting = 1
    TokenBudget = 2
    PrefillChunk = 2
    UsePrefixCache = {TRUE, FALSE}
    MayCancel = {r1, r2}
CHECK_DEADLOCK FALSE
INVARIANTS
    CacheContent
    BatchIsCurrent
    SampledParallelsRows
    FitsStepContext
    QueueBound
