SPECIFICATION Spec
CONSTANTS
    r1 = r1
    r2 = r2
    r3 = r3
    r4 = r4
    Holder = {r1, r2, r3}
    NumBlocks = 3
    Hash <- MCHash
    NoHash <- MCNoHash
    Token = {0, 1}
    StopIds = {0}
    Prompt <- SqueezedPrompts
    MaxTokens <- SqueezedLimits
    DefaultMaxTokens = 2
    MaxCtx = 5
    BlockSize = 2
    NSlots = 3
    MaxWaiting = 3
    TokenBudget = 3
    PrefillChunk = 1
    UsePrefixCache = {TRUE}
    MayCancel = {r3}
CHECK_DEADLOCK FALSE
INVARIANTS
    Ownership
PROPERTIES
    PoolSpec
