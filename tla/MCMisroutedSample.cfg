SPECIFICATION Spec
CONSTANTS
    r1 = r1
    r2 = r2
    r3 = r3
    r4 = r4
    Holder = {r1, r2, r3}
    NumBlocks = 3
    Hash <- MCHash
    NoHash <- MCNoHash
    Token = {0, 1}
    StopIds = {0}
    Prompt <- MixedPrompts
    MaxTokens <- MixedLimits
    DefaultMaxTokens = 2
    MaxCtx = 6
    BlockSize = 2
    NSlots = 2
    MaxWaiting = 1
    TokenBudget = 4
    PrefillChunk = 3
    UsePrefixCache = {TRUE}
    MayCancel = {}
CHECK_DEADLOCK FALSE
INVARIANTS
    SampleIsOwn
