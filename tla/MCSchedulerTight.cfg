SPECIFICATION Spec
CONSTANTS
    r1 = r1
    r2 = r2
    r3 = r3
    r4 = r4
    Holder = {r1, r2, r3}
    NumBlocks = 3
    Hash <- MCHash
    NoHash <- MCNoHash
    Token = {0, 1}
    StopIds = {0}
    Prompt <- TightPrompts
    MaxTokens <- TightLimits
    DefaultMaxTokens = 2
    MaxCtx = 6
    BlockSize = 2
    NSlots = 2
    MaxWaiting = 1
    TokenBudget = 1
    PrefillChunk = 2
    UsePrefixCache = {TRUE}
    MayCancel = {r1}
CHECK_DEADLOCK FALSE
INVARIANTS
    KvIntegrity
    TerminalIsLast
PROPERTIES
    EventuallyAnswered
    CancelledIsDropped
