SPECIFICATION AllocSpec
CONSTANTS
    Holder = {h1, h2}
    NumBlocks = 3
    Hash = {k1, k2}
    NoHash = NoHash
    MaxTable = 3
SYMMETRY Symmetry
CONSTRAINT TableBound
INVARIANTS
    AllocTypeOK
    RefExact
    LruExact
    CacheExact
PROPERTIES
    HashIsStable
    PoolSpec
