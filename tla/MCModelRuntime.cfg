SPECIFICATION Spec
CONSTANTS
    Slots = 3
    MaxRows = 4
    BlockSize = 2
    MaxBlocks = 2
    QTile = 2
    MaxEntries = 2
    Requests <- MCRequests
INVARIANTS
    StepServesBatch
    GraphsAreRecent
