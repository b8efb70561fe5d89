CONSTANTS
    ChunkSize = 16
    Sizes <- MC_BigSizes
    MaxChunks = 3
    MaxMarks = 1
SPECIFICATION Spec
INVARIANT AllocInBounds
