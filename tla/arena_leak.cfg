CONSTANTS
    ChunkSize = 16
    Sizes <- MC_SmallSizes
    MaxChunks = 3
    MaxMarks = 2
SPECIFICATION Spec
PROPERTY FreeRestoresMark
