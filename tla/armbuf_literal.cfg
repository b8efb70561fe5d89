SPECIFICATION Spec
CONSTANTS
    QSize = 8
    Width = 16
    CodeSize = 16
    MaxWords = 7
    MaxLabels = 0
    Consts = {129}
    Colliding <- MC_Colliding
    Ops = {"add"}
    PtrSizes = {4}
    LocalEAs <- MC_LocalEAs
    GlobalEAs = {100}
    FnDiv = 200
    FP = 1000
    R0Init = 7
    MaxLoc = 8
INVARIANT PeepholePreservesSemantics
CHECK_DEADLOCK FALSE
