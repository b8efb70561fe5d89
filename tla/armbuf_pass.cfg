SPECIFICATION Spec
CONSTANTS
    QSize = 8
    Width = 16
    CodeSize = 5
    MaxWords = 6
    MaxLabels = 1
    Consts <- MC_Consts
    Colliding = {}
    Ops <- MC_Ops
    PtrSizes = {4, 12}
    LocalEAs <- MC_DeepLocalEAs
    GlobalEAs = {100}
    FnDiv = 200
    FP = 1000
    R0Init = 7
    MaxLoc = 260
INVARIANT TypeOK CompiledFunctionComputesSource
CHECK_DEADLOCK FALSE
