CONSTANTS
    A = A
    B = B
    C = C
    x = x
    Names <- MC_Names
    Plain <- MC_Plain
    DefChoices <- MC_CycleDefs
    Inputs <- MC_CycleInputs
    NestingMax = 32
SPECIFICATION Spec
INVARIANT ExpandsLikeReference
CHECK_DEADLOCK FALSE
