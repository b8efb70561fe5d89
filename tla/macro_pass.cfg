CONSTANTS
    A = A
    B = B
    C = C
    x = x
    Names <- MC_Names
    Plain <- MC_Plain
    DefChoices <- MC_Defs
    Inputs <- MC_Inputs
    NestingMax = 2
SPECIFICATION Spec
INVARIANT TypeOK ExpandsLikeReference
CHECK_DEADLOCK FALSE
