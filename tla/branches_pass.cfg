CONSTANTS
    Funcs = {f1, f2}
    Backends = {"arm", "x86"}
    Base = 4
    MaxPC = 36
    MaxDepth = 2
    RefBound <- MC_RefBound
SPECIFICATION Spec
INVARIANT TypeOK ForwardReferencesResolved
PROPERTY JumpTableRefinement
CHECK_DEADLOCK FALSE
SYMMETRY MC_Symmetry
