CONSTANTS
    Funcs = {f1, f2}
    Backends = {"arm", "x86"}
    Base = 4
    MaxPC = 60
    MaxDepth = 0
    RefBound <- MC_RefBound
SPECIFICATION Spec
INVARIANT ForwardReferencesResolved
PROPERTY JumpTableRefinement
CHECK_DEADLOCK FALSE
SYMMETRY MC_Symmetry
