CONSTANTS
    Funcs = {f1, f2}
    Backends = {"arm"}
    Base = 4
    MaxPC = 68
    MaxDepth = 0
    RefBound <- MC_RefBoundTwo
SPECIFICATION Spec
INVARIANT ForwardReferencesResolved
CHECK_DEADLOCK FALSE
