CONSTANTS
    Vars <- MC_Vars
    Casts <- MC_Casts
    BinOps = {"+", "-", "<", ">="}
    UnOps = {"-", "!"}
    Nums = {1}
    MaxDepth = 3
    MaxStmts = 1
    MaxLeaves = 2
    UseAssignValue = FALSE
SPECIFICATION Spec
INVARIANT FpuEmptyAtStatementEnd
CHECK_DEADLOCK FALSE
VIEW MC_View
