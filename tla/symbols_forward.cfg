CONSTANTS
    a = a
    b = b
    Tok <- MC_Tok
    External <- MC_External
    ParamLists <- MC_ParamLists
    MaxVI = 4
    MaxLevel = 2
    MaxSites = 1
SPECIFICATION Spec
INVARIANT ForwardReferencesLinked
CHECK_DEADLOCK FALSE
