CONSTANTS
    a = a
    b = b
    Tok <- MC_Tok
    External <- MC_External
    ParamLists <- MC_ParamLists
    MaxVI = 3
    MaxLevel = 2
    MaxSites = 1
    ChunkSize = 16
    MaxChunks = 2
    VISize = 4
    TypeSize = 2
SPECIFICATION Spec
INVARIANT TypeOK SlotsAreInnermost NoSilentRedefinition AllocInBounds LiveDisjoint ReachableSymbolsNotReused
CHECK_DEADLOCK FALSE
