CONSTANTS
    l1 = l1  l2 = l2  l3 = l3
    tcp5037 = tcp5037  tcp1 = tcp1  tcp2 = tcp2
    rA = rA  rB = rB  smart = smart  d1 = d1  d2 = d2  null = null
    Ids <- MC_Ids
    LocalNames <- MC_LocalNames
    Remotes <- MC_Remotes
    Transports <- MC_Transports
    SmartName = tcp5037
    SmartSocket = smart
    NONE = null
SPECIFICATION Spec
INVARIANT TypeOK DisconnectsMatchListeners StreamsOnLiveTransports SmartsocketKept
PROPERTY ForwardHonoured
SYMMETRY MC_Symmetry
