CONSTANTS
    c = c
    o = o
    Svc <- MC_Svc
    Oneshot = {o}
    Critical = {c}
    InitiallyDisabled = {o}
    Pids <- MC_Pids
    RestartDelay = 1
    CrashWindow = 3
    CrashThreshold = 2
    ForkCanFail = TRUE
    MaxCtl = 2
SPECIFICATION Spec
PROPERTY ExitedServiceRestarted
CHECK_DEADLOCK FALSE
