CONSTANTS
    idle = idle
    a = a
    b = b
    c = c
    Tasks <- MCTasks
    Idle = idle
    Dummy = dummy
    NoTask = none
    LowestPrio = 1
    InitReady <- MCInitReady
    InitFree <- MCInitFree
    FreeTask = free
    RecyleList = recycle
    PendLists = {}
    TIMESLICE = 2
    MaxLock = 0
    Delays = {2}
    NewPrios = {}
    DelayIDs = {a, b, c}
    SuspendIDs = {a}
    DeleteIDs = {}
    IsrSuspendIDs = {}
    IsrResumeIDs = {a}
    IsrDeleteIDs = {}
    NestedIsr = FALSE
SPECIFICATION TaskFairSpec
PROPERTY NoStarvation
PROPERTY EverySleepEnds
