CONSTANTS
    idle = idle
    a = a
    b = b
    c = c
    Tasks <- MCTasks
    Idle = idle
    Dummy = dummy
    NoTask = none
    LowestPrio = 2
    InitReady <- MCInitReady
    InitFree <- MCInitFree
    FreeTask = free
    RecyleList = recycle
    PendLists = {}
    TIMESLICE = 2
    MaxLock = 1
    Delays = {2}
    NewPrios = {0, 1}
    DelayIDs = {a, b, c}
    SuspendIDs = {a, b}
    DeleteIDs = {a, b}
    IsrSuspendIDs = {}
    IsrResumeIDs = {b}
    IsrDeleteIDs = {c}
    NestedIsr = FALSE
SPECIFICATION TaskSpec
INVARIANT TaskTypeOK
INVARIANT ListsMatchStatus
INVARIANT HighestRuns
INVARIANT UnblockedIsReady
PROPERTY SwitchesToHighest
