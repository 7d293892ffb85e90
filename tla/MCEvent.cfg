CONSTANTS
    idle = idle
    a = a
    b = b
    c = c
    e1 = e1
    eList = eList
    x1 = x1
    x2 = x2
    Tasks <- MCTasks
    Idle = idle
    Dummy = dummy
    NoTask = none
    LowestPrio = 2
    InitReady <- MCInitReady
    InitFree <- MCInitFree
    FreeTask = free
    RecyleList = recycle
    PendLists = {eList}
    TIMESLICE = 1
    MaxLock = 0
    Delays = {1, 2}
    NewPrios = {}
    DelayIDs = {a, c}
    SuspendIDs = {b}
    DeleteIDs = {c}
    IsrSuspendIDs = {b}
    IsrResumeIDs = {}
    IsrDeleteIDs = {}
    NestedIsr = FALSE
    Events = {e1}
    WaitersOf <- MCWaitersOf
    Bits = {x1, x2}
    ReadsOf <- MCReadsOf
    TimeoutsOf <- MCTimeoutsOf
    EventUsers = {a, b, c}
    EventCreators = {a}
    IsrWrites <- MCIsrWrites
SPECIFICATION EventSpec
CHECK_DEADLOCK FALSE
INVARIANT WaitersUnsatisfied
INVARIANT WokenFindEvents
