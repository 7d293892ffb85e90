CONSTANTS
    idle = idle
    a = a
    b = b
    c = c
    s1 = s1
    sList = sList
    Tasks <- MCTasks
    Idle = idle
    Dummy = dummy
    NoTask = none
    LowestPrio = 2
    InitReady <- MCInitReady
    InitFree <- MCInitFree
    FreeTask = free
    RecyleList = recycle
    PendLists = {sList}
    TIMESLICE = 1
    MaxLock = 0
    Delays = {1, 2}
    NewPrios = {1}
    DelayIDs = {a, b, c}
    SuspendIDs = {b}
    DeleteIDs = {c}
    IsrSuspendIDs = {b}
    IsrResumeIDs = {}
    IsrDeleteIDs = {}
    NestedIsr = FALSE
    Sems = {s1}
    WaitersOf <- MCWaitersOf
    Created <- MCCreated
    COUNTING_MAX = 2
    TimeoutsOf <- MCTimeoutsOf
    SemCreators = {a}
    SemUsers = {a, b, c}
    IsrUsesSems = TRUE
SPECIFICATION SemSpec
CHECK_DEADLOCK FALSE
INVARIANT SemTypeOK
INVARIANT TokensConserved
INVARIANT WaitersFindNothing
