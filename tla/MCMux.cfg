CONSTANTS
    idle = idle
    a = a
    b = b
    c = c
    m1 = m1
    mList = mList
    Tasks <- MCTasks
    Idle = idle
    Dummy = dummy
    NoTask = none
    LowestPrio = 3
    InitReady <- MCInitReady
    InitFree <- MCInitFree
    FreeTask = free
    RecyleList = recycle
    PendLists = {mList}
    TIMESLICE = 1
    MaxLock = 0
    Delays = {1, 2}
    NewPrios = {}
    DelayIDs = {a, b, c}
    SuspendIDs = {}
    DeleteIDs = {}
    IsrSuspendIDs = {}
    IsrResumeIDs = {}
    IsrDeleteIDs = {}
    NestedIsr = FALSE
    Muxes = {m1}
    WaitersOf <- MCWaitersOf
    CreatedMuxes = {m1}
    MaxDepth = 2
    Timeouts = {0, 1, 2}
    MuxCreators = {b}
    MuxUsers = {a, b, c}
SPECIFICATION MuxSpec
INVARIANT MuxTypeOK
INVARIANT GrantedToOwner
INVARIANT BoostEnds
