CONSTANTS
    idle = idle
    a = a
    b = b
    c = c
    q1 = q1
    rList = rList
    wList = wList
    mine = mine
    yours = yours
    Tasks <- MCTasks
    Idle = idle
    Dummy = dummy
    NoTask = none
    LowestPrio = 2
    InitReady <- MCInitReady
    InitFree <- MCInitFree
    FreeTask = free
    RecyleList = recycle
    PendLists = {rList, wList}
    TIMESLICE = 1
    MaxLock = 0
    Delays = {1}
    NewPrios = {}
    DelayIDs = {a}
    SuspendIDs = {}
    DeleteIDs = {}
    IsrSuspendIDs = {}
    IsrResumeIDs = {}
    IsrDeleteIDs = {}
    NestedIsr = FALSE
    QueueCBs = {q1}
    QueueLen = 2
    ListOf <- MCListOf
    CreatedQueues = {q1}
    Messages = {mine, yours}
    MessageOf <- MCMessageOf
    IsrMessage = mine
    Timeouts = {0, 1}
    QueueCreators = {c}
    Readers = {a, b, c}
    Writers = {a, b, c}
    IsrReads = FALSE
    IsrWrites = TRUE
SPECIFICATION QueueSpec
INVARIANT QueueTypeOK
INVARIANT SlotsConserved
INVARIANT ReservedQueueExists
PROPERTY ImplementsBoundedDeque
