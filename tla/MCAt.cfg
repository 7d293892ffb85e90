CONSTANTS
    Clients = {k1, k2}
    Writers = {k2}
    MaxCommands = 2
    MaxIndications = 1
    MaxLeaks = 1
    RECV_QUEUE = 2
    BUF = 4
SPECIFICATION AtSpec
CHECK_DEADLOCK FALSE
INVARIANT AtTypeOK
INVARIANT ListenersHoldTrx
INVARIANT AnswerIsOwnUnlessMixed
INVARIANT PutOffIsSeen
PROPERTY EveryCommandReturns
