CONSTANTS
    LIMIT = 3
    MAX_TIMERID = 6
    DIVISOR = 2
    Created <- MCCreated
SPECIFICATION SwtmrSpec
VIEW MCView
INVARIANT SwtmrTypeOK
INVARIANT AlignedInPhase
INVARIANT LostOnlyBehindBacklog
PROPERTY ImplementsSoftTimers
