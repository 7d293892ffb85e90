CONSTANTS
    Tasks = {a, b, c}
    Delays <- MCDelays
    SORTLINK_LEN = 3
SPECIFICATION Spec
INVARIANT TypeOK
PROPERTY ImplementsTaskTimers
PROPERTY EveryTimeoutEnds
