SPECIFICATION Spec
CONSTANTS
    e1 = e1
    e2 = e2
    Caller = caller
    Canceller = canceller
    Events <- MCEvents
    Threads <- MCThreads
    Callbacks <- MCCallbacks
    NoCallback = 0
    MaxSpurious = 1
INVARIANTS
    FreeCallsOutstanding
CHECK_DEADLOCK FALSE
