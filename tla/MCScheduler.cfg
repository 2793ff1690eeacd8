SPECIFICATION FairSchedSpec
CONSTANTS
    Threads = {t1, t2, t3}
    Callbacks = {c1, c2, c3}
INVARIANTS
    SchedTypeOK
    ExactlyOnce
PROPERTIES
    WakeRemembered
    CancelIsFinal
    CancelFlushes
