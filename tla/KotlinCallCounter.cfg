SPECIFICATION Spec
CONSTANTS
    Wrappers = {w1}
    Threads = {t1, t2, t3}
    NoWrapper = none
    MaxCount = 3
    MaxRefs = 1
    MaxLost = 1
    PassesDestroyed = FALSE
    KeepsArguments = FALSE
INVARIANTS
    KotlinTypeOK
    FreedAfterCalls
CHECK_DEADLOCK FALSE
