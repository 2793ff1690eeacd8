SPECIFICATION Spec
CONSTANTS
    Wrappers = {w1, w2}
    Threads = {t1, t2}
    NoWrapper = none
    MaxCount = 3
    MaxRefs = 1
    MaxLost = 1
    PassesDestroyed = TRUE
    KeepsArguments = TRUE
INVARIANTS
    NoUseAfterFree
CHECK_DEADLOCK FALSE
