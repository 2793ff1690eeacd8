SPECIFICATION FairSpec
CONSTANTS
    Wrappers = {w1, w2}
    Threads = {t1, t2}
    NoWrapper = none
    MaxCount = 3
    MaxRefs = 1
    MaxLost = 2
    PassesDestroyed = FALSE
    KeepsArguments = TRUE
INVARIANTS
    NoUseAfterFree
    OwnersCounted
    FreedAfterCalls
    NoLeak
PROPERTIES
    DestroyFrees
    ImplementsLife
CHECK_DEADLOCK FALSE
