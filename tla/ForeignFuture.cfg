SPECIFICATION FairSpec
CONSTANTS
    Drivers = {"kotlin", "python", "swift", "ruby"}
    LateRaises = {"kotlin"}
INVARIANTS
    TypeOK
    CompletedAtMostOnce
    NoLostCompletion
    RaiseOrReply
    NoSelfInflictedError
    SenderConsumed
    HandleReleased
PROPERTIES
    Answered
    DropIsTold
    ImplementsAsyncCall
CHECK_DEADLOCK FALSE
