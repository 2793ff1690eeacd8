SPECIFICATION Spec
CONSTANTS
    Drivers = {"python"}
    LateRaises = {}
INVARIANTS
    CompletedOnceIfDropped
CHECK_DEADLOCK FALSE
