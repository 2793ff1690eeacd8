SPECIFICATION Spec
CONSTANTS
    Drivers = {"python"}
    LateRaises = {}
INVARIANTS
    CompletedOnError
CHECK_DEADLOCK FALSE
