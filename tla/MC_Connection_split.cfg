CONSTANTS
    Frames = 2
    Wide = {2}
    Malformed = {}
SPECIFICATION Spec
CHECK_DEADLOCK FALSE
INVARIANTS
    PayloadsArriveIntact
