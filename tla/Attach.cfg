SPECIFICATION Spec
CONSTANTS
    Sites = 2
    MaxTracked = 3
    MaxRequests = 2
INVARIANTS
    AllOrNothing
    ImportsArrive
    ResolutionHeld
CHECK_DEADLOCK FALSE
