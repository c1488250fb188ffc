SPECIFICATION Spec
CONSTANTS
    Freq = 15
    GameFps = 3
    ReplaySkipFps = 0
    ReplaySlowFps = 2
    Threshold = 5
    Horizon = 28
INVARIANTS
    DeadlineOnGrid
    NeverAhead
    CatchUpBounded
CHECK_DEADLOCK FALSE
