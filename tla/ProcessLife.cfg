SPECIFICATION MCSpec
CONSTANTS
    Game = {g1, g2}
    Main = g1
    Console = {c1, c2}
    Free = Free
    MaxLines = 1
    MaxFaults = 2
    MaxCtrl = 2
    MaxTrouble = 3
INVARIANT LatchIsHeld DurableInTime QuitWasPosted
PROPERTY HandlersReturn
CHECK_DEADLOCK FALSE
