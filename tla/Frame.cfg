SPECIFICATION FrameSpec
CONSTANTS
    Hwnd = {h1, h2}
    NoWindow = null
    Policy <- MCPolicy
    Device = {d1}
    Path = {p1}
    None = none
INVARIANTS
    MappedAsFound
    CaptureBelongs
    DestinationWhole
PROPERTY PolicyInForce
