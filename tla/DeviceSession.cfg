SPECIFICATION Spec
CONSTANTS
    Addr9 = {i1, i2}
    AddrDev = {d1, d2, d3}
    Thread = {t1, t2}
    Null = null
INVARIANTS
    PinsCounted
    GameDeviceRecognized
PROPERTY NotRecycled
