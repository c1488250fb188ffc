SPECIFICATION Spec
CONSTANTS
    Rate <- MCRate
    Request <- MCRequest
    Adapter <- MCAdapter
    Session <- MCSession
INVARIANTS
    ModesAreReal
PROPERTY KeepsDeviceCall
