SPECIFICATION MCSpec
CONSTANTS
    Value = {v1, v2}
    Preset = v1
    Bound = 3
    Skip = {0, 2}
    AutoAt = 2
    AutoMax = 3
    MaxLines = 3
INVARIANTS
    DeviceAsConfigured
    FreshFrame
    KeysArePressed
    StartsAsConfigured
    NeverWaits
PROPERTIES
    BehavesAsVanilla
    WritesPlayersCfg
