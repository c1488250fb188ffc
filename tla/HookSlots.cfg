SPECIFICATION MCSpec
CONSTANTS
    Plain = {v1, v2}
    Pooled = {v3, v4}
    Resolved = {v1, v3}
    PoolSize = 2
    Tool = {f1, f2}
    PoolTool = {f1}
    Thread = {t1}
    Render = render
    Null = null
    Interface = {i1, i2}
    Device = {d1, d2}
    Hat = {0, 4499, 4500, 4501, 9000, 13499, 13500, 13501, 18000, 22499,
           22500, 22501, 27000, 31499, 31500, 31501, 35999, 36000, 65535}
    Stick = {1}
INVARIANTS
    CallsArrive
    HookRunsOnce
    OverlapIsWarned
    HatSteers
PROPERTY PlainStaysChained
