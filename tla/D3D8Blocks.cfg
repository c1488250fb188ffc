CONSTANTS
    i = i
    d1 = d1
    b1 = b1
    r1 = r1
    r2 = r2
    o1 = o1
    o2 = o2
    o3 = o3
    s1 = s1
    s2 = s2
    s3 = s3
    Null = null
    Iface = i
    Device <- MCDevice
    Res <- MCRes1
    Embedded <- MCEmbedded
    Obj9 = {o1, o2}
    Sb = {s1, s2}
    Base = {0, 1}
    TokenMod = 3
    TokenSpread = 2
    MaxRefs = 2
    MaxSeq = 4
SPECIFICATION Spec
SYMMETRY Symmetry
INVARIANT ShadowCoherent
PROPERTIES TokensAreFresh KeepsIndexChannel
