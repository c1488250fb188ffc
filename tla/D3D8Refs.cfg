CONSTANTS
    i = i
    d1 = d1
    b1 = b1
    r1 = r1
    r2 = r2
    o1 = o1
    o2 = o2
    o3 = o3
    s1 = s1
    s2 = s2
    s3 = s3
    Null = null
    Iface = i
    Device <- MCDevice
    Res <- MCRes
    Embedded <- MCEmbedded
    Obj9 = {o1, o2, o3}
    Sb = {s1}
    Base = {0}
    TokenMod = 4
    TokenSpread = 5
    MaxRefs = 3
    MaxSeq = 1
SPECIFICATION Spec
SYMMETRY Symmetry
INVARIANTS RefsAccounted NothingLeaked
PROPERTIES DeadStaysDead 
