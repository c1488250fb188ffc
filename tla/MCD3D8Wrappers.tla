--------------------------- MODULE MCD3D8Wrappers ---------------------------
EXTENDS D3D8Wrappers, TLC

CONSTANTS i, d1, b1, r1, r2, o1, o2, o3, s1, s2, s3

MCDevice == {d1}
MCRes == {b1, r1, r2}
MCRes1 == {b1, r1}
MCEmbedded == d1 :> b1
Symmetry == Permutations({o1, o2, o3}) \cup Permutations({r1, r2})
            \cup Permutations({s1, s2, s3})
=============================================================================
