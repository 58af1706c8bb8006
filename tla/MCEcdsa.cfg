SPECIFICATION Spec
CONSTANTS
    Prime = 43
    B = 18
    Bits = 6
    tableBits = 2
    ORDER = 31
    G <- BasePoint
    Keys <- EdgeKeys
    Hashes <- EdgeHashes
    MaxDepth = 2
INVARIANTS
    TypeOK
    CreatedVerifies
    AcceptsExactlySignatures
    PointsAgree
    AbortsBeyondOrder
\* A signature is checked once, and the process may have ended.
CHECK_DEADLOCK FALSE
