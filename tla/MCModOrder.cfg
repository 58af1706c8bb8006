SPECIFICATION Spec
CONSTANTS
    Width = 64
    Bits = 6
    Moduli <- OddModuli
INVARIANTS
    TypeOK
    ProductSoFar
    WholeFactorRead
    LoopInvariant
    InverseFound
\* The calls return.
CHECK_DEADLOCK FALSE
