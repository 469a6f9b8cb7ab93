SPECIFICATION Spec
CONSTANTS
    Cache = {c1, c2}
    Page = {p, q, r}
    Cap = 3
    Null = null
SYMMETRY PageSymmetry
INVARIANTS
    SlabInv
    Accounted
    FreedIsReachable
CHECK_DEADLOCK FALSE
