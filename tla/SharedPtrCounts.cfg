CONSTANTS
    Shareds = {s1, s2, s3, s4}
    Weaks = {w1, w2, w3}
    None = None
    MaxForgotten = 2
SPECIFICATION Spec
SYMMETRY Symmetry
INVARIANTS
    TypeOK
    CountsExact
    DeletedOnce
    RefCountFreed
CHECK_DEADLOCK FALSE
