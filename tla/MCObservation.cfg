SPECIFICATION Spec
SYMMETRY AllSymmetry
CONSTANTS
    Threads = {t1, t2}
    Events = {e1, e2, e3}
    Shapes = {s1, s2, s3}
    CacheSize = 2
    None = None
INVARIANTS
    TypeOK
    ExplainsItsRequest
    StoredOnce
    CacheKeepsRecent
