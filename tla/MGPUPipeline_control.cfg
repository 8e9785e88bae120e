\* One draw and one thread calling flush, stall or resume: the vertex
\* fetch's read-modify-write of CONTROL straddles a flush.
CONSTANTS
    Callers = {c1}
    Controllers = {k1}
    None = None
SPECIFICATION Spec
INVARIANT FlushBitCleared
CHECK_DEADLOCK FALSE
