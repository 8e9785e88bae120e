CONSTANTS
    Bits = {b1, b2}
    SMP = TRUE
    MaxRaises = 3
SPECIFICATION Spec
SYMMETRY BitSymmetry
INVARIANT NoLostInterrupt
