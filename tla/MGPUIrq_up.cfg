CONSTANTS
    Bits = {b1, b2}
    SMP = FALSE
    MaxRaises = 4
SPECIFICATION Spec
INVARIANT NoLostInterrupt
PROPERTY DispatchEventually
