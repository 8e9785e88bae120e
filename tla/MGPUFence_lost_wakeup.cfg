\* Two fence cells: FENCE_VALUE from one cell marks the other cell's waiter.
CONSTANTS
    Waiters = {w1}
    Cells = {c1, c2}
    BadAddr = BadAddr
    MaxVal = 2
    SeqBits = 2
SPECIFICATION Spec
PROPERTY WakeupNotLost
